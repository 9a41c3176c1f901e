-------------------------------- MODULE Views --------------------------------
(***************************************************************************)
(* The reading commands: `owl inbox` (plain, --new, --format claude,       *)
(* --count --follow), `owl show`, `owl watch`, `owl thread`, `owl history`,*)
(* the look-up of `owl ask --reply-to` and the `#N` of a listing, over a   *)
(* spool whose records arrive, move and are marked seen while they read    *)
(* (spool.rs, events.rs, render.rs, and inbox.rs, show.rs, watch.rs,       *)
(* thread.rs, history.rs and ask.rs under cli/).                           *)
(*                                                                         *)
(* Nothing here is locked.  A listing is the names of one directory, then  *)
(* one read per name; a mark is a read and a write; `owl thread` lists     *)
(* four directories one after the other.  Ids are numbers: ids are ordered *)
(* by the clock of whoever made them, so an id may arrive after a greater. *)
(***************************************************************************)
EXTENDS Integers, SequencesExt, FiniteSetsExt

CONSTANTS
  Record,       \* the ids, as numbers
  Peer,         \* the fingerprints of the peers
  PeerOf,       \* the peer a record is from or for
  Born,         \* the directory a record is first put in
  Answers,      \* the records of inbox/ that are answers, not requests
  Terminal,     \* where commands run, one at a time each
  Ops,          \* the commands that may be given
  EventsMax,    \* EVENTS_MAX
  TaskStates,   \* the states a peer may report of an open ask
  MaxCommands,  \* bound: commands per terminal, the use of a #N not counted
  None

\* A copy of a record: whether it was marked seen, and its events.
Event == {"received", "asked", "sent", "closed"} \union TaskStates
Copy == [seen : BOOLEAN, log : Seq(Event)]

ASSUME ViewsAssumption ==
  /\ Record \subseteq Nat /\ EventsMax \in Nat \ {0} /\ MaxCommands \in Nat
  /\ Born \in [Record -> {"inbox", "outbox", "asks"}]
  /\ Ops \subseteq {"inbox", "new", "claude", "show", "json", "thread", "threads", "history",
                   "watch", "follow", "number", "reply"}
  /\ None \notin Copy

VARIABLES
  store,     \* the copy of a record in each directory, or None
  leaving,   \* the records between the two file operations of a finish
  task,      \* the command running in each terminal
  commands,  \* how many commands each terminal has been given
  markers,   \* markers.json: the index of a peer, or None
  watches,   \* the terminals whose marker is under watch/
  shown,     \* history: the records printed to the owner
  unshown,   \* history: the records a `show --json` marked and then died with
  numbered,  \* history: the <<N, id>> pairs the last listing here printed
  changed,   \* history: the records that came to or left inbox/ since it began
  line       \* history: the last line a follow printed, spent by an empty poll

spool == <<store, leaving>>
files == <<markers, watches>>
history == <<shown, unshown, numbered, changed, line>>
vars == <<spool, task, commands, files, history>>

Dir == {"inbox", "outbox", "asks", "done"}
Listing == {"inbox", "new", "claude"}
In(d, r) == store[d][r] # None
Unseen(r) == In("inbox", r) /\ ~store["inbox"][r].seen
Held == {r \in Record : \E d \in Dir : In(d, r)}

Idle == [pc |-> "idle", op |-> "none", k |-> 0, todo |-> {}, rows |-> {},
         held |-> {}, prev |-> None, read |-> None, arg |-> None]

At(c, pc) == task[c].pc = pc
Become(c, t) == task' = [task EXCEPT ![c] = t]
Goto(c, pc) == Become(c, [task[c] EXCEPT !.pc = pc])

Init ==
  /\ store = [d \in Dir |-> [r \in Record |-> None]]
  /\ leaving = {}
  /\ task = [c \in Terminal |-> Idle] /\ commands = [c \in Terminal |-> 0]
  /\ markers = [p \in Peer |-> None] /\ watches = {}
  /\ shown = {} /\ unshown = {} /\ numbered = [c \in Terminal |-> {}]
  /\ changed = [c \in Terminal |-> {}] /\ line = [c \in Terminal |-> None]

-----------------------------------------------------------------------------
(* The event log of a record (events.rs).                                   *)

IsState(e) == e \in TaskStates
LastState(log) ==
  LET said == SelectSeq(log, IsState)
  IN IF said = <<>> THEN None ELSE Last(said)

CappedFromTheFront(log) ==
  IF Len(log) > EventsMax THEN Tail(log) ELSE log
Capped(log) == IF Len(log) > EventsMax THEN RemoveAt(log, 2) ELSE log

Push(log, e) ==
  IF IsState(e) /\ LastState(log) = e THEN log ELSE Capped(Append(log, e))

Birth(r) == IF Born[r] = "asks" THEN "asked" ELSE "received"
Pushed(copy, e) == [copy EXCEPT !.log = Push(copy.log, e)]

-----------------------------------------------------------------------------
(* What happens to the records meanwhile, at the grain a reader can see.    *)

Put(d, r, copy) == store' = [store EXCEPT ![d][r] = copy]
Move(r, from, to, copy) ==
  store' = [store EXCEPT ![from][r] = None, ![to][r] = copy]
InboxChanged(r) ==
  changed' = [c \in Terminal |->
    IF task[c].op \in Listing \/ numbered[c] # {} THEN changed[c] \union {r}
    ELSE changed[c]]

Others == UNCHANGED <<task, commands, files, shown, unshown, numbered, line>>

Arrive(r) ==
  /\ r \notin Held
  /\ Put(Born[r], r, [seen |-> FALSE, log |-> <<Birth(r)>>])
  /\ IF Born[r] = "inbox" THEN InboxChanged(r) ELSE UNCHANGED changed
  /\ UNCHANGED leaving /\ Others

\* answer::finish: done/ is written, then the file of inbox/ is removed.
FinishWrite(r) ==
  /\ In("inbox", r) /\ ~In("done", r)
  /\ Put("done", r, Pushed(store["inbox"][r], "sent"))
  /\ leaving' = leaving \union {r}
  /\ UNCHANGED changed /\ Others

FinishUnlink(r) ==
  /\ r \in leaving
  /\ Put("inbox", r, None) /\ leaving' = leaving \ {r}
  /\ InboxChanged(r) /\ Others

FinishDies(r) ==
  /\ r \in leaving /\ leaving' = leaving \ {r}
  /\ UNCHANGED <<store, changed>> /\ Others

\* An ack moves an envelope, an answer or a refusal moves an ask: one rename
\* (what is written after it changes no directory).
Leave(r) ==
  /\ \E d \in {"outbox", "asks"} :
       /\ In(d, r)
       /\ Move(r, d, "done", IF d = "asks" THEN Pushed(store[d][r], "closed")
                             ELSE store[d][r])
  /\ UNCHANGED <<leaving, changed>> /\ Others

NoteState(r, s) ==
  /\ In("asks", r)
  /\ Put("asks", r, Pushed(store["asks"][r], s))
  /\ UNCHANGED <<leaving, changed>> /\ Others

-----------------------------------------------------------------------------
(* Spool::list and list_lenient: the names, then a read per name.  A file   *)
(* that is gone by then is skipped.                                         *)

DirsBackwards == <<"done", "asks", "outbox", "inbox">>
Dirs == <<"inbox", "outbox", "asks", "done">>

\* `owl inbox` lists inbox/ a second time, unfiltered, for the numbers.
DirsOf(op) ==
  CASE op \in Listing -> <<"inbox", "inbox">>
    [] op \in {"thread", "threads"} -> Dirs
    [] op = "history" -> <<"done">>
    [] OTHER -> <<"inbox">>

Wanted(t, copy) ==
  t.op \in {"new", "watch", "follow"} /\ t.k = 1 => ~copy.seen

RowsOf(t, k) == {row \in t.rows : row.k = k}
Ids(rows) == {row.id : row \in rows}

HeldFor(op) ==
  CASE op = "watch" -> {r \in Record : Unseen(r)}
    [] op \in {"thread", "threads"} -> Held
    [] op = "history" -> {r \in Record : In("done", r)}
    [] op = "reply" -> {r \in Record : In("asks", r) \/ (In("done", r) /\ Born[r] = "asks")}
    [] OTHER -> {}

Looking(t) ==
  [t EXCEPT !.pc = IF t.op = "reply" THEN "get" ELSE "names",
            !.k = 1, !.rows = {}, !.held = HeldFor(t.op)]

\* What follows the name of the command: a #N, a peer, or nothing.
Arguments(c, op) ==
  CASE op = "number" -> numbered[c]
    [] op = "thread" -> Peer
    [] op = "reply" -> Record
    [] OTHER -> {None}

Begin(c, op) ==
  /\ At(c, "idle")
  /\ IF op = "number" THEN numbered[c] # {} ELSE commands[c] < MaxCommands
  /\ \E a \in Arguments(c, op) :
       Become(c, Looking([Idle EXCEPT !.op = op, !.arg = a]))
  /\ commands' = IF op = "number" THEN commands
                 ELSE [commands EXCEPT ![c] = @ + 1]
  /\ watches' = IF op = "follow" THEN watches \union {c} ELSE watches
  /\ numbered' = IF op = "number" THEN numbered
                 ELSE [numbered EXCEPT ![c] = {}]
  /\ changed' = IF op = "number" THEN changed ELSE [changed EXCEPT ![c] = {}]
  /\ line' = [line EXCEPT ![c] = None]
  /\ UNCHANGED <<spool, markers, shown, unshown>>

Names(c) ==
  /\ At(c, "names")
  /\ LET d == DirsOf(task[c].op)[task[c].k]
     IN Become(c, [task[c] EXCEPT !.pc = "read",
                                  !.todo = {r \in Record : In(d, r)}])
  /\ UNCHANGED <<spool, commands, files, history>>

ReadRecord(c, r) ==
  LET t == task[c]
      copy == store[DirsOf(t.op)[t.k]][r]
      row == [k |-> t.k, id |-> r, copy |-> copy]
      take == IF copy # None /\ Wanted(t, copy) THEN {row} ELSE {}
  IN /\ At(c, "read") /\ r \in t.todo
     /\ Become(c, [t EXCEPT !.todo = @ \ {r}, !.rows = @ \union take])
     /\ UNCHANGED <<spool, commands, files, history>>

AfterListing(t) ==
  CASE t.op \in {"inbox", "new"} -> "print"
    [] t.op \in {"thread", "threads", "history"} -> "tell"
    [] t.op = "claude" -> "markers"
    [] t.op \in {"show", "json"} -> "mark"
    [] t.op = "watch" -> "watch"
    [] t.op = "follow" -> "follow"
    [] t.op = "number" -> "resolve"

ListingEnds(c) ==
  LET t == task[c]
  IN /\ At(c, "read") /\ t.todo = {}
     /\ Become(c, IF t.k < Len(DirsOf(t.op))
                  THEN [t EXCEPT !.pc = "names", !.k = @ + 1]
                  ELSE [t EXCEPT !.pc = AfterListing(t),
                                 !.todo = Ids(RowsOf(t, 1))])
     /\ UNCHANGED <<spool, commands, files, history>>

-----------------------------------------------------------------------------
(* `owl ask --reply-to <id>`: one id, looked up in three directories.       *)

LookupDirs == <<"asks", "done", "inbox">>

LookUp(c) ==
  LET t == task[c]
  IN /\ At(c, "get")
     /\ IF In(LookupDirs[t.k], t.arg) THEN Become(c, [t EXCEPT !.pc = "end", !.read = t.arg])
        ELSE IF t.k < Len(LookupDirs) THEN Become(c, [t EXCEPT !.k = @ + 1])
        ELSE Goto(c, "end")
     /\ UNCHANGED <<spool, commands, files, history>>

-----------------------------------------------------------------------------
(* `owl inbox`: print every row, then mark each row seen.                    *)

Position(r, ids) ==
  IF r \in ids THEN Cardinality({x \in ids : x <= r}) ELSE 0
NumberInRows(t, r) == Position(r, Ids(RowsOf(t, 1)))
Number(t, r) == Position(r, Ids(RowsOf(t, 2)))

Numbers(t) == {<<Number(t, r), r>> : r \in Ids(RowsOf(t, 1))}

ToMarkOfAll(t) == Ids(RowsOf(t, 2))
ToMark(t) == Ids(RowsOf(t, 1))

PrintRows(c) ==
  LET t == task[c]
  IN /\ At(c, "print")
     /\ shown' = shown \union t.todo
     /\ numbered' = [numbered EXCEPT ![c] = {p \in Numbers(t) : p[1] > 0}]
     /\ Become(c, [t EXCEPT !.pc = "mark", !.todo = ToMark(t)])
     /\ UNCHANGED <<spool, commands, files, unshown, changed, line>>

(* `--format claude`: the answers table gives every peer a marker that is    *)
(* kept in markers.json, read before the rows and written after them.        *)
LoadMarkers(c) ==
  /\ At(c, "markers")
  /\ Become(c, [task[c] EXCEPT !.pc = "saveMarkers", !.read = markers])
  /\ UNCHANGED <<spool, commands, files, history>>

PeersToMark(t) == {PeerOf[r] : r \in Ids(RowsOf(t, 1)) \intersect Answers}
Marked(m) == {p \in Peer : m[p] # None}

SaveMarkers(c) ==
  LET t == task[c]
      new == PeersToMark(t) \ Marked(t.read)
  IN /\ At(c, "saveMarkers")
     /\ IF new = {} THEN UNCHANGED markers
        ELSE \E order \in SetToAllKPermutations(new) :
               /\ Len(order) = Cardinality(new)
               /\ markers' = [p \in Peer |->
                    IF p \in new
                    THEN Cardinality(Marked(t.read))
                           - 1 + CHOOSE i \in DOMAIN order : order[i] = p
                    ELSE t.read[p]]
     /\ Become(c, [t EXCEPT !.pc = "print", !.read = None])
     /\ UNCHANGED <<spool, commands, watches, history>>

(* mark_seen: a read of the record, then a write of the whole of it.  `owl   *)
(* show` prints each record as its turn comes, `show --json` at the end.     *)
SeenInRow(t, r) == \E row \in RowsOf(t, 1) : row.id = r /\ row.copy.seen

Lose(t) ==
  unshown' = IF t.op = "json" THEN unshown \union ToMark(t) ELSE unshown

MarkRead(c) ==
  LET t == task[c]
      r == Min(t.todo)
  IN /\ At(c, "mark") /\ t.todo # {}
     /\ shown' = IF t.op = "show" THEN shown \union {r} ELSE shown
     /\ CASE SeenInRow(t, r) ->
               Become(c, [t EXCEPT !.todo = @ \ {r}]) /\ UNCHANGED unshown
          [] ~SeenInRow(t, r) /\ In("inbox", r) ->
               /\ Become(c, [t EXCEPT !.pc = "put",
                                       !.read = store["inbox"][r]])
               /\ UNCHANGED unshown
          [] OTHER ->
               /\ Become(c, Idle)
               /\ Lose(t)
     /\ UNCHANGED <<spool, commands, files, numbered, changed, line>>

MarkWrite(c) ==
  LET t == task[c]
      r == Min(t.todo)
  IN /\ At(c, "put")
     /\ Put("inbox", r, [t.read EXCEPT !.seen = TRUE])
     /\ IF In("inbox", r) THEN UNCHANGED changed ELSE InboxChanged(r)
     /\ Become(c, [t EXCEPT !.pc = "mark", !.read = None, !.todo = @ \ {r}])
     /\ UNCHANGED <<leaving, commands, files, shown, unshown, numbered, line>>

MarkEnds(c) ==
  LET t == task[c]
  IN /\ At(c, "mark") /\ t.todo = {}
     /\ shown' = IF t.op = "json" THEN shown \union ToMark(t) ELSE shown
     /\ Become(c, Idle)
     /\ UNCHANGED <<spool, commands, files, unshown, numbered, changed, line>>

-----------------------------------------------------------------------------
(* `owl watch` polls until a record is unseen or its time is over, `owl     *)
(* inbox --count --follow` until its marker is gone.                        *)

Watch(c) ==
  LET t == task[c]
  IN /\ At(c, "watch")
     /\ \/ t.rows # {} /\ Become(c, Idle)
        \/ t.rows = {} /\ Goto(c, "timeout")
        \/ t.rows = {} /\ Become(c, Looking(t))
     /\ UNCHANGED <<spool, commands, files, history>>

CountOf(p, ids) == Cardinality({r \in ids : PeerOf[r] = p})
Sentence(ids) ==
  IF ids = {} THEN None
  ELSE [peers |-> [p \in Peer |-> CountOf(p, ids)],
        answers |-> Cardinality(ids \intersect Answers)]

PrevUnlessNone(t, cur) == IF cur = None THEN t.prev ELSE cur
NextPrev(t, cur) == cur

Follow(c) ==
  LET t == task[c]
      cur == Sentence(Ids(t.rows))
  IN /\ At(c, "follow")
     /\ line' = [line EXCEPT ![c] = IF cur = None THEN None
                                    ELSE IF cur # t.prev THEN cur ELSE @]
     /\ Become(c, [t EXCEPT !.pc = "sleep", !.prev = NextPrev(t, cur)])
     /\ UNCHANGED <<spool, commands, files, shown, unshown, numbered, changed>>

\* The marker is looked at after the sleep; its reader may have gone away.
FollowOn(c) ==
  LET t == task[c]
  IN /\ At(c, "sleep")
     /\ IF c \in watches THEN Become(c, Looking(t)) ELSE Become(c, Idle)
     /\ UNCHANGED <<spool, commands, files, history>>

ReaderGone(c) ==
  /\ At(c, "follow") /\ Sentence(Ids(task[c].rows)) \notin {None, task[c].prev}
  /\ watches' = watches \ {c} /\ Become(c, Idle)
  /\ UNCHANGED <<spool, commands, markers, history>>

RemoveMarker(c) ==
  /\ c \in watches /\ watches' = watches \ {c}
  /\ UNCHANGED <<spool, task, commands, markers, history>>

\* The sweep of a SessionStart: a marker whose process is gone.
SweepMarkers ==
  /\ watches' = {c \in watches : task[c].op = "follow"}
  /\ watches' # watches
  /\ UNCHANGED <<spool, task, commands, markers, history>>

-----------------------------------------------------------------------------
(* `#N` on another command line: the N-th of a listing made now.             *)

Resolved(t) ==
  LET found == {r \in Ids(t.rows) : Position(r, Ids(t.rows)) = t.arg[1]}
  IN IF found = {} THEN None ELSE CHOOSE r \in found : TRUE

Resolve(c) ==
  /\ At(c, "resolve")
  /\ Become(c, [task[c] EXCEPT !.pc = "end", !.read = Resolved(task[c])])
  /\ UNCHANGED <<spool, commands, files, history>>

-----------------------------------------------------------------------------
(* `owl thread` and `owl history` print what their listings found.           *)

PeersOf(ids) == {PeerOf[r] : r \in ids}

\* `owl thread <peer>`: the log of every copy found of a record of the peer.
Timeline(t) ==
  {<<row.id, row.copy.log>> : row \in {x \in t.rows : PeerOf[x.id] = t.arg}}

\* `owl thread`: a line per peer, with what inbox/ has unseen of him.
PeerList(t) ==
  LET unseen == {row \in RowsOf(t, 1) : ~row.copy.seen}
  IN {<<p, CountOf(p, Ids(unseen))>> : p \in PeersOf(Ids(t.rows))}

\* `owl history`: the records of done/.
HistoryOf(t) == Ids(t.rows)

Tell(c) ==
  LET t == task[c]
      told == CASE t.op = "thread" -> Timeline(t)
                [] t.op = "threads" -> PeerList(t)
                [] t.op = "history" -> HistoryOf(t)
  IN /\ At(c, "tell")
     /\ Become(c, [t EXCEPT !.pc = "end", !.rows = {}, !.read = told])
     /\ UNCHANGED <<spool, commands, files, history>>

End(c) ==
  /\ task[c].pc \in {"end", "timeout"}
  /\ Become(c, Idle)
  /\ UNCHANGED <<spool, commands, files, history>>

\* Ctrl-C anywhere; what a `show --json` had marked is not printed any more.
Interrupt(c) ==
  LET t == task[c]
  IN /\ t.pc \notin {"idle", "end", "timeout"}
     /\ Become(c, Idle)
     /\ Lose(t)
     /\ UNCHANGED <<spool, commands, files, shown, numbered, changed, line>>

Records(r) ==
  \/ Arrive(r) \/ FinishWrite(r) \/ FinishUnlink(r) \/ FinishDies(r) \/ Leave(r)
  \/ \E s \in TaskStates : NoteState(r, s)

Command(c) ==
  \/ \E op \in Ops : Begin(c, op)
  \/ Names(c) \/ (\E r \in Record : ReadRecord(c, r)) \/ ListingEnds(c)
  \/ PrintRows(c) \/ LoadMarkers(c) \/ SaveMarkers(c)
  \/ MarkRead(c) \/ MarkWrite(c) \/ MarkEnds(c)
  \/ Watch(c) \/ Follow(c) \/ FollowOn(c) \/ ReaderGone(c) \/ RemoveMarker(c)
  \/ LookUp(c) \/ Resolve(c) \/ Tell(c) \/ End(c) \/ Interrupt(c)

Next ==
  \/ \E r \in Record : Records(r)
  \/ \E c \in Terminal : Command(c)
  \/ SweepMarkers

Spec == Init /\ [][Next]_vars

-----------------------------------------------------------------------------
(* `owl thread` and `owl history` leave nothing out: every record that was    *)
(* there when they began is told of, whatever moved between the listings, and *)
(* a timeline tells it from the event it began with, which the cap of the log *)
(* never cuts (thread.rs records, history.rs run, events.rs push); an ask     *)
(* that is being closed can still be replied to (ask.rs thread_of).           *)
TimelineComplete ==
  \A c \in Terminal : LET t == task[c] IN At(c, "end") => \A r \in t.held :
    CASE t.op = "thread" -> PeerOf[r] = t.arg =>
           \E e \in t.read : e[1] = r /\ Head(e[2]) = Birth(r)
      [] t.op = "threads" -> \E row \in t.read : row[1] = PeerOf[r]
      [] t.op = "history" -> r \in t.read
      [] t.op = "reply" -> r = t.arg => t.read = r

(* What is marked seen has been printed: nobody stops being reminded of a     *)
(* record he was never shown (inbox.rs run, show.rs run).  `show --json`      *)
(* prints after it marks, so what it had in hand when it died is excepted.    *)
SeenWasShown ==
  \A r \in Record : In("inbox", r) /\ store["inbox"][r].seen =>
    \/ r \in shown \union unshown
    \/ \E c \in Terminal : task[c].op = "json" /\ r \in ToMark(task[c])

(* The `#N` of a listing, --new or not, names the record it stood beside as   *)
(* long as no record at or before it has come or gone.                        *)
NumberStands ==
  \A c \in Terminal : task[c].op = "number" /\ At(c, "end") =>
    \/ task[c].read = task[c].arg[2]
    \/ \E x \in changed[c] : x <= task[c].arg[2]

(* A watch gives up, and a follow stays silent, only when there is nothing    *)
(* to tell: what was unseen when the last poll of a watch began is unseen no  *)
(* more, and the last line of a follow counts what its last poll found.       *)
NothingUntold ==
  \A c \in Terminal :
    /\ At(c, "timeout") => \A r \in task[c].held : ~Unseen(r)
    /\ At(c, "sleep") => line[c] = Sentence(Ids(task[c].rows))
=============================================================================
