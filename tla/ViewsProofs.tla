----------------------------- MODULE ViewsProofs -----------------------------
(***************************************************************************)
(* Theorems about Views: what the reading commands promise, for any number  *)
(* of records, peers, terminals and commands.                               *)
(*                                                                         *)
(* Every promise compares what a command gathered with what the spool holds *)
(* when it ends.  So each proof has two halves: what may happen to a record *)
(* while it is looked for (it only moves towards done/, it is never unseen  *)
(* again, and who numbers records is told of what comes and goes), and how  *)
(* far the command has come.                                                *)
(***************************************************************************)
EXTENDS Views, TLAPS, FiniteSetTheorems, WellFoundedInduction, NaturalsInduction, SequenceTheorems

-----------------------------------------------------------------------------
(* Numbers: a set of them has a least one. *)

LEMMA LeastElement ==
  ASSUME NEW S, S \subseteq Nat, S # {}
  PROVE  \E x \in S : \A y \in S : x <= y
<1>1. IsWellFoundedOn(OpToRel(<, Nat), Nat)
  BY NatLessThanWellFounded
<1>2. PICK x \in S : \A y \in S : ~(<<y, x>> \in OpToRel(<, Nat))
  BY <1>1, WFMin
<1>3. \A y \in S : ~(y < x)
  BY <1>2 DEF OpToRel
<1> QED BY <1>3

LEMMA MinIsIn ==
  ASSUME NEW S, S \subseteq Nat, S # {}
  PROVE  Min(S) \in S
<1> DEFINE P(x) == x \in S /\ \A y \in S : x <= y
<1>1. \E x : P(x)
  BY LeastElement
<1>2. P(CHOOSE x : P(x))
  BY <1>1
<1>3. Min(S) = CHOOSE x \in S : \A y \in S : x <= y
  BY DEF Min
<1> QED BY <1>2, <1>3

-----------------------------------------------------------------------------
(* The event log: a push keeps the event the log began with.                *)

Rooted(copy, r) == copy \in Copy /\ copy.log # <<>> /\ Head(copy.log) = Birth(r)

LEMMA PushKeepsTheFirst ==
  ASSUME NEW log \in Seq(Event), log # <<>>, NEW e \in Event
  PROVE  Push(log, e) \in Seq(Event) /\ Push(log, e) # <<>> /\ Head(Push(log, e)) = Head(log)
<1> DEFINE long == Append(log, e)
<1>1. /\ long \in Seq(Event) /\ Len(long) = Len(log) + 1 /\ Len(log) \in Nat /\ Len(log) > 0
      /\ \A i \in 1..Len(log) : long[i] = log[i]
  OBVIOUS
<1>2. Head(long) = Head(log)
  BY <1>1
<1> HIDE DEF long
<1>3. CASE Len(long) > EventsMax
  <2> DEFINE first == SubSeq(long, 1, 1)
             rest == SubSeq(long, 3, Len(long))
  <2>1. RemoveAt(long, 2) = first \o rest
    BY DEF RemoveAt
  <2>2. first \in Seq(Event) /\ Len(first) = 1 /\ first[1] = Head(long)
    BY <1>1
  <2>3. rest \in Seq(Event) /\ Len(rest) \in Nat
    BY <1>1
  <2> HIDE DEF first, rest
  <2>4. /\ first \o rest \in Seq(Event) /\ Len(first \o rest) = 1 + Len(rest)
        /\ (first \o rest)[1] = first[1]
    <3>1. /\ first \o rest \in Seq(Event) /\ Len(first \o rest) = Len(first) + Len(rest)
          /\ \A i \in 1..Len(first) + Len(rest) :
               (first \o rest)[i] = IF i <= Len(first) THEN first[i] ELSE rest[i - Len(first)]
      BY <2>2, <2>3, ConcatProperties, Zenon
    <3>2. 1 \in 1..Len(first) + Len(rest) /\ 1 <= Len(first)
      BY <2>2, <2>3
    <3>3. (first \o rest)[1] = first[1]
      BY <3>1, <3>2
    <3> QED BY <2>2, <3>1, <3>3
  <2>5. first \o rest # <<>> /\ Head(first \o rest) = Head(long)
    BY <2>2, <2>3, <2>4
  <2>6. Capped(long) = first \o rest
    BY <1>3, <2>1 DEF Capped
  <2>7. Push(log, e) = log \/ Push(log, e) = first \o rest
    BY <2>6 DEF Push, long
  <2> QED BY <1>2, <2>4, <2>5, <2>7
<1>4. CASE ~(Len(long) > EventsMax)
  <2>1. Push(log, e) = log \/ Push(log, e) = long
    BY <1>4 DEF Push, Capped, long
  <2>2. long # <<>>
    BY <1>1
  <2> QED BY <1>1, <1>2, <2>1, <2>2
<1> QED BY <1>3, <1>4

LEMMA PushedRooted ==
  ASSUME NEW copy, NEW r, Rooted(copy, r), NEW e \in Event
  PROVE  Rooted(Pushed(copy, e), r)
<1>1. /\ Pushed(copy, e).log = Push(copy.log, e) /\ Pushed(copy, e).seen = copy.seen
      /\ copy.log \in Seq(Event) /\ copy.log # <<>>
  BY DEF Rooted, Copy, Pushed
<1>2. Push(copy.log, e) \in Seq(Event) /\ Push(copy.log, e) # <<>>
      /\ Head(Push(copy.log, e)) = Head(copy.log)
  BY <1>1, PushKeepsTheFirst
<1>3. Pushed(copy, e) \in Copy
  BY <1>2 DEF Rooted, Copy, Pushed
<1> QED BY <1>1, <1>2, <1>3 DEF Rooted

LEMMA BirthEvent == \A r : Birth(r) \in Event
  BY DEF Birth, Event

LEMMA CopyExists == ASSUME NEW copy \in Copy PROVE copy # None
  BY ViewsAssumption

-----------------------------------------------------------------------------
(* What every state satisfies.  A copy anywhere, in a directory, in a row or in *)
(* the hand of a mark, has the log of its record from the first event on; and a   *)
(* command is only ever at the steps of its own.                                 *)

Row == [k : Nat, id : Record, copy : Copy]
Place(d) == {r \in Record : In(d, r)}

StoreOK ==
  /\ store \in [Dir -> [Record -> Copy \union {None}]]
  /\ \A d \in Dir, r \in Record : In(d, r) => Rooted(store[d][r], r)
  /\ leaving \subseteq Place("done")

Field == {"pc", "op", "k", "todo", "rows", "held", "prev", "read", "arg"}
Shaped(t) ==
  /\ t = [f \in Field |-> t[f]]
  /\ t.todo \subseteq Record /\ t.rows \subseteq Row /\ t.held \subseteq Record
  /\ \A row \in t.rows : Rooted(row.copy, row.id)
  /\ t.pc \in {"names", "read"} => t.k \in 1..Len(DirsOf(t.op))
  /\ t.pc = "get" => t.k \in 1..3
  /\ t.pc = "put" => t.todo # {} /\ Rooted(t.read, Min(t.todo))

Scans == {"inbox", "new", "claude", "show", "json", "thread", "threads", "history", "watch",
          "follow", "number"}
Placed(t) ==
  /\ t.pc = "idle" => t.op = "none"
  /\ t.pc \in {"names", "read"} => t.op \in Scans
  /\ t.pc = "get" => t.op = "reply"
  /\ t.pc \in {"print", "markers", "saveMarkers"} => t.op \in Listing
  /\ t.pc \in {"mark", "put"} => t.op \in Listing \union {"show", "json"}
  /\ t.pc \in {"watch", "timeout"} => t.op = "watch"
  /\ t.pc \in {"follow", "sleep"} => t.op = "follow"
  /\ t.pc = "resolve" => t.op = "number"
  /\ t.pc = "tell" => t.op \in {"thread", "threads", "history"}
  /\ t.pc = "end" => t.op \in {"thread", "threads", "history", "number", "reply"}

Fit(t) == Shaped(t) /\ Placed(t)
TasksOK == task = [c \in Terminal |-> task[c]] /\ \A c \in Terminal : Fit(task[c])

HistoryOK ==
  /\ numbered \in [Terminal -> SUBSET (Nat \X Record)]
  /\ changed \in [Terminal -> SUBSET Record]
  /\ line = [c \in Terminal |-> line[c]]

Base == StoreOK /\ TasksOK /\ HistoryOK

-----------------------------------------------------------------------------
(* Directories. *)

LEMMA DirsFacts ==
  /\ Dir = {"inbox", "outbox", "asks", "done"}
  /\ Dirs[1] = "inbox" /\ Dirs[2] = "outbox" /\ Dirs[3] = "asks" /\ Dirs[4] = "done" /\ Len(Dirs) = 4
  BY DEF Dir, Dirs

LEMMA DirsOfFacts ==
  /\ \A op \in Listing : DirsOf(op) = <<"inbox", "inbox">>
  /\ \A op \in {"thread", "threads"} : DirsOf(op) = Dirs
  /\ DirsOf("history") = <<"done">>
  /\ \A op \in {"show", "json", "watch", "follow", "number", "reply"} : DirsOf(op) = <<"inbox">>
  BY DEF DirsOf, Listing

LEMMA DirOfStep ==
  ASSUME NEW op \in Scans, NEW k \in 1..Len(DirsOf(op))
  PROVE  DirsOf(op)[k] \in Dir /\ Len(DirsOf(op)) \in Nat \ {0} /\ k \in Nat
<1>1. CASE op \in Listing
  BY <1>1, DirsOfFacts DEF Dir
<1>2. CASE op \in {"thread", "threads"}
  <2>1. k \in 1..4
    BY <1>2, DirsOfFacts, DirsFacts
  <2>2. k = 1 \/ k = 2 \/ k = 3 \/ k = 4
    BY <2>1
  <2> QED BY <1>2, <2>2, DirsOfFacts, DirsFacts
<1>3. CASE op \in {"history", "show", "json", "watch", "follow", "number"}
  BY <1>3, DirsOfFacts DEF Dir
<1> QED BY <1>1, <1>2, <1>3 DEF Scans, Listing

LEMMA CopyIn ==
  ASSUME Base, NEW d \in Dir, NEW r \in Record, store[d][r] # None
  PROVE  store[d][r] \in Copy /\ Rooted(store[d][r], r)
  BY DEF Base, StoreOK, In

LEMMA PositionIsNat ==
  ASSUME NEW ids, ids \subseteq Nat, NEW r \in Nat
  PROVE  /\ IsFiniteSet({x \in ids : x <= r})
         /\ Position(r, ids) \in Nat
<1>1. IsFiniteSet(0..r)
  BY FS_Interval
<1>2. {x \in ids : x <= r} \subseteq 0..r
  <2>1. \A x \in ids : x <= r => x \in 0..r
    OBVIOUS
  <2> QED BY <2>1
<1>3. IsFiniteSet({x \in ids : x <= r})
  BY <1>1, <1>2, FS_Subset
<1>4. Cardinality({x \in ids : x <= r}) \in Nat
  BY <1>3, FS_CardinalityType
<1> QED BY <1>3, <1>4 DEF Position

-----------------------------------------------------------------------------
(* One command moves. *)

LEMMA FitBecome ==
  ASSUME TasksOK, NEW c \in Terminal, NEW t, Become(c, t), Fit(t)
  PROVE  /\ TasksOK' /\ task'[c] = t
         /\ \A d \in Terminal : d # c => task'[d] = task[d]
<1>1. task'[c] = t /\ \A d \in Terminal : d # c => task'[d] = task[d]
  BY DEF TasksOK, Become
<1>2. task' = [d \in Terminal |-> task'[d]]
  BY <1>1 DEF TasksOK, Become
<1>3. \A d \in Terminal : Fit(task'[d])
  BY <1>1 DEF TasksOK
<1> QED BY <1>1, <1>2, <1>3 DEF TasksOK, Fit, Shaped, Placed

LEMMA IdleFit == Fit(Idle)
  BY DEF Idle, Fit, Shaped, Placed, Field

(* A command goes on with the same rows. *)
LEMMA MovesFit ==
  ASSUME NEW t, Shaped(t), NEW pc, pc \notin {"names", "read", "get", "put"},
         NEW todo, todo \subseteq Record, NEW x
  PROVE  /\ Shaped([t EXCEPT !.pc = pc])
         /\ Shaped([t EXCEPT !.pc = pc, !.todo = todo])
         /\ Shaped([t EXCEPT !.pc = pc, !.read = x])
         /\ Shaped([t EXCEPT !.pc = pc, !.prev = x])
         /\ Shaped([t EXCEPT !.pc = pc, !.read = x, !.todo = todo])
         /\ Shaped([t EXCEPT !.pc = pc, !.rows = {}, !.read = x])
<1>1. Shaped([t EXCEPT !.pc = pc])
  BY DEF Shaped, Field
<1>2. Shaped([t EXCEPT !.pc = pc, !.todo = todo])
  BY DEF Shaped, Field
<1>3. Shaped([t EXCEPT !.pc = pc, !.read = x])
  BY DEF Shaped, Field
<1>4. Shaped([t EXCEPT !.pc = pc, !.prev = x])
  BY DEF Shaped, Field
<1>5. Shaped([t EXCEPT !.pc = pc, !.read = x, !.todo = todo])
  BY DEF Shaped, Field
<1>6. Shaped([t EXCEPT !.pc = pc, !.rows = {}, !.read = x])
  BY DEF Shaped, Field
<1> QED BY <1>1, <1>2, <1>3, <1>4, <1>5, <1>6

LEMMA LookingFit ==
  ASSUME NEW t, Shaped(t), t.op \in Scans \union {"reply"}
  PROVE  Fit(Looking(t))
<1> DEFINE u == Looking(t)
<1>1. HeldFor(t.op) \subseteq Record
  BY DEF HeldFor, Held
<1>2. /\ u.pc = IF t.op = "reply" THEN "get" ELSE "names"
      /\ u.k = 1 /\ u.rows = {} /\ u.held = HeldFor(t.op) /\ u.op = t.op /\ u.todo = t.todo
      /\ u = [f \in Field |-> u[f]]
  BY DEF Looking, Shaped, Field
<1>3. t.todo \subseteq Record
  BY DEF Shaped
<1> HIDE DEF u
<1>4. t.op # "reply" => 1 \in 1..Len(DirsOf(t.op))
  <2>1. CASE t.op \in Listing
    BY <2>1, DirsOfFacts
  <2>2. CASE t.op \in {"thread", "threads"}
    BY <2>2, DirsOfFacts, DirsFacts
  <2>3. CASE t.op \in {"history", "show", "json", "watch", "follow", "number"}
    BY <2>3, DirsOfFacts
  <2> QED BY <2>1, <2>2, <2>3 DEF Scans, Listing
<1>5. Shaped(u)
  BY <1>1, <1>2, <1>3, <1>4 DEF Shaped
<1>6. Placed(u)
  BY <1>2 DEF Placed
<1> QED BY <1>5, <1>6 DEF Fit, u

LEMMA BaseMove ==
  ASSUME Base, UNCHANGED <<spool, numbered, changed, line>>,
         NEW c \in Terminal, NEW t, Become(c, t), Fit(t)
  PROVE  Base'
<1>1. TasksOK'
  BY FitBecome DEF Base
<1>2. StoreOK' /\ HistoryOK'
  BY DEF Base, StoreOK, HistoryOK, spool, In, Place, Rooted
<1> QED BY <1>1, <1>2 DEF Base

LEMMA BaseIdle ==
  ASSUME Base, UNCHANGED <<spool, numbered, changed, line>>, NEW c \in Terminal, Become(c, Idle)
  PROVE  Base'
  BY BaseMove, IdleFit

LEMMA TaskFit == ASSUME Base, NEW c \in Terminal PROVE Fit(task[c])
  BY DEF Base, TasksOK

LEMMA BeginBase ==
  ASSUME Base, NEW c \in Terminal, NEW op \in Ops, Begin(c, op)
  PROVE  Base'
<1> DEFINE u(a) == [Idle EXCEPT !.op = op, !.arg = a]
<1>1. PICK a \in Arguments(c, op) : Become(c, Looking(u(a)))
  BY DEF Begin
<1>2. Shaped(u(a)) /\ u(a).op = op
  BY DEF Idle, Shaped, Field
<1>3. op \in Scans \union {"reply"}
  BY ViewsAssumption DEF Scans
<1> HIDE DEF u
<1>4. Fit(Looking(u(a)))
  BY <1>2, <1>3, LookingFit
<1>5. TasksOK'
  BY <1>1, <1>4, FitBecome DEF Base
<1>6. StoreOK'
  BY DEF Begin, Base, StoreOK, spool, In, Place, Rooted
<1>7. HistoryOK'
  BY DEF Begin, Base, HistoryOK
<1> QED BY <1>5, <1>6, <1>7 DEF Base

LEMMA NamesBase ==
  ASSUME Base, NEW c \in Terminal, Names(c)
  PROVE  Base'
<1> DEFINE t == task[c]
           S == {r \in Record : In(DirsOf(t.op)[t.k], r)}
           u == [t EXCEPT !.pc = "read", !.todo = S]
<1>1. Fit(t) /\ t.pc = "names" /\ Become(c, u)
  BY TaskFit DEF Names, At
<1>2. S \subseteq Record
  OBVIOUS
<1> HIDE DEF S
<1>3. Fit(u)
  BY <1>1, <1>2 DEF Fit, Shaped, Placed, Field
<1> QED BY <1>1, <1>3, BaseMove DEF Names, history

LEMMA ReadRecordBase ==
  ASSUME Base, NEW c \in Terminal, NEW r \in Record, ReadRecord(c, r)
  PROVE  Base'
<1> DEFINE t == task[c]
           d == DirsOf(t.op)[t.k]
           copy == store[d][r]
           row == [k |-> t.k, id |-> r, copy |-> copy]
           take == IF copy # None /\ Wanted(t, copy) THEN {row} ELSE {}
           u == [t EXCEPT !.todo = @ \ {r}, !.rows = @ \union take]
<1>1. Fit(t) /\ t.pc = "read" /\ Become(c, u)
  BY TaskFit DEF ReadRecord, At
<1>2. d \in Dir /\ t.k \in Nat
  BY <1>1, DirOfStep DEF Fit, Shaped, Placed
<1>3. copy # None => copy \in Copy /\ Rooted(copy, r)
  BY <1>2, CopyIn
<1>4. row.copy = copy /\ row.id = r /\ (copy # None => row \in Row)
  BY <1>2, <1>3 DEF Row
<1> HIDE DEF d, copy, row
<1>5. take \subseteq Row /\ \A x \in take : Rooted(x.copy, x.id)
  BY <1>3, <1>4
<1> HIDE DEF take
<1>6. Fit(u)
  BY <1>1, <1>5 DEF Fit, Shaped, Placed, Field
<1> QED BY <1>1, <1>6, BaseMove DEF ReadRecord, history

LEMMA ListingEndsBase ==
  ASSUME Base, NEW c \in Terminal, ListingEnds(c)
  PROVE  Base'
<1> DEFINE t == task[c]
           u == [t EXCEPT !.pc = "names", !.k = @ + 1]
           v == [t EXCEPT !.pc = AfterListing(t), !.todo = Ids(RowsOf(t, 1))]
<1>1. Fit(t) /\ t.pc = "read" /\ t.op \in Scans /\ t.k \in 1..Len(DirsOf(t.op))
  BY TaskFit DEF ListingEnds, At, Fit, Shaped, Placed
<1>2. Len(DirsOf(t.op)) \in Nat
  BY <1>1, DirOfStep
<1>3. CASE t.k < Len(DirsOf(t.op))
  <2>1. Become(c, u)
    BY <1>3 DEF ListingEnds
  <2>2. PICK n : n = t.k + 1
    OBVIOUS
  <2>3. n \in 1..Len(DirsOf(t.op)) /\ u = [t EXCEPT !.pc = "names", !.k = n]
    BY <1>1, <1>2, <1>3, <2>2
  <2>4. Fit(u)
    BY <1>1, <2>3 DEF Fit, Shaped, Placed, Field
  <2> QED BY <2>1, <2>4, BaseMove DEF ListingEnds, history
<1>4. CASE ~(t.k < Len(DirsOf(t.op)))
  <2>1. Become(c, v)
    BY <1>4 DEF ListingEnds
  <2>2. Ids(RowsOf(t, 1)) \subseteq Record
    BY <1>1 DEF Fit, Shaped, Ids, RowsOf, Row
  <2>3. AfterListing(t) \in {"print", "tell", "markers", "mark", "watch", "follow", "resolve"}
        /\ (AfterListing(t) \in {"print", "markers"} => t.op \in Listing)
        /\ (AfterListing(t) = "tell" => t.op \in {"thread", "threads", "history"})
        /\ (AfterListing(t) = "mark" => t.op \in {"show", "json"})
        /\ (AfterListing(t) = "watch" => t.op = "watch")
        /\ (AfterListing(t) = "follow" => t.op = "follow")
        /\ (AfterListing(t) = "resolve" => t.op = "number")
    BY <1>1 DEF AfterListing, Scans, Listing
  <2>4. Shaped(v)
    BY <1>1, <2>2, <2>3, MovesFit DEF Fit
  <2>5. v.pc = AfterListing(t) /\ v.op = t.op
    BY <1>1 DEF Fit, Shaped, Field
  <2> HIDE DEF v
  <2>6. Placed(v)
    BY <2>3, <2>5 DEF Placed
  <2> QED BY <2>1, <2>4, <2>6, BaseMove DEF ListingEnds, history, Fit
<1> QED BY <1>3, <1>4

LEMMA LookUpBase ==
  ASSUME Base, NEW c \in Terminal, LookUp(c)
  PROVE  Base'
<1> DEFINE t == task[c]
<1>1. Fit(t) /\ t.pc = "get" /\ t.op = "reply" /\ t.k \in 1..3 /\ Len(LookupDirs) = 3
  BY TaskFit DEF LookUp, At, Fit, Shaped, Placed, LookupDirs
<1>2. \/ Become(c, [t EXCEPT !.pc = "end", !.read = t.arg])
      \/ t.k < 3 /\ Become(c, [t EXCEPT !.k = @ + 1])
      \/ Become(c, [t EXCEPT !.pc = "end"])
  BY <1>1 DEF LookUp, Goto
<1>3. Fit([t EXCEPT !.pc = "end", !.read = t.arg]) /\ Fit([t EXCEPT !.pc = "end"])
  BY <1>1 DEF Fit, Shaped, Placed, Field
<1>4. t.k < 3 => Fit([t EXCEPT !.k = @ + 1])
  BY <1>1 DEF Fit, Shaped, Placed, Field
<1> QED BY <1>2, <1>3, <1>4, BaseMove DEF LookUp, history

(* A command goes on from one of its steps to another. *)
LEMMA StepFit ==
  ASSUME Base, NEW c \in Terminal, NEW t, t = task[c], NEW pc,
         pc \notin {"names", "read", "get", "put", "idle"},
         Placed([t EXCEPT !.pc = pc]),
         NEW todo, todo \subseteq Record, NEW x
  PROVE  /\ Fit([t EXCEPT !.pc = pc])
         /\ Fit([t EXCEPT !.pc = pc, !.todo = todo])
         /\ Fit([t EXCEPT !.pc = pc, !.read = x])
         /\ Fit([t EXCEPT !.pc = pc, !.prev = x])
         /\ Fit([t EXCEPT !.pc = pc, !.read = x, !.todo = todo])
         /\ Fit([t EXCEPT !.pc = pc, !.rows = {}, !.read = x])
<1>1. Shaped(t) /\ t = [f \in Field |-> t[f]]
  BY TaskFit DEF Fit, Shaped
<1>2. /\ [t EXCEPT !.pc = pc].pc = pc /\ [t EXCEPT !.pc = pc].op = t.op
      /\ [t EXCEPT !.pc = pc, !.todo = todo].pc = pc /\ [t EXCEPT !.pc = pc, !.todo = todo].op = t.op
      /\ [t EXCEPT !.pc = pc, !.read = x].pc = pc /\ [t EXCEPT !.pc = pc, !.read = x].op = t.op
      /\ [t EXCEPT !.pc = pc, !.prev = x].pc = pc /\ [t EXCEPT !.pc = pc, !.prev = x].op = t.op
      /\ [t EXCEPT !.pc = pc, !.read = x, !.todo = todo].pc = pc
      /\ [t EXCEPT !.pc = pc, !.read = x, !.todo = todo].op = t.op
      /\ [t EXCEPT !.pc = pc, !.rows = {}, !.read = x].pc = pc
      /\ [t EXCEPT !.pc = pc, !.rows = {}, !.read = x].op = t.op
  BY <1>1 DEF Field
<1>3. \A u : u.pc = pc /\ u.op = t.op => Placed(u)
  BY <1>2 DEF Placed
<1>4. /\ Placed([t EXCEPT !.pc = pc]) /\ Placed([t EXCEPT !.pc = pc, !.todo = todo])
      /\ Placed([t EXCEPT !.pc = pc, !.read = x]) /\ Placed([t EXCEPT !.pc = pc, !.prev = x])
      /\ Placed([t EXCEPT !.pc = pc, !.read = x, !.todo = todo])
      /\ Placed([t EXCEPT !.pc = pc, !.rows = {}, !.read = x])
  BY <1>2, <1>3
<1> QED BY <1>1, <1>4, MovesFit DEF Fit

LEMMA RowsAreRecords ==
  ASSUME Base, NEW c \in Terminal
  PROVE  /\ Ids(task[c].rows) \subseteq Record
         /\ \A k : Ids(RowsOf(task[c], k)) \subseteq Record
  BY TaskFit DEF Fit, Shaped, Ids, RowsOf, Row

LEMMA PrintRowsBase ==
  ASSUME Base, NEW c \in Terminal, PrintRows(c)
  PROVE  Base'
<1> DEFINE t == task[c]
           ids == Ids(RowsOf(t, 2))
           N == {p \in Numbers(t) : p[1] > 0}
<1>1. t.op \in Listing /\ t = [f \in Field |-> t[f]] /\ t.pc = "print"
  BY TaskFit DEF PrintRows, At, Fit, Shaped, Placed
<1>2. ids \subseteq Nat /\ Ids(RowsOf(t, 1)) \subseteq Record /\ Record \subseteq Nat
  BY RowsAreRecords, ViewsAssumption
<1>3. \A r \in Record : Number(t, r) \in Nat
  BY <1>2, PositionIsNat DEF Number
<1>4. N \subseteq Nat \X Record
  <2>1. \A p \in Numbers(t) : \E r \in Record : p = <<Number(t, r), r>>
    BY <1>2 DEF Numbers
  <2> QED BY <1>3, <2>1
<1> HIDE DEF N
<1>5. Placed([t EXCEPT !.pc = "mark"])
  BY <1>1 DEF Placed, Field
<1>6. Fit([t EXCEPT !.pc = "mark", !.todo = ToMark(t)])
  BY <1>2, <1>5, StepFit DEF ToMark
<1>7. TasksOK'
  BY <1>6, FitBecome DEF PrintRows, Base
<1>8. StoreOK'
  BY DEF PrintRows, Base, StoreOK, spool, In, Place, Rooted
<1>9. HistoryOK'
  <2>1. numbered' = [numbered EXCEPT ![c] = N]
    BY DEF PrintRows, N
  <2> QED BY <1>4, <2>1 DEF PrintRows, Base, HistoryOK
<1> QED BY <1>7, <1>8, <1>9 DEF Base

LEMMA LoadMarkersBase ==
  ASSUME Base, NEW c \in Terminal, LoadMarkers(c)
  PROVE  Base'
<1>1. Placed([task[c] EXCEPT !.pc = "saveMarkers"])
  BY TaskFit DEF LoadMarkers, At, Fit, Shaped, Placed, Field
<1>2. Fit([task[c] EXCEPT !.pc = "saveMarkers", !.read = markers])
  BY <1>1, StepFit
<1> QED BY <1>2, BaseMove DEF LoadMarkers, history

LEMMA SaveMarkersBase ==
  ASSUME Base, NEW c \in Terminal, SaveMarkers(c)
  PROVE  Base'
<1>1. Placed([task[c] EXCEPT !.pc = "print"])
  BY TaskFit DEF SaveMarkers, At, Fit, Shaped, Placed, Field
<1>2. Fit([task[c] EXCEPT !.pc = "print", !.read = None])
  BY <1>1, StepFit
<1>3. Become(c, [task[c] EXCEPT !.pc = "print", !.read = None])
  BY DEF SaveMarkers
<1> QED BY <1>2, <1>3, BaseMove DEF SaveMarkers, history

LEMMA MarkReadBase ==
  ASSUME Base, NEW c \in Terminal, MarkRead(c)
  PROVE  Base'
<1> DEFINE t == task[c]
           r == Min(t.todo)
<1>1. Fit(t) /\ t.pc = "mark" /\ t.todo # {} /\ t.todo \subseteq Record
      /\ t = [f \in Field |-> t[f]]
  BY TaskFit DEF MarkRead, At, Fit, Shaped
<1>2. r \in t.todo
  BY <1>1, ViewsAssumption, MinIsIn
<1> HIDE DEF r
<1>3. UNCHANGED <<spool, numbered, changed, line>>
  BY DEF MarkRead
<1>4. CASE Become(c, [t EXCEPT !.todo = @ \ {r}])
  <2>1. Fit([t EXCEPT !.todo = @ \ {r}])
    BY <1>1 DEF Fit, Shaped, Placed, Field
  <2> QED BY <1>3, <1>4, <2>1, BaseMove
<1>5. CASE In("inbox", r) /\ Become(c, [t EXCEPT !.pc = "put", !.read = store["inbox"][r]])
  <2>1. Rooted(store["inbox"][r], r)
    BY <1>1, <1>2, <1>5 DEF Base, StoreOK, Dir
  <2>2. Fit([t EXCEPT !.pc = "put", !.read = store["inbox"][r]])
    <3> DEFINE u == [t EXCEPT !.pc = "put", !.read = store["inbox"][r]]
    <3>1. /\ u = [f \in Field |-> u[f]] /\ u.pc = "put" /\ u.read = store["inbox"][r]
          /\ u.todo = t.todo /\ u.rows = t.rows /\ u.held = t.held /\ u.op = t.op
      BY <1>1 DEF Field
    <3> HIDE DEF u
    <3>2. Shaped(u)
      BY <1>1, <2>1, <3>1 DEF Fit, Shaped, r
    <3>3. Placed(u)
      BY <1>1, <3>1 DEF Fit, Placed
    <3> QED BY <3>2, <3>3 DEF Fit, u
  <2> QED BY <1>3, <1>5, <2>2, BaseMove
<1>6. CASE Become(c, Idle)
  BY <1>3, <1>6, BaseIdle
<1> QED BY <1>4, <1>5, <1>6 DEF MarkRead, r

LEMMA ChangedOK ==
  ASSUME HistoryOK, NEW r \in Record, InboxChanged(r) \/ UNCHANGED changed, UNCHANGED <<numbered, line>>
  PROVE  HistoryOK'
  BY DEF HistoryOK, InboxChanged

LEMMA MarkWriteBase ==
  ASSUME Base, NEW c \in Terminal, MarkWrite(c)
  PROVE  Base'
<1> DEFINE t == task[c]
           r == Min(t.todo)
           copy == [t.read EXCEPT !.seen = TRUE]
           u == [t EXCEPT !.pc = "mark", !.read = None, !.todo = @ \ {r}]
<1>1. /\ Fit(t) /\ t.pc = "put" /\ t.todo # {} /\ t.todo \subseteq Record
      /\ t = [f \in Field |-> t[f]] /\ Rooted(t.read, r)
  BY TaskFit DEF MarkWrite, At, Fit, Shaped
<1>2. r \in t.todo
  BY <1>1, ViewsAssumption, MinIsIn
<1>3. store' = [store EXCEPT !["inbox"][r] = copy] /\ leaving' = leaving
  BY DEF MarkWrite, Put
<1>4. Become(c, u)
  BY DEF MarkWrite
<1> HIDE DEF r
<1>5. Rooted(copy, r) /\ copy # None
  BY <1>1, CopyExists DEF Rooted, Copy
<1>6. Placed([t EXCEPT !.pc = "mark"]) /\ t.todo \ {r} \subseteq Record
  BY <1>1 DEF Fit, Placed, Field
<1>7. Fit([t EXCEPT !.pc = "mark", !.read = None, !.todo = t.todo \ {r}])
  BY <1>6, StepFit
<1>8. TasksOK'
  BY <1>4, <1>7, FitBecome DEF Base
<1> HIDE DEF copy, u
<1>9. StoreOK'
  BY <1>1, <1>2, <1>3, <1>5 DEF Base, StoreOK, In, Place, Dir, Rooted
<1>10. HistoryOK'
  <2>1. (InboxChanged(r) \/ UNCHANGED changed) /\ UNCHANGED <<numbered, line>>
    BY DEF MarkWrite, r
  <2> QED BY <1>1, <1>2, <2>1, ChangedOK DEF Base
<1> QED BY <1>8, <1>9, <1>10 DEF Base

LEMMA PollsBase ==
  ASSUME Base, NEW c \in Terminal, Watch(c) \/ FollowOn(c) \/ ReaderGone(c)
  PROVE  Base'
<1> DEFINE t == task[c]
<1>1. Fit(t) /\ t.pc \in {"watch", "follow", "sleep"} /\ (t.pc = "watch" => t.op = "watch")
      /\ t.op \in {"watch", "follow"} /\ t = [f \in Field |-> t[f]]
  BY TaskFit DEF Watch, FollowOn, ReaderGone, At, Fit, Shaped, Placed
<1>2. Fit(Looking(t))
  BY <1>1, LookingFit DEF Fit, Scans
<1>3. t.pc = "watch" => Fit([t EXCEPT !.pc = "timeout"])
  BY <1>1 DEF Fit, Shaped, Placed, Field
<1>4. UNCHANGED <<spool, numbered, changed, line>>
  BY DEF Watch, FollowOn, ReaderGone, history
<1>5. Become(c, Idle) \/ Become(c, Looking(t))
      \/ (t.pc = "watch" /\ Become(c, [t EXCEPT !.pc = "timeout"]))
  BY <1>1 DEF Watch, FollowOn, ReaderGone, Goto, At
<1> QED BY <1>2, <1>3, <1>4, <1>5, BaseMove, BaseIdle

LEMMA FollowBase ==
  ASSUME Base, NEW c \in Terminal, Follow(c)
  PROVE  Base'
<1> DEFINE t == task[c]
           x == NextPrev(t, Sentence(Ids(t.rows)))
<1>1. Placed([t EXCEPT !.pc = "sleep"])
  BY TaskFit DEF Follow, At, Fit, Shaped, Placed, Field
<1>2. Become(c, [t EXCEPT !.pc = "sleep", !.prev = x])
  BY DEF Follow
<1> HIDE DEF x
<1>3. Fit([t EXCEPT !.pc = "sleep", !.prev = x])
  BY <1>1, StepFit
<1>4. TasksOK'
  BY <1>2, <1>3, FitBecome DEF Base
<1>5. StoreOK'
  BY DEF Follow, Base, StoreOK, spool, In, Place, Rooted
<1>6. HistoryOK'
  BY DEF Follow, Base, HistoryOK
<1> QED BY <1>4, <1>5, <1>6 DEF Base

LEMMA TellsBase ==
  ASSUME Base, NEW c \in Terminal, Resolve(c) \/ Tell(c)
  PROVE  Base'
<1> DEFINE t == task[c]
<1>1. PICK x : \/ Become(c, [t EXCEPT !.pc = "end", !.read = x])
               \/ Become(c, [t EXCEPT !.pc = "end", !.rows = {}, !.read = x])
  BY DEF Resolve, Tell
<1>2. Placed([t EXCEPT !.pc = "end"])
  BY TaskFit DEF Resolve, Tell, At, Fit, Shaped, Placed, Field
<1>3. /\ Fit([t EXCEPT !.pc = "end", !.read = x])
      /\ Fit([t EXCEPT !.pc = "end", !.rows = {}, !.read = x])
  BY <1>2, StepFit
<1> QED BY <1>1, <1>3, BaseMove DEF Resolve, Tell, history

LEMMA EndsBase ==
  ASSUME Base, NEW c \in Terminal, MarkEnds(c) \/ End(c) \/ Interrupt(c)
  PROVE  Base'
<1>1. Become(c, Idle) /\ UNCHANGED <<spool, numbered, changed, line>>
  BY DEF MarkEnds, End, Interrupt, history
<1> QED BY <1>1, BaseIdle

LEMMA MarkersBase ==
  ASSUME Base, UNCHANGED <<spool, task, numbered, changed, line>>
  PROVE  Base'
<1>1. StoreOK'
  BY DEF Base, StoreOK, spool, In, Place, Rooted
<1>2. TasksOK' /\ HistoryOK'
  BY DEF Base, TasksOK, HistoryOK, Fit, Shaped, Placed
<1> QED BY <1>1, <1>2 DEF Base

LEMMA CommandBase ==
  ASSUME Base, NEW c \in Terminal, Command(c)
  PROVE  Base'
<1>1. CASE RemoveMarker(c)
  BY <1>1, MarkersBase DEF RemoveMarker, history
<1> QED BY <1>1, BeginBase, NamesBase, ReadRecordBase, ListingEndsBase, PrintRowsBase,
          LoadMarkersBase, SaveMarkersBase, MarkReadBase, MarkWriteBase, PollsBase, FollowBase,
          LookUpBase, TellsBase, EndsBase DEF Command

(* A record moves. *)
LEMMA RecordsBase ==
  ASSUME Base, NEW r \in Record, Records(r)
  PROVE  Base'
<1>1. UNCHANGED task /\ (InboxChanged(r) \/ UNCHANGED changed) /\ UNCHANGED <<numbered, line>>
  BY DEF Records, Arrive, FinishWrite, FinishUnlink, FinishDies, Leave, NoteState, Others
<1>2. HistoryOK'
  BY <1>1, ChangedOK DEF Base
<1>3. TasksOK'
  BY <1>1 DEF Base, TasksOK, Fit, Shaped, Placed
<1>4. StoreOK'
  <2>1. CASE Arrive(r)
    <3> DEFINE copy == [seen |-> FALSE, log |-> <<Birth(r)>>]
    <3>1. copy.log \in Seq(Event) /\ copy.log # <<>> /\ Head(copy.log) = Birth(r)
      BY BirthEvent
    <3>2. copy \in Copy
      BY <3>1 DEF Copy
    <3>3. Rooted(copy, r) /\ copy # None
      BY <3>1, <3>2, CopyExists DEF Rooted
    <3>4. Born[r] \in Dir \ {"done"}
      BY ViewsAssumption DEF Dir
    <3>5. store' = [store EXCEPT ![Born[r]][r] = copy] /\ leaving' = leaving
      BY <2>1 DEF Arrive, Put
    <3> HIDE DEF copy
    <3> QED BY <3>2, <3>3, <3>4, <3>5 DEF Base, StoreOK, In, Place, Rooted
  <2>2. CASE FinishWrite(r)
    <3> DEFINE copy == Pushed(store["inbox"][r], "sent")
    <3>1. Rooted(store["inbox"][r], r)
      BY <2>2 DEF FinishWrite, Base, StoreOK, Dir
    <3>2. Rooted(copy, r)
      BY <3>1, PushedRooted DEF Event
    <3>3. copy \in Copy /\ copy # None
      BY <3>2, CopyExists DEF Rooted
    <3>4. store' = [store EXCEPT !["done"][r] = copy] /\ leaving' = leaving \union {r}
      BY <2>2 DEF FinishWrite, Put
    <3> HIDE DEF copy
    <3> QED BY <3>2, <3>3, <3>4 DEF Base, StoreOK, In, Place, Dir, Rooted
  <2>3. CASE FinishUnlink(r)
    <3>1. store' = [store EXCEPT !["inbox"][r] = None] /\ leaving' = leaving \ {r}
      BY <2>3 DEF FinishUnlink, Put
    <3> QED BY <3>1 DEF Base, StoreOK, In, Place, Dir, Rooted
  <2>4. CASE FinishDies(r)
    BY <2>4 DEF FinishDies, Base, StoreOK, In, Place, Rooted
  <2>5. CASE Leave(r)
    <3>1. PICK d \in {"outbox", "asks"} :
            In(d, r) /\ Move(r, d, "done", IF d = "asks" THEN Pushed(store[d][r], "closed")
                                           ELSE store[d][r])
      BY <2>5 DEF Leave
    <3> DEFINE copy == IF d = "asks" THEN Pushed(store[d][r], "closed") ELSE store[d][r]
    <3>2. Rooted(store[d][r], r)
      BY <3>1 DEF Base, StoreOK, Dir
    <3>3. Rooted(copy, r)
      BY <3>2, PushedRooted DEF Event
    <3>4. copy \in Copy /\ copy # None
      BY <3>3, CopyExists DEF Rooted
    <3>5. store' = [store EXCEPT ![d][r] = None, !["done"][r] = copy] /\ leaving' = leaving
      BY <2>5, <3>1 DEF Leave, Move
    <3> HIDE DEF copy
    <3> QED BY <3>3, <3>4, <3>5 DEF Base, StoreOK, In, Place, Dir, Rooted
  <2>6. CASE \E s \in TaskStates : NoteState(r, s)
    <3>1. PICK s \in TaskStates : NoteState(r, s)
      BY <2>6
    <3> DEFINE copy == Pushed(store["asks"][r], s)
    <3>2. Rooted(store["asks"][r], r)
      BY <3>1 DEF NoteState, Base, StoreOK, Dir
    <3>3. Rooted(copy, r)
      BY <3>2, PushedRooted DEF Event
    <3>4. copy \in Copy /\ copy # None
      BY <3>3, CopyExists DEF Rooted
    <3>5. store' = [store EXCEPT !["asks"][r] = copy] /\ leaving' = leaving
      BY <3>1 DEF NoteState, Put
    <3> HIDE DEF copy
    <3> QED BY <3>3, <3>4, <3>5 DEF Base, StoreOK, In, Place, Dir, Rooted
  <2> QED BY <2>1, <2>2, <2>3, <2>4, <2>5, <2>6 DEF Records
<1> QED BY <1>2, <1>3, <1>4 DEF Base

LEMMA NextBase == Base /\ [Next]_vars => Base'
<1> SUFFICES ASSUME Base, [Next]_vars PROVE Base'
  OBVIOUS
<1>1. CASE SweepMarkers \/ UNCHANGED vars
  BY <1>1, MarkersBase DEF SweepMarkers, vars, files, history
<1> QED BY <1>1, RecordsBase, CommandBase DEF Next

LEMMA InitBase == Init => Base
<1> SUFFICES ASSUME Init PROVE Base
  OBVIOUS
<1>1. StoreOK
  BY DEF Init, StoreOK, In, Place
<1>2. TasksOK
  BY IdleFit DEF Init, TasksOK
<1>3. HistoryOK
  BY DEF Init, HistoryOK
<1> QED BY <1>1, <1>2, <1>3 DEF Base

\* Every copy of a record, in the spool or in a command's hands, has the log it
\* began with, however often the cap cut it, and every command is at a step of
\* its own: the types of the reading commands (events.rs push, inbox.rs run).
THEOREM AlwaysBase == Spec => []Base
  BY InitBase, NextBase, PTL DEF Spec

-----------------------------------------------------------------------------
(* What may happen to the records while a command is under way.              *)

\* A record only moves towards done/, and what was seen is never unseen again.
Drifts ==
  \A r \in Record :
    /\ In("done", r) => In("done", r)'
    /\ \A d \in {"inbox", "outbox", "asks"} : In(d, r) => In(d, r)' \/ In("done", r)'
    /\ r \in Held /\ Unseen(r)' => Unseen(r)

\* Whoever may number records is told what came to or left inbox/.
Informs ==
  \A c \in Terminal :
    /\ task[c].pc # "idle" \/ numbered'[c] # {} => changed[c] \subseteq changed'[c]
    /\ task[c].op \in Listing \/ numbered[c] # {} =>
         \A x \in Record : x \in changed'[c] \/ (In("inbox", x) <=> In("inbox", x)')

LEMMA SpoolStays == UNCHANGED store => Drifts
  BY DEF Drifts, In, Unseen

LEMMA InformedOf ==
  ASSUME Base, NEW r \in Record, UNCHANGED numbered,
         InboxChanged(r) \/ (UNCHANGED changed /\ (In("inbox", r) <=> In("inbox", r)')),
         \A x \in Record : x # r => (In("inbox", x) <=> In("inbox", x)')
  PROVE  Informs
  BY DEF Informs, InboxChanged, Base, HistoryOK

LEMMA RecordsFlow ==
  ASSUME Base, NEW r \in Record, Records(r)
  PROVE  Drifts /\ Informs
<1>1. CASE Arrive(r)
  <2> DEFINE copy == [seen |-> FALSE, log |-> <<Birth(r)>>]
  <2>1. <<Birth(r)>> \in Seq(Event)
    BY BirthEvent
  <2>2. copy \in Copy /\ copy # None
    BY <2>1, CopyExists DEF Copy
  <2>3. store' = [store EXCEPT ![Born[r]][r] = copy] /\ Born[r] \in {"inbox", "outbox", "asks"}
        /\ r \notin Held
    BY <1>1, ViewsAssumption DEF Arrive, Put
  <2>4. (IF Born[r] = "inbox" THEN InboxChanged(r) ELSE UNCHANGED changed) /\ UNCHANGED numbered
    BY <1>1 DEF Arrive, Others
  <2> HIDE DEF copy
  <2>5. Drifts
    BY <2>2, <2>3 DEF Drifts, In, Unseen, Held, Base, StoreOK, Dir
  <2>6. \A x \in Record : x # r => (In("inbox", x) <=> In("inbox", x)')
    BY <2>3 DEF In, Base, StoreOK, Dir
  <2>7. Born[r] # "inbox" => (In("inbox", r) <=> In("inbox", r)')
    BY <2>3 DEF In, Base, StoreOK, Dir
  <2>8. Informs
    BY <2>4, <2>6, <2>7, InformedOf
  <2> QED BY <2>5, <2>8
<1>2. CASE FinishWrite(r)
  <2> DEFINE copy == Pushed(store["inbox"][r], "sent")
  <2>1. Rooted(copy, r)
    BY <1>2, PushedRooted DEF FinishWrite, Base, StoreOK, Dir, Event
  <2>2. copy # None
    BY <2>1, CopyExists DEF Rooted
  <2>3. store' = [store EXCEPT !["done"][r] = copy]
    BY <1>2 DEF FinishWrite, Put
  <2> HIDE DEF copy
  <2>4. Drifts
    BY <2>2, <2>3 DEF Drifts, In, Unseen, Base, StoreOK, Dir
  <2>5. \A x \in Record : In("inbox", x) <=> In("inbox", x)'
    BY <2>3 DEF In, Base, StoreOK, Dir
  <2>6. Informs
    BY <1>2, <2>5, InformedOf DEF FinishWrite, Others
  <2> QED BY <2>4, <2>6
<1>3. CASE FinishUnlink(r)
  <2>1. store' = [store EXCEPT !["inbox"][r] = None] /\ In("done", r)
    BY <1>3 DEF FinishUnlink, Put, Base, StoreOK, Place
  <2>2. Drifts
    BY <2>1 DEF Drifts, In, Unseen, Base, StoreOK, Dir
  <2>3. \A x \in Record : x # r => (In("inbox", x) <=> In("inbox", x)')
    BY <2>1 DEF In, Base, StoreOK, Dir
  <2>4. Informs
    BY <1>3, <2>3, InformedOf DEF FinishUnlink, Others
  <2> QED BY <2>2, <2>4
<1>4. CASE FinishDies(r)
  <2>1. Informs
    BY <1>4, InformedOf DEF FinishDies, Others, In
  <2> QED BY <1>4, <2>1, SpoolStays DEF FinishDies
<1>5. CASE Leave(r)
  <2>1. PICK d \in {"outbox", "asks"} :
          In(d, r) /\ Move(r, d, "done", IF d = "asks" THEN Pushed(store[d][r], "closed")
                                         ELSE store[d][r])
    BY <1>5 DEF Leave
  <2> DEFINE copy == IF d = "asks" THEN Pushed(store[d][r], "closed") ELSE store[d][r]
  <2>2. Rooted(copy, r)
    BY <2>1, PushedRooted DEF Base, StoreOK, Dir, Event
  <2>3. copy # None
    BY <2>2, CopyExists DEF Rooted
  <2>4. store' = [store EXCEPT ![d][r] = None, !["done"][r] = copy]
    BY <2>1 DEF Move
  <2> HIDE DEF copy
  <2>5. Drifts
    BY <2>3, <2>4 DEF Drifts, In, Unseen, Base, StoreOK, Dir
  <2>6. \A x \in Record : In("inbox", x) <=> In("inbox", x)'
    BY <2>4 DEF In, Base, StoreOK, Dir
  <2>7. Informs
    BY <1>5, <2>6, InformedOf DEF Leave, Others
  <2> QED BY <2>5, <2>7
<1>6. CASE \E s \in TaskStates : NoteState(r, s)
  <2>1. PICK s \in TaskStates : NoteState(r, s)
    BY <1>6
  <2> DEFINE copy == Pushed(store["asks"][r], s)
  <2>2. Rooted(copy, r)
    BY <2>1, PushedRooted DEF NoteState, Base, StoreOK, Dir, Event
  <2>3. copy # None
    BY <2>2, CopyExists DEF Rooted
  <2>4. store' = [store EXCEPT !["asks"][r] = copy]
    BY <2>1 DEF NoteState, Put
  <2> HIDE DEF copy
  <2>5. Drifts
    BY <2>3, <2>4 DEF Drifts, In, Unseen, Base, StoreOK, Dir
  <2>6. \A x \in Record : In("inbox", x) <=> In("inbox", x)'
    BY <2>4 DEF In, Base, StoreOK, Dir
  <2>7. Informs
    BY <2>1, <2>6, InformedOf DEF NoteState, Others
  <2> QED BY <2>5, <2>7
<1> QED BY <1>1, <1>2, <1>3, <1>4, <1>5, <1>6 DEF Records

(* A mark writes back what it read, seen: it may put back a record that has   *)
(* left inbox/ meanwhile, and says so to whoever numbers.                      *)
LEMMA MarkWriteFlows ==
  ASSUME Base, NEW c \in Terminal, MarkWrite(c)
  PROVE  Drifts /\ Informs
<1>1. /\ task[c].todo # {} /\ task[c].todo \subseteq Record
      /\ Rooted(task[c].read, Min(task[c].todo))
  BY TaskFit DEF MarkWrite, At, Fit, Shaped
<1>2. PICK r \in Record : r = Min(task[c].todo)
  BY <1>1, ViewsAssumption, MinIsIn
<1>3. PICK copy : copy = [task[c].read EXCEPT !.seen = TRUE]
  OBVIOUS
<1>4. /\ store' = [store EXCEPT !["inbox"][r] = copy] /\ UNCHANGED numbered
      /\ (IF In("inbox", r) THEN UNCHANGED changed ELSE InboxChanged(r))
  BY <1>2, <1>3 DEF MarkWrite, Put
<1>5. copy \in Copy /\ copy.seen /\ copy # None
  BY <1>1, <1>3, CopyExists DEF Rooted, Copy
<1>6. Drifts
  BY <1>4, <1>5 DEF Drifts, In, Unseen, Base, StoreOK, Dir
<1>7. /\ \A x \in Record : x # r => (In("inbox", x) <=> In("inbox", x)')
      /\ In("inbox", r) => In("inbox", r)'
  BY <1>4, <1>5 DEF In, Base, StoreOK, Dir
<1>8. Informs
  BY <1>4, <1>7, InformedOf
<1> QED BY <1>6, <1>8

\* Any other step leaves the spool alone, and only the beginning of a command
\* that is no #N forgets what changed.
LEMMA NextFlows ==
  ASSUME Base, [Next]_vars
  PROVE  Drifts /\ Informs
<1>1. CASE \E c \in Terminal : MarkWrite(c)
  BY <1>1, MarkWriteFlows
<1>2. CASE \E r \in Record : Records(r)
  BY <1>2, RecordsFlow
<1>3. CASE \E c \in Terminal : \E op \in Ops : Begin(c, op)
  <2>1. PICK c \in Terminal, op \in Ops : Begin(c, op)
    BY <1>3
  <2>2. UNCHANGED store /\ At(c, "idle")
    BY <2>1 DEF Begin, spool
  <2>3. Informs
    <3>1. \/ UNCHANGED <<numbered, changed>>
          \/ numbered' = [numbered EXCEPT ![c] = {}] /\ changed' = [changed EXCEPT ![c] = {}]
      BY <2>1 DEF Begin
    <3> QED BY <2>2, <3>1 DEF Informs, In, At, Base, HistoryOK
  <2> QED BY <2>2, <2>3, SpoolStays
<1>4. CASE UNCHANGED <<store, changed>>
  BY <1>4, SpoolStays DEF Informs, In
<1>5. ASSUME NEW c \in Terminal, Command(c)
      PROVE  \/ MarkWrite(c) \/ UNCHANGED <<store, changed>>
             \/ \E op \in Ops : Begin(c, op)
  BY <1>5 DEF Command, Names, ReadRecord, ListingEnds, PrintRows, LoadMarkers, SaveMarkers, MarkRead,
              MarkEnds, Watch, Follow, FollowOn, ReaderGone, RemoveMarker, LookUp, Resolve, Tell,
              End, Interrupt, spool, history
<1>6. CASE SweepMarkers \/ UNCHANGED vars
  BY <1>4, <1>6 DEF SweepMarkers, vars, spool, history
<1> QED BY <1>1, <1>2, <1>3, <1>4, <1>5, <1>6 DEF Next

\* A terminal where nothing is done has its command, its numbers and its line.
Quiet(c) == task'[c] = task[c] /\ numbered'[c] = numbered[c] /\ line'[c] = line[c]

LEMMA Alone ==
  ASSUME Base, [Next]_vars, NEW c \in Terminal
  PROVE  Command(c) \/ Quiet(c)
<1>1. ASSUME NEW d \in Terminal, d # c, Command(d) PROVE Quiet(c)
  <2>1. UNCHANGED task \/ \E t : Become(d, t)
    BY <1>1 DEF Command, Begin, Names, ReadRecord, ListingEnds, PrintRows, LoadMarkers, SaveMarkers,
                MarkRead, MarkWrite, MarkEnds, Watch, Follow, FollowOn, ReaderGone, RemoveMarker,
                LookUp, Resolve, Tell, End, Interrupt, Goto
  <2>2. task'[c] = task[c]
    BY <1>1, <2>1 DEF Become, Base, TasksOK
  <2>3. /\ UNCHANGED numbered \/ \E s : numbered' = [numbered EXCEPT ![d] = s]
        /\ UNCHANGED line \/ \E s : line' = [line EXCEPT ![d] = s]
    <3>1. CASE \E op \in Ops : Begin(d, op)
      BY <3>1 DEF Begin
    <3>2. CASE PrintRows(d)
      BY <3>2 DEF PrintRows
    <3>3. CASE Follow(d)
      BY <3>3 DEF Follow
    <3> QED BY <1>1, <3>1, <3>2, <3>3 DEF Command, Names, ReadRecord, ListingEnds, LoadMarkers,
               SaveMarkers, MarkRead, MarkWrite, MarkEnds, Watch, FollowOn, ReaderGone,
               RemoveMarker, LookUp, Resolve, Tell, End, Interrupt, history
  <2>4. numbered'[c] = numbered[c] /\ line'[c] = line[c]
    BY <1>1, <2>3 DEF Base, HistoryOK
  <2> QED BY <2>2, <2>4 DEF Quiet
<1>2. ASSUME NEW r \in Record, Records(r) PROVE Quiet(c)
  BY <1>2 DEF Records, Arrive, FinishWrite, FinishUnlink, FinishDies, Leave, NoteState, Others, Quiet
<1>3. CASE SweepMarkers \/ UNCHANGED vars
  BY <1>3 DEF SweepMarkers, vars, history, Quiet
<1> QED BY <1>1, <1>2, <1>3 DEF Next

-----------------------------------------------------------------------------
(* TimelineComplete.  The directories are listed in the direction in which     *)
(* records move, so a record that was there when the command began is in the    *)
(* rows already, or named and still there, or in a directory not yet listed.    *)

Telling == {"thread", "threads", "history"}
Told(t, r) == \E row \in t.rows : row.id = r
Ahead(t, k, r) == \E j \in k..Len(DirsOf(t.op)) : In(DirsOf(t.op)[j], r)
Tells(t, r) ==
  CASE t.op = "thread" -> PeerOf[r] = t.arg =>
         \E e \in t.read : e[1] = r /\ Head(e[2]) = Birth(r)
    [] t.op = "threads" -> \E row \in t.read : row[1] = PeerOf[r]
    [] t.op = "history" -> r \in t.read
    [] t.op = "reply" -> r = t.arg => t.read = r

Tracked(t, r) ==
  /\ t.op # "number"
  /\ t.pc = "names" /\ t.op \in Telling => Told(t, r) \/ Ahead(t, t.k, r)
  /\ t.pc = "read" /\ t.op \in Telling =>
       Told(t, r) \/ (r \in t.todo /\ In(DirsOf(t.op)[t.k], r)) \/ Ahead(t, t.k + 1, r)
  /\ t.pc = "tell" => Told(t, r)
  /\ t.pc = "get" /\ r = t.arg =>
       (t.k = 1 /\ In("asks", r)) \/ (t.k \in 1..2 /\ In("done", r))
  /\ t.pc = "end" => Tells(t, r)

TimelineInv == \A c \in Terminal : \A r \in task[c].held : Tracked(task[c], r)

LEMMA DoneIsLast ==
  ASSUME NEW op \in Telling
  PROVE  /\ Len(DirsOf(op)) \in Nat \ {0} /\ DirsOf(op)[Len(DirsOf(op))] = "done"
         /\ \A j \in 1..Len(DirsOf(op)) : DirsOf(op)[j] \in Dir
<1>1. CASE op = "history"
  BY <1>1, DirsOfFacts DEF Dir
<1>2. CASE op # "history"
  <2>1. DirsOf(op) = Dirs
    BY <1>2, DirsOfFacts DEF Telling
  <2>2. \A j \in 1..4 : j = 1 \/ j = 2 \/ j = 3 \/ j = 4
    OBVIOUS
  <2> QED BY <2>1, <2>2, DirsFacts
<1> QED BY <1>1, <1>2

LEMMA AheadStays ==
  ASSUME Drifts, NEW t, t.op \in Telling, NEW k \in Nat \ {0}, NEW r \in Record, Ahead(t, k, r)
  PROVE  Ahead(t, k, r)'
<1> DEFINE D == DirsOf(t.op)
<1>1. PICK j \in k..Len(D) : In(D[j], r)
  BY DEF Ahead
<1>2. /\ Len(D) \in Nat \ {0} /\ j \in 1..Len(D) /\ D[j] \in Dir /\ D[Len(D)] = "done"
      /\ Len(D) \in k..Len(D)
  BY <1>1, DoneIsLast
<1>3. In(D[j], r)' \/ In(D[Len(D)], r)'
  BY <1>1, <1>2 DEF Drifts, Dir
<1> QED BY <1>1, <1>2, <1>3 DEF Ahead

LEMMA TrackedStays ==
  ASSUME Drifts, NEW t, Fit(t), NEW r \in Record, Tracked(t, r)
  PROVE  Tracked(t, r)'
<1> DEFINE D == DirsOf(t.op)
<1>1. t.pc = "names" /\ t.op \in Telling => (Told(t, r) \/ Ahead(t, t.k, r))'
  <2> SUFFICES ASSUME t.pc = "names", t.op \in Telling, Ahead(t, t.k, r)
               PROVE  Ahead(t, t.k, r)'
    BY DEF Tracked, Told
  <2>1. t.k \in Nat \ {0}
    BY DoneIsLast DEF Fit, Shaped
  <2> QED BY <2>1, AheadStays
<1>2. t.pc = "read" /\ t.op \in Telling =>
        (Told(t, r) \/ (r \in t.todo /\ In(D[t.k], r)) \/ Ahead(t, t.k + 1, r))'
  <2> SUFFICES ASSUME t.pc = "read", t.op \in Telling,
                      (r \in t.todo /\ In(D[t.k], r)) \/ Ahead(t, t.k + 1, r)
               PROVE  (r \in t.todo /\ In(D[t.k], r))' \/ Ahead(t, t.k + 1, r)'
    BY DEF Tracked, Told
  <2>1. t.k \in 1..Len(D) /\ t.k + 1 \in Nat \ {0}
    BY DoneIsLast DEF Fit, Shaped
  <2>2. CASE Ahead(t, t.k + 1, r)
    BY <2>1, <2>2, AheadStays
  <2>3. CASE r \in t.todo /\ In(D[t.k], r)
    <3>1. D[t.k] \in Dir /\ D[Len(D)] = "done" /\ Len(D) \in Nat
      BY <2>1, DoneIsLast
    <3>2. In(D[t.k], r)' \/ (D[t.k] # "done" /\ In("done", r)')
      BY <2>3, <3>1 DEF Drifts, Dir
    <3>3. D[t.k] # "done" => Len(D) \in (t.k + 1)..Len(D)
      <4>1. D[t.k] # "done" => t.k # Len(D)
        BY <3>1
      <4> QED BY <2>1, <3>1, <4>1
    <3>4. D[t.k] # "done" /\ In("done", r)' => Ahead(t, t.k + 1, r)'
      BY <3>1, <3>3 DEF Ahead
    <3> QED BY <2>3, <3>2, <3>4
  <2> QED BY <2>2, <2>3
<1>3. t.pc = "get" /\ r = t.arg => (t.k = 1 /\ In("asks", r)') \/ (t.k \in 1..2 /\ In("done", r)')
  BY DEF Tracked, Drifts
<1>4. /\ t.op # "number" /\ (t.pc = "tell" => Told(t, r)) /\ (t.pc = "end" => Tells(t, r))
  BY DEF Tracked
<1> QED BY <1>1, <1>2, <1>3, <1>4 DEF Tracked, Told, Tells

\* A command that begins, or polls again.
LEMMA LookingTracks ==
  ASSUME Base, NEW t, Shaped(t), t.op \in Scans \union {"reply"}, NEW r \in Record, r \in Looking(t).held
  PROVE  Tracked(Looking(t), r)
<1> DEFINE u == Looking(t)
<1>1. /\ u.pc = IF t.op = "reply" THEN "get" ELSE "names"
      /\ u.k = 1 /\ u.rows = {} /\ u.held = HeldFor(t.op) /\ u.op = t.op /\ u.arg = t.arg
  BY DEF Looking, Shaped, Field
<1> HIDE DEF u
<1>2. r \in HeldFor(t.op)
  BY <1>1 DEF u
<1>3. CASE t.op \in {"thread", "threads"}
  <2>1. PICK d \in Dir : In(d, r)
    BY <1>2, <1>3 DEF HeldFor, Held
  <2>2. PICK j \in 1..4 : Dirs[j] = d
    BY DirsFacts
  <2>3. Ahead(u, 1, r)
    BY <1>1, <1>3, <2>1, <2>2, DirsOfFacts, DirsFacts DEF Ahead
  <2> QED BY <1>1, <1>3, <2>3 DEF Tracked, u
<1>4. CASE t.op = "history"
  <2>1. In("done", r)
    BY <1>2, <1>4 DEF HeldFor
  <2>2. Ahead(u, 1, r)
    BY <1>1, <1>4, <2>1, DirsOfFacts DEF Ahead
  <2> QED BY <1>1, <1>4, <2>2 DEF Tracked, u
<1>5. CASE t.op = "reply"
  <2>1. In("asks", r) \/ In("done", r)
    BY <1>2, <1>5 DEF HeldFor
  <2> QED BY <1>1, <1>5, <2>1 DEF Tracked, u
<1>6. CASE t.op \in {"inbox", "new", "claude", "show", "json", "watch", "follow"}
  BY <1>1, <1>6 DEF Tracked, Telling, u
<1>7. CASE t.op = "number"
  BY <1>2, <1>7 DEF HeldFor
<1> QED BY <1>3, <1>4, <1>5, <1>6, <1>7 DEF Scans

LEMMA NamesTracks ==
  ASSUME Base, NEW c \in Terminal, Names(c), NEW r \in Record, r \in task[c].held, Tracked(task[c], r)
  PROVE  Tracked(task'[c], r)
<1> DEFINE t == task[c]
           D == DirsOf(t.op)
           S == {x \in Record : In(D[t.k], x)}
           u == [t EXCEPT !.pc = "read", !.todo = S]
<1>1. Fit(t) /\ t.pc = "names" /\ task'[c] = u
  BY TaskFit DEF Names, At, Become, Base, TasksOK
<1>2. u.pc = "read" /\ u.todo = S /\ u.op = t.op /\ u.k = t.k /\ u.rows = t.rows
  BY <1>1 DEF Fit, Shaped, Field
<1> HIDE DEF u
<1>3. t.op \in Telling => Told(u, r) \/ (r \in u.todo /\ In(D[t.k], r)) \/ Ahead(u, t.k + 1, r)
  <2> SUFFICES ASSUME t.op \in Telling, Ahead(t, t.k, r)
               PROVE  (r \in S /\ In(D[t.k], r)) \/ Ahead(u, t.k + 1, r)
    BY <1>1, <1>2 DEF Tracked, Told
  <2>1. PICK j \in t.k..Len(D) : In(D[j], r)
    BY DEF Ahead
  <2>2. t.k \in 1..Len(D) /\ Len(D) \in Nat
    BY <1>1, DoneIsLast DEF Fit, Shaped
  <2>3. CASE j = t.k
    BY <2>1, <2>3
  <2>4. CASE j # t.k
    <3>1. j \in (t.k + 1)..Len(D)
      BY <2>1, <2>2, <2>4
    <3> QED BY <1>2, <2>1, <3>1 DEF Ahead
  <2> QED BY <2>3, <2>4
<1> QED BY <1>1, <1>2, <1>3 DEF Tracked

LEMMA ReadRecordTracks ==
  ASSUME Base, NEW c \in Terminal, NEW x \in Record, ReadRecord(c, x),
         NEW r \in Record, r \in task[c].held, Tracked(task[c], r)
  PROVE  Tracked(task'[c], r)
<1> DEFINE t == task[c]
           D == DirsOf(t.op)
           copy == store[D[t.k]][x]
           row == [k |-> t.k, id |-> x, copy |-> copy]
           take == IF copy # None /\ Wanted(t, copy) THEN {row} ELSE {}
           u == [t EXCEPT !.todo = @ \ {x}, !.rows = @ \union take]
<1>1. Fit(t) /\ t.pc = "read" /\ task'[c] = u
  BY TaskFit DEF ReadRecord, At, Become, Base, TasksOK
<1>2. /\ u.pc = "read" /\ u.todo = t.todo \ {x} /\ u.op = t.op /\ u.k = t.k
      /\ u.rows = t.rows \union take
  BY <1>1 DEF Fit, Shaped, Field
<1>3. row.id = x
  OBVIOUS
<1> HIDE DEF u, row
<1>4. t.op \in Telling => Told(u, r) \/ (r \in u.todo /\ In(D[t.k], r)) \/ Ahead(u, t.k + 1, r)
  <2> SUFFICES ASSUME t.op \in Telling
               PROVE  Told(u, r) \/ (r \in u.todo /\ In(D[t.k], r)) \/ Ahead(u, t.k + 1, r)
    OBVIOUS
  <2>1. CASE Told(t, r)
    BY <1>2, <2>1 DEF Told
  <2>2. CASE Ahead(t, t.k + 1, r)
    BY <1>2, <2>2 DEF Ahead
  <2>3. CASE r \in t.todo /\ In(D[t.k], r) /\ r # x
    BY <1>2, <2>3
  <2>4. CASE In(D[t.k], r) /\ r = x
    <3>1. take = {row}
      BY <2>4 DEF In, Wanted, Telling
    <3> QED BY <1>2, <1>3, <2>4, <3>1 DEF Told
  <2> QED BY <1>1, <2>1, <2>2, <2>3, <2>4 DEF Tracked
<1> QED BY <1>1, <1>2, <1>4 DEF Tracked

LEMMA ListingEndsTracks ==
  ASSUME Base, NEW c \in Terminal, ListingEnds(c),
         NEW r \in Record, r \in task[c].held, Tracked(task[c], r)
  PROVE  Tracked(task'[c], r)
<1> DEFINE t == task[c]
           D == DirsOf(t.op)
           u == [t EXCEPT !.pc = "names", !.k = @ + 1]
           v == [t EXCEPT !.pc = AfterListing(t), !.todo = Ids(RowsOf(t, 1))]
<1>1. /\ Fit(t) /\ t.pc = "read" /\ t.todo = {} /\ t.op \in Scans /\ t.k \in 1..Len(D)
      /\ Len(D) \in Nat
  BY TaskFit, DirOfStep DEF ListingEnds, At, Fit, Shaped, Placed
<1>2. CASE t.k < Len(D)
  <2>1. task'[c] = u
    BY <1>2 DEF ListingEnds, Become, Base, TasksOK
  <2>2. u.pc = "names" /\ u.k = t.k + 1 /\ u.op = t.op /\ u.rows = t.rows
    BY <1>1 DEF Fit, Shaped, Field
  <2> HIDE DEF u
  <2>3. t.op \in Telling => Told(u, r) \/ Ahead(u, t.k + 1, r)
    BY <1>1, <2>2 DEF Tracked, Told, Ahead
  <2> QED BY <2>1, <2>2, <2>3 DEF Tracked
<1>3. CASE ~(t.k < Len(D))
  <2>1. task'[c] = v
    BY <1>3 DEF ListingEnds, Become, Base, TasksOK
  <2>2. v.pc = AfterListing(t) /\ v.op = t.op /\ v.rows = t.rows
    BY <1>1 DEF Fit, Shaped, Field
  <2> HIDE DEF v
  <2>3. /\ AfterListing(t) \notin {"names", "read", "get", "end"}
        /\ AfterListing(t) = "tell" => t.op \in Telling
    BY <1>1 DEF AfterListing, Scans, Telling
  <2>4. t.k = Len(D) /\ ~Ahead(t, t.k + 1, r)
    BY <1>1, <1>3 DEF Ahead
  <2>5. t.op \in Telling => Told(v, r)
    BY <1>1, <2>2, <2>4 DEF Tracked, Told
  <2> QED BY <2>1, <2>2, <2>3, <2>5 DEF Tracked
<1> QED BY <1>2, <1>3

LEMMA LookUpTracks ==
  ASSUME Base, NEW c \in Terminal, LookUp(c),
         NEW r \in Record, r \in task[c].held, Tracked(task[c], r)
  PROVE  Tracked(task'[c], r)
<1> DEFINE t == task[c]
<1>1. /\ Fit(t) /\ t.pc = "get" /\ t.op = "reply" /\ t.k \in 1..3 /\ t = [f \in Field |-> t[f]]
  BY TaskFit DEF LookUp, At, Fit, Shaped, Placed
<1>2. Len(LookupDirs) = 3 /\ LookupDirs[1] = "asks" /\ LookupDirs[2] = "done"
  BY DEF LookupDirs
<1>3. CASE In(LookupDirs[t.k], t.arg)
  <2>1. task'[c] = [t EXCEPT !.pc = "end", !.read = t.arg]
    BY <1>3 DEF LookUp, Become, Base, TasksOK
  <2> QED BY <1>1, <2>1 DEF Tracked, Tells, Field
<1>4. CASE ~In(LookupDirs[t.k], t.arg) /\ t.k < 3
  <2>1. PICK n : n = t.k + 1
    OBVIOUS
  <2>2. task'[c] = [t EXCEPT !.k = n]
    BY <1>2, <1>4, <2>1 DEF LookUp, Become, Base, TasksOK
  <2>3. task'[c].pc = "get" /\ task'[c].k = n /\ task'[c].op = "reply" /\ task'[c].arg = t.arg
    BY <1>1, <2>2 DEF Field
  <2>4. r = t.arg => In("done", r) /\ n \in 1..2
    BY <1>1, <1>2, <1>4, <2>1 DEF Tracked
  <2> QED BY <2>3, <2>4 DEF Tracked, Telling
<1>5. CASE ~In(LookupDirs[t.k], t.arg) /\ ~(t.k < 3)
  <2>1. task'[c] = [t EXCEPT !.pc = "end"]
    BY <1>2, <1>5 DEF LookUp, Goto, Become, Base, TasksOK
  <2>2. task'[c].pc = "end" /\ task'[c].op = "reply" /\ task'[c].arg = t.arg
    BY <1>1, <2>1 DEF Field
  <2>3. r # t.arg
    BY <1>1, <1>5 DEF Tracked
  <2> QED BY <2>2, <2>3 DEF Tracked, Tells
<1> QED BY <1>3, <1>4, <1>5

LEMMA TellTracks ==
  ASSUME Base, NEW c \in Terminal, Tell(c),
         NEW r \in Record, r \in task[c].held, Tracked(task[c], r)
  PROVE  Tracked(task'[c], r)
<1> DEFINE t == task[c]
           told == CASE t.op = "thread" -> Timeline(t)
                     [] t.op = "threads" -> PeerList(t)
                     [] t.op = "history" -> HistoryOf(t)
           u == [t EXCEPT !.pc = "end", !.rows = {}, !.read = told]
<1>1. Fit(t) /\ t.pc = "tell" /\ t.op \in Telling /\ task'[c] = u
  BY TaskFit DEF Tell, At, Become, Base, TasksOK, Fit, Placed, Telling
<1>2. u.pc = "end" /\ u.read = told /\ u.op = t.op /\ u.arg = t.arg
  BY <1>1 DEF Fit, Shaped, Field
<1> HIDE DEF u
<1>3. PICK row \in t.rows : row.id = r
  BY <1>1 DEF Tracked, Told
<1>4. Rooted(row.copy, r)
  BY <1>1, <1>3 DEF Fit, Shaped
<1>5. CASE t.op = "thread"
  <2>1. PeerOf[r] = t.arg => <<row.id, row.copy.log>> \in Timeline(t)
    BY <1>3 DEF Timeline
  <2>2. PeerOf[r] = t.arg => \E e \in Timeline(t) : e[1] = r /\ Head(e[2]) = Birth(r)
    BY <1>3, <1>4, <2>1 DEF Rooted
  <2> QED BY <1>1, <1>2, <1>5, <2>2 DEF Tracked, Tells
<1>6. CASE t.op = "threads"
  <2>1. r \in Ids(t.rows)
    BY <1>3 DEF Ids
  <2>2. PeerOf[r] \in PeersOf(Ids(t.rows))
    BY <2>1 DEF PeersOf
  <2>3. \E x \in PeerList(t) : x[1] = PeerOf[r]
    <3>1. PICK n : <<PeerOf[r], n>> \in PeerList(t)
      BY <2>2 DEF PeerList
    <3>2. <<PeerOf[r], n>>[1] = PeerOf[r]
      OBVIOUS
    <3> QED BY <3>1, <3>2
  <2> QED BY <1>1, <1>2, <1>6, <2>3 DEF Tracked, Tells
<1>7. CASE t.op = "history"
  <2>1. r \in HistoryOf(t)
    BY <1>3 DEF HistoryOf, Ids
  <2> QED BY <1>1, <1>2, <1>7, <2>1 DEF Tracked, Tells
<1> QED BY <1>1, <1>5, <1>6, <1>7 DEF Telling

\* The steps that mark, poll or print leave what is tracked alone.
LEMMA OthersTrack ==
  ASSUME Base, NEW c \in Terminal, NEW r \in Record, r \in task'[c].held,
         r \in task[c].held => Tracked(task[c], r),
         \/ PrintRows(c) \/ LoadMarkers(c) \/ SaveMarkers(c) \/ MarkRead(c) \/ MarkWrite(c)
         \/ MarkEnds(c) \/ Watch(c) \/ Follow(c) \/ FollowOn(c) \/ ReaderGone(c) \/ Resolve(c)
         \/ End(c) \/ Interrupt(c)
  PROVE  Tracked(task'[c], r)
<1> DEFINE t == task[c]
<1>1. Fit(t) /\ t = [f \in Field |-> t[f]]
  BY TaskFit DEF Fit, Shaped
<1>2. CASE task'[c] = Idle
  BY <1>2 DEF Idle
<1>3. CASE task'[c] = Looking(t) /\ (Watch(c) \/ FollowOn(c))
  <2>1. Shaped(t) /\ t.op \in Scans \union {"reply"}
    BY <1>1, <1>3 DEF Watch, FollowOn, At, Fit, Placed, Scans
  <2> QED BY <1>3, <2>1, LookingTracks
<1>4. CASE /\ task'[c].op = t.op /\ task'[c].held = t.held
           /\ task'[c].pc \notin {"names", "read", "tell", "get", "end"}
  BY <1>4 DEF Tracked
<1>5. CASE Resolve(c)
  <2>1. t.op = "number"
    BY <1>1, <1>5 DEF Resolve, At, Fit, Placed
  <2>2. task'[c].held = t.held
    BY <1>1, <1>5 DEF Resolve, Become, Base, TasksOK, Field
  <2> QED BY <2>1, <2>2 DEF Tracked
<1>6. ASSUME PrintRows(c) \/ LoadMarkers(c) \/ SaveMarkers(c) \/ MarkWrite(c) \/ Follow(c)
      PROVE  /\ task'[c].op = t.op /\ task'[c].held = t.held
             /\ task'[c].pc \notin {"names", "read", "tell", "get", "end"}
  <2>1. \/ Become(c, [t EXCEPT !.pc = "mark", !.todo = ToMark(t)])
        \/ Become(c, [t EXCEPT !.pc = "saveMarkers", !.read = markers])
        \/ Become(c, [t EXCEPT !.pc = "print", !.read = None])
        \/ Become(c, [t EXCEPT !.pc = "mark", !.read = None, !.todo = t.todo \ {Min(t.todo)}])
        \/ Become(c, [t EXCEPT !.pc = "sleep", !.prev = NextPrev(t, Sentence(Ids(t.rows)))])
    BY <1>6 DEF PrintRows, LoadMarkers, SaveMarkers, MarkWrite, Follow
  <2>2. \A u : Become(c, u) => task'[c] = u
    BY DEF Become, Base, TasksOK
  <2> QED BY <1>1, <2>1, <2>2 DEF Field
<1>7. ASSUME MarkRead(c) \/ Watch(c) \/ FollowOn(c)
      PROVE  \/ task'[c] = Idle \/ (task'[c] = Looking(t) /\ (Watch(c) \/ FollowOn(c)))
             \/ /\ task'[c].op = t.op /\ task'[c].held = t.held
                /\ task'[c].pc \notin {"names", "read", "tell", "get", "end"}
  <2>1. CASE MarkRead(c)
    <3>1. t.pc = "mark"
      BY <2>1 DEF MarkRead, At
    <3>2. \/ Become(c, [t EXCEPT !.todo = @ \ {Min(t.todo)}]) \/ Become(c, Idle)
          \/ Become(c, [t EXCEPT !.pc = "put", !.read = store["inbox"][Min(t.todo)]])
      BY <2>1 DEF MarkRead
    <3> QED BY <1>1, <3>1, <3>2 DEF Become, Base, TasksOK, Field
  <2>2. CASE Watch(c)
    <3>1. Become(c, Idle) \/ Become(c, Looking(t)) \/ Become(c, [t EXCEPT !.pc = "timeout"])
      BY <2>2 DEF Watch, Goto
    <3> QED BY <1>1, <2>2, <3>1 DEF Become, Base, TasksOK, Field
  <2>3. CASE FollowOn(c)
    BY <2>3 DEF FollowOn, Become, Base, TasksOK
  <2> QED BY <1>7, <2>1, <2>2, <2>3
<1>8. ASSUME MarkEnds(c) \/ ReaderGone(c) \/ End(c) \/ Interrupt(c) PROVE task'[c] = Idle
  BY <1>8 DEF MarkEnds, ReaderGone, End, Interrupt, Become, Base, TasksOK
<1> QED BY <1>2, <1>3, <1>4, <1>5, <1>6, <1>7, <1>8

LEMMA CommandTracks ==
  ASSUME Base, NEW c \in Terminal, Command(c), NEW r \in Record, r \in task'[c].held,
         r \in task[c].held => Tracked(task[c], r)
  PROVE  Tracked(task'[c], r)
<1> DEFINE t == task[c]
<1>1. CASE \E op \in Ops : Begin(c, op)
  <2>1. PICK op \in Ops : Begin(c, op)
    BY <1>1
  <2>2. PICK a \in Arguments(c, op) : Become(c, Looking([Idle EXCEPT !.op = op, !.arg = a]))
    BY <2>1 DEF Begin
  <2>3. PICK i : i = [Idle EXCEPT !.op = op, !.arg = a]
    OBVIOUS
  <2>4. Shaped(i) /\ i.op \in Scans \union {"reply"}
    BY <2>3, ViewsAssumption DEF Idle, Shaped, Field, Scans
  <2>5. task'[c] = Looking(i)
    BY <2>2, <2>3 DEF Become, Base, TasksOK
  <2> QED BY <2>4, <2>5, LookingTracks
<1>2. ASSUME Names(c) \/ (\E x \in Record : ReadRecord(c, x)) \/ ListingEnds(c) \/ LookUp(c) \/ Tell(c)
      PROVE  task'[c].held = t.held
  <2>1. t = [f \in Field |-> t[f]]
    BY TaskFit DEF Fit, Shaped
  <2>2. \/ \E S : Become(c, [t EXCEPT !.pc = "read", !.todo = S])
        \/ \E S, R : Become(c, [t EXCEPT !.todo = S, !.rows = R])
        \/ \E k : Become(c, [t EXCEPT !.pc = "names", !.k = k])
        \/ \E pc, S : Become(c, [t EXCEPT !.pc = pc, !.todo = S])
        \/ \E x : Become(c, [t EXCEPT !.pc = "end", !.read = x])
        \/ \E k : Become(c, [t EXCEPT !.k = k])
        \/ Become(c, [t EXCEPT !.pc = "end"])
        \/ \E x : Become(c, [t EXCEPT !.pc = "end", !.rows = {}, !.read = x])
    <3>1. CASE Names(c)
      BY <3>1 DEF Names
    <3>2. CASE \E x \in Record : ReadRecord(c, x)
      <4>1. PICK x \in Record : ReadRecord(c, x)
        BY <3>2
      <4> DEFINE copy == store[DirsOf(t.op)[t.k]][x]
                 take == IF copy # None /\ Wanted(t, copy)
                         THEN {[k |-> t.k, id |-> x, copy |-> copy]} ELSE {}
      <4>2. Become(c, [t EXCEPT !.todo = @ \ {x}, !.rows = @ \union take])
        BY <4>1 DEF ReadRecord
      <4> HIDE DEF take
      <4>3. Become(c, [t EXCEPT !.todo = t.todo \ {x}, !.rows = t.rows \union take])
        BY <4>2
      <4> QED BY <4>3
    <3>3. CASE ListingEnds(c)
      <4>1. \/ Become(c, [t EXCEPT !.pc = "names", !.k = @ + 1])
            \/ Become(c, [t EXCEPT !.pc = AfterListing(t), !.todo = Ids(RowsOf(t, 1))])
        BY <3>3 DEF ListingEnds
      <4>2. PICK n : n = t.k + 1
        OBVIOUS
      <4>3. Become(c, [t EXCEPT !.pc = "names", !.k = @ + 1])
              => Become(c, [t EXCEPT !.pc = "names", !.k = n])
        BY <4>2
      <4> QED BY <4>1, <4>3
    <3>4. CASE LookUp(c)
      <4>1. \/ Become(c, [t EXCEPT !.pc = "end", !.read = t.arg])
            \/ Become(c, [t EXCEPT !.k = @ + 1]) \/ Become(c, [t EXCEPT !.pc = "end"])
        BY <3>4 DEF LookUp, Goto
      <4>2. PICK n : n = t.k + 1
        OBVIOUS
      <4>3. Become(c, [t EXCEPT !.k = @ + 1]) => Become(c, [t EXCEPT !.k = n])
        BY <4>2
      <4> QED BY <4>1, <4>3
    <3>5. CASE Tell(c)
      BY <3>5 DEF Tell
    <3> QED BY <1>2, <3>1, <3>2, <3>3, <3>4, <3>5
  <2>3. \A u : Become(c, u) => task'[c] = u
    BY DEF Become, Base, TasksOK
  <2>4. PICK u : task'[c] = u /\
          \/ \E S : u = [t EXCEPT !.pc = "read", !.todo = S]
          \/ \E S, R : u = [t EXCEPT !.todo = S, !.rows = R]
          \/ \E k : u = [t EXCEPT !.pc = "names", !.k = k]
          \/ \E pc, S : u = [t EXCEPT !.pc = pc, !.todo = S]
          \/ \E x : u = [t EXCEPT !.pc = "end", !.read = x]
          \/ \E k : u = [t EXCEPT !.k = k]
          \/ u = [t EXCEPT !.pc = "end"]
          \/ \E x : u = [t EXCEPT !.pc = "end", !.rows = {}, !.read = x]
    BY <2>2, <2>3
  <2>5. u.held = t.held
    BY <2>1, <2>4 DEF Field
  <2> QED BY <2>4, <2>5
<1>3. CASE Names(c)
  BY <1>2, <1>3, NamesTracks
<1>4. CASE \E x \in Record : ReadRecord(c, x)
  BY <1>2, <1>4, ReadRecordTracks
<1>5. CASE ListingEnds(c)
  BY <1>2, <1>5, ListingEndsTracks
<1>6. CASE LookUp(c)
  BY <1>2, <1>6, LookUpTracks
<1>7. CASE Tell(c)
  BY <1>2, <1>7, TellTracks
<1>8. CASE RemoveMarker(c)
  BY <1>8 DEF RemoveMarker
<1> QED BY <1>1, <1>3, <1>4, <1>5, <1>6, <1>7, <1>8, OthersTrack DEF Command

LEMMA TimelineStep == Base /\ TimelineInv /\ [Next]_vars => TimelineInv'
<1> SUFFICES ASSUME Base, TimelineInv, [Next]_vars, NEW c \in Terminal, NEW r \in task'[c].held
             PROVE  Tracked(task[c], r)'
  BY DEF TimelineInv
<1>1. Fit(task'[c]) /\ r \in Record
  BY NextBase DEF Base, TasksOK, Fit, Shaped
<1>2. Drifts
  BY NextFlows
<1>3. Tracked(task'[c], r)
  <2>1. r \in task[c].held => Tracked(task[c], r)
    BY DEF TimelineInv
  <2>2. CASE Command(c)
    BY <1>1, <2>1, <2>2, CommandTracks
  <2>3. CASE Quiet(c)
    BY <2>1, <2>3 DEF Quiet
  <2> QED BY <2>2, <2>3, Alone
<1>4. PICK u : u = task'[c]
  OBVIOUS
<1>5. Tracked(u, r)'
  BY <1>1, <1>2, <1>3, <1>4, TrackedStays
<1> QED BY <1>4, <1>5

\* `owl thread`, `owl history` and a reply leave out no record that was there when
\* they began, and a timeline tells each from its first event on, whatever moved
\* between their listings and however often a log was cut (thread.rs records,
\* history.rs run, ask.rs thread_of, events.rs push).
THEOREM NothingLeftOut == Spec => []TimelineComplete
<1>1. Init => TimelineInv
  BY DEF Init, TimelineInv, Idle
<1>2. TimelineInv => TimelineComplete
  BY DEF TimelineInv, TimelineComplete, Tracked, Tells, At
<1> QED BY <1>1, <1>2, InitBase, NextBase, TimelineStep, PTL DEF Spec

-----------------------------------------------------------------------------
(* SeenWasShown.  A listing marks what it has printed, `owl show` the record it *)
(* is at, `show --json` what its rows hold.                                      *)

ShownFirst(t) ==
  /\ t.pc \in {"print", "markers", "saveMarkers"} => t.todo = ToMark(t)
  /\ t.pc \in {"mark", "put"} =>
       /\ t.op \in Listing => t.todo \subseteq shown
       /\ t.op = "json" => t.todo \subseteq ToMark(t)
  /\ t.pc = "put" /\ t.op = "show" => Min(t.todo) \in shown

SeenInv == SeenWasShown /\ \A c \in Terminal : ShownFirst(task[c])

LEMMA Became == ASSUME Base, NEW c \in Terminal, NEW u, Become(c, u) PROVE task'[c] = u
  BY DEF Become, Base, TasksOK

LEMMA ShownGrows == [Next]_vars => shown \subseteq shown' /\ unshown \subseteq unshown'
<1> SUFFICES ASSUME [Next]_vars PROVE shown \subseteq shown' /\ unshown \subseteq unshown'
  OBVIOUS
<1>1. ASSUME NEW c \in Terminal, Command(c) PROVE shown \subseteq shown' /\ unshown \subseteq unshown'
  BY <1>1 DEF Command, Begin, Names, ReadRecord, ListingEnds, PrintRows, LoadMarkers, SaveMarkers,
              MarkRead, MarkWrite, MarkEnds, Watch, Follow, FollowOn, ReaderGone, RemoveMarker,
              LookUp, Resolve, Tell, End, Interrupt, Lose, history
<1>2. ASSUME NEW r \in Record, Records(r) PROVE shown \subseteq shown' /\ unshown \subseteq unshown'
  BY <1>2 DEF Records, Arrive, FinishWrite, FinishUnlink, FinishDies, Leave, NoteState, Others
<1> QED BY <1>1, <1>2 DEF Next, SweepMarkers, vars, history

(* Only a mark makes a record seen.                                          *)
SeenIn(r) == In("inbox", r) /\ store["inbox"][r].seen

LEMMA RecordsUnseen ==
  ASSUME Base, NEW r \in Record, Records(r), NEW x \in Record, SeenIn(x)'
  PROVE  SeenIn(x)
<1>1. CASE Arrive(r)
  <2>1. PICK copy : copy = [seen |-> FALSE, log |-> <<Birth(r)>>]
    OBVIOUS
  <2>2. store' = [store EXCEPT ![Born[r]][r] = copy] /\ ~copy.seen /\ Born[r] \in Dir
    BY <1>1, <2>1, ViewsAssumption DEF Arrive, Put, Dir
  <2> QED BY <2>2 DEF SeenIn, In, Base, StoreOK, Dir
<1>2. CASE UNCHANGED store["inbox"]
  BY <1>2 DEF SeenIn, In
<1>3. CASE FinishUnlink(r)
  BY <1>3 DEF FinishUnlink, Put, SeenIn, In, Base, StoreOK, Dir
<1>4. CASE Leave(r)
  <2>1. PICK copy : \E d \in {"outbox", "asks"} : store' = [store EXCEPT ![d][r] = None, !["done"][r] = copy]
    BY <1>4 DEF Leave, Move
  <2> QED BY <1>2, <2>1 DEF Base, StoreOK, Dir
<1>5. CASE FinishWrite(r) \/ FinishDies(r)
  BY <1>2, <1>5 DEF FinishWrite, FinishDies, Put, Base, StoreOK, Dir
<1>6. CASE \E s \in TaskStates : NoteState(r, s)
  BY <1>2, <1>6 DEF NoteState, Put, Base, StoreOK, Dir
<1> QED BY <1>1, <1>3, <1>4, <1>5, <1>6 DEF Records

LEMMA MarkWrites ==
  ASSUME Base, NEW c \in Terminal, MarkWrite(c), NEW x \in Record, x # Min(task[c].todo)
  PROVE  store'["inbox"][x] = store["inbox"][x]
<1>1. PICK r : r = Min(task[c].todo)
  OBVIOUS
<1>2. \E copy : store' = [store EXCEPT !["inbox"][r] = copy]
  BY <1>1 DEF MarkWrite, Put
<1> QED BY <1>1, <1>2 DEF Base, StoreOK, Dir

LEMMA SeenByMark ==
  ASSUME Base, [Next]_vars, NEW x \in Record, SeenIn(x)'
  PROVE  SeenIn(x) \/ \E c \in Terminal : MarkWrite(c) /\ x = Min(task[c].todo)
<1>1. CASE UNCHANGED store
  BY <1>1 DEF SeenIn, In
<1>2. ASSUME NEW c \in Terminal, Command(c) PROVE UNCHANGED store \/ MarkWrite(c)
  BY <1>2 DEF Command, Begin, Names, ReadRecord, ListingEnds, PrintRows, LoadMarkers, SaveMarkers, MarkRead,
              MarkEnds, Watch, Follow, FollowOn, ReaderGone, RemoveMarker, LookUp, Resolve, Tell,
              End, Interrupt, spool
<1>3. ASSUME NEW c \in Terminal, MarkWrite(c), x # Min(task[c].todo) PROVE SeenIn(x)
  BY <1>3, MarkWrites DEF SeenIn, In
<1>4. CASE SweepMarkers \/ UNCHANGED vars
  BY <1>1, <1>4 DEF SweepMarkers, vars, spool
<1> QED BY <1>1, <1>2, <1>3, <1>4, RecordsUnseen DEF Next

\* What a `show --json` has in its rows it prints in the end, or dies with.
LEMMA InHand ==
  ASSUME Base, [Next]_vars, NEW c \in Terminal, task[c].op = "json", NEW x \in ToMark(task[c])
  PROVE  (task'[c].op = "json" /\ x \in ToMark(task'[c])) \/ x \in shown' \union unshown'
<1> DEFINE t == task[c]
<1>1. Fit(t) /\ t = [f \in Field |-> t[f]]
  BY TaskFit DEF Fit, Shaped
<1>2. t.pc \notin {"idle", "get", "print", "markers", "saveMarkers", "watch", "timeout", "follow",
                  "sleep", "resolve", "tell", "end"}
  BY <1>1 DEF Fit, Placed, Listing
<1>3. ASSUME NEW u, u.op = t.op, t.rows \subseteq u.rows PROVE u.op = "json" /\ x \in ToMark(u)
  BY <1>3 DEF ToMark, Ids, RowsOf
<1>4. CASE Names(c) \/ ListingEnds(c) \/ MarkWrite(c)
  <2>1. \/ \E S : Become(c, [t EXCEPT !.pc = "read", !.todo = S])
        \/ \E k : Become(c, [t EXCEPT !.pc = "names", !.k = k])
        \/ \E pc, S : Become(c, [t EXCEPT !.pc = pc, !.todo = S])
        \/ \E S : Become(c, [t EXCEPT !.pc = "mark", !.read = None, !.todo = S])
    <3>1. CASE ListingEnds(c)
      <4>1. \/ Become(c, [t EXCEPT !.pc = "names", !.k = @ + 1])
            \/ Become(c, [t EXCEPT !.pc = AfterListing(t), !.todo = Ids(RowsOf(t, 1))])
        BY <3>1 DEF ListingEnds
      <4>2. PICK n : n = t.k + 1
        OBVIOUS
      <4>3. Become(c, [t EXCEPT !.pc = "names", !.k = @ + 1])
              => Become(c, [t EXCEPT !.pc = "names", !.k = n])
        BY <4>2
      <4> QED BY <4>1, <4>3
    <3> QED BY <1>4, <3>1 DEF Names, MarkWrite
  <2>2. \/ \E S : task'[c] = [t EXCEPT !.pc = "read", !.todo = S]
        \/ \E k : task'[c] = [t EXCEPT !.pc = "names", !.k = k]
        \/ \E pc, S : task'[c] = [t EXCEPT !.pc = pc, !.todo = S]
        \/ \E S : task'[c] = [t EXCEPT !.pc = "mark", !.read = None, !.todo = S]
    BY <2>1, Became
  <2>3. task'[c].op = t.op /\ task'[c].rows = t.rows
    BY <1>1, <2>2 DEF Field
  <2> QED BY <1>3, <2>3
<1>5. CASE \E r \in Record : ReadRecord(c, r)
  <2>1. PICK r \in Record : ReadRecord(c, r)
    BY <1>5
  <2> DEFINE copy == store[DirsOf(t.op)[t.k]][r]
             take == IF copy # None /\ Wanted(t, copy)
                     THEN {[k |-> t.k, id |-> r, copy |-> copy]} ELSE {}
  <2>2. Become(c, [t EXCEPT !.todo = @ \ {r}, !.rows = @ \union take])
    BY <2>1 DEF ReadRecord
  <2> HIDE DEF take
  <2>3. PICK u : u = [t EXCEPT !.todo = @ \ {r}, !.rows = @ \union take]
    OBVIOUS
  <2>4. u.op = t.op /\ t.rows \subseteq u.rows
    BY <1>1, <2>3 DEF Field
  <2> QED BY <1>3, <2>2, <2>3, <2>4, Became
<1>6. CASE MarkRead(c)
  <2>1. \/ Become(c, [t EXCEPT !.todo = @ \ {Min(t.todo)}])
        \/ Become(c, [t EXCEPT !.pc = "put", !.read = store["inbox"][Min(t.todo)]])
        \/ Lose(t)
    BY <1>6 DEF MarkRead
  <2>2. CASE Lose(t)
    BY <2>2 DEF Lose
  <2>3. CASE ~Lose(t)
    <3>1. \/ task'[c] = [t EXCEPT !.todo = @ \ {Min(t.todo)}]
          \/ task'[c] = [t EXCEPT !.pc = "put", !.read = store["inbox"][Min(t.todo)]]
      BY <2>1, <2>3, Became
    <3>2. task'[c].op = t.op /\ task'[c].rows = t.rows
      BY <1>1, <3>1 DEF Field
    <3> QED BY <1>3, <3>2
  <2> QED BY <2>2, <2>3
<1>7. CASE MarkEnds(c)
  BY <1>7 DEF MarkEnds
<1>8. CASE Interrupt(c)
  BY <1>8 DEF Interrupt, Lose
<1>9. CASE Quiet(c)
  BY <1>9 DEF Quiet
<1>10. CASE RemoveMarker(c)
  BY <1>10 DEF RemoveMarker
<1>11. ~(\/ \E op \in Ops : Begin(c, op)
         \/ PrintRows(c) \/ LoadMarkers(c) \/ SaveMarkers(c) \/ Watch(c) \/ Follow(c) \/ FollowOn(c)
         \/ ReaderGone(c) \/ LookUp(c) \/ Resolve(c) \/ Tell(c) \/ End(c))
  BY <1>2 DEF Begin, PrintRows, LoadMarkers, SaveMarkers, Watch, Follow, FollowOn, ReaderGone,
              LookUp, Resolve, Tell, End, At
<1> QED BY <1>4, <1>5, <1>6, <1>7, <1>8, <1>9, <1>10, <1>11, Alone DEF Command

LEMMA CommandShows ==
  ASSUME Base, [Next]_vars, NEW c \in Terminal, Command(c), ShownFirst(task[c])
  PROVE  ShownFirst(task[c])'
<1> DEFINE t == task[c]
<1>1. Fit(t) /\ t = [f \in Field |-> t[f]] /\ t.todo \subseteq Nat
  BY TaskFit, ViewsAssumption DEF Fit, Shaped
<1>2. shown \subseteq shown'
  BY ShownGrows
<1>3. CASE task'[c].pc \notin {"print", "markers", "saveMarkers", "mark", "put"}
  BY <1>3 DEF ShownFirst
<1>4. CASE ListingEnds(c)
  <2>1. \/ Become(c, [t EXCEPT !.pc = "names", !.k = @ + 1])
        \/ Become(c, [t EXCEPT !.pc = AfterListing(t), !.todo = Ids(RowsOf(t, 1))])
    BY <1>4 DEF ListingEnds
  <2>2. CASE Become(c, [t EXCEPT !.pc = "names", !.k = @ + 1])
    <3>1. PICK n : n = t.k + 1
      OBVIOUS
    <3>2. task'[c] = [t EXCEPT !.pc = "names", !.k = n]
      BY <2>2, <3>1, Became
    <3> QED BY <1>1, <1>3, <3>2 DEF Field
  <2>3. CASE Become(c, [t EXCEPT !.pc = AfterListing(t), !.todo = Ids(RowsOf(t, 1))])
    <3>1. task'[c] = [t EXCEPT !.pc = AfterListing(t), !.todo = Ids(RowsOf(t, 1))]
      BY <2>3, Became
    <3>2. /\ task'[c].pc = AfterListing(t) /\ task'[c].todo = ToMark(t) /\ task'[c].rows = t.rows
          /\ task'[c].op = t.op
      BY <1>1, <3>1 DEF Field, ToMark
    <3>3. ToMark(task'[c]) = ToMark(t)
      BY <3>2 DEF ToMark, RowsOf
    <3>4. t.op \in Scans
      BY <1>1, <1>4 DEF ListingEnds, At, Fit, Placed
    <3>5. /\ AfterListing(t) # "put"
          /\ AfterListing(t) = "mark" => t.op \in {"show", "json"}
      BY <3>4 DEF AfterListing, Scans
    <3> QED BY <3>2, <3>3, <3>5 DEF ShownFirst, Listing
  <2> QED BY <2>1, <2>2, <2>3
<1>5. CASE PrintRows(c)
  <2>1. task'[c] = [t EXCEPT !.pc = "mark", !.todo = ToMark(t)]
    BY <1>5, Became DEF PrintRows
  <2>2. task'[c].pc = "mark" /\ task'[c].todo = t.todo /\ task'[c].op \in Listing
    BY <1>1, <1>5, <2>1 DEF PrintRows, At, ShownFirst, Fit, Placed, Field
  <2>3. t.todo \subseteq shown'
    BY <1>5 DEF PrintRows
  <2> QED BY <2>2, <2>3 DEF ShownFirst, Listing
<1>6. CASE LoadMarkers(c) \/ SaveMarkers(c)
  <2>1. PICK pc, x : task'[c] = [t EXCEPT !.pc = pc, !.read = x]
                     /\ pc \in {"print", "saveMarkers"} /\ t.pc \in {"markers", "saveMarkers"}
    BY <1>6, Became DEF LoadMarkers, SaveMarkers, At
  <2>2. task'[c].pc = pc /\ task'[c].todo = t.todo /\ task'[c].rows = t.rows
    BY <1>1, <2>1 DEF Field
  <2>3. ToMark(task'[c]) = ToMark(t)
    BY <2>2 DEF ToMark, RowsOf
  <2> QED BY <2>1, <2>2, <2>3 DEF ShownFirst
<1>7. CASE MarkRead(c)
  <2>1. t.pc = "mark" /\ shown' = IF t.op = "show" THEN shown \union {Min(t.todo)} ELSE shown
    BY <1>7 DEF MarkRead, At
  <2>2. \/ Become(c, Idle)
        \/ Become(c, [t EXCEPT !.todo = @ \ {Min(t.todo)}])
        \/ Become(c, [t EXCEPT !.pc = "put", !.read = store["inbox"][Min(t.todo)]])
    BY <1>7 DEF MarkRead
  <2>3. CASE Become(c, Idle)
    BY <1>3, <2>3, Became DEF Idle
  <2>4. CASE \/ Become(c, [t EXCEPT !.todo = @ \ {Min(t.todo)}])
             \/ Become(c, [t EXCEPT !.pc = "put", !.read = store["inbox"][Min(t.todo)]])
    <3>1. \/ task'[c] = [t EXCEPT !.todo = @ \ {Min(t.todo)}]
          \/ task'[c] = [t EXCEPT !.pc = "put", !.read = store["inbox"][Min(t.todo)]]
      BY <2>4, Became
    <3>2. PICK u : u = task'[c]
      OBVIOUS
    <3>3. /\ u.pc \in {"mark", "put"} /\ u.todo \subseteq t.todo
          /\ u.rows = t.rows /\ u.op = t.op /\ (u.pc = "put" => u.todo = t.todo)
      BY <1>1, <2>1, <3>1, <3>2 DEF Field
    <3>4. ToMark(u) = ToMark(t)
      BY <3>3 DEF ToMark, RowsOf
    <3> QED BY <1>2, <2>1, <3>2, <3>3, <3>4 DEF ShownFirst
  <2> QED BY <2>2, <2>3, <2>4
<1>8. CASE MarkWrite(c)
  <2>1. task'[c] = [t EXCEPT !.pc = "mark", !.read = None, !.todo = @ \ {Min(t.todo)}] /\ t.pc = "put"
    BY <1>8, Became DEF MarkWrite, At
  <2>2. /\ task'[c].pc = "mark" /\ task'[c].todo \subseteq t.todo /\ task'[c].rows = t.rows
        /\ task'[c].op = t.op
    BY <1>1, <2>1 DEF Field
  <2>3. ToMark(task'[c]) = ToMark(t)
    BY <2>2 DEF ToMark, RowsOf
  <2> QED BY <1>2, <2>1, <2>2, <2>3 DEF ShownFirst
<1>9. CASE Names(c) \/ (\E r \in Record : ReadRecord(c, r)) \/ (\E op \in Ops : Begin(c, op))
  <2>1. CASE Names(c)
    <3>1. \E S : task'[c] = [t EXCEPT !.pc = "read", !.todo = S]
      BY <2>1, Became DEF Names
    <3> QED BY <1>1, <1>3, <3>1 DEF Field
  <2>2. CASE \E r \in Record : ReadRecord(c, r)
    <3>1. (\E S, R : task'[c] = [t EXCEPT !.todo = S, !.rows = R]) /\ t.pc = "read"
      <4>1. PICK r \in Record : ReadRecord(c, r)
        BY <2>2
      <4> DEFINE copy == store[DirsOf(t.op)[t.k]][r]
                 take == IF copy # None /\ Wanted(t, copy)
                         THEN {[k |-> t.k, id |-> r, copy |-> copy]} ELSE {}
      <4>2. Become(c, [t EXCEPT !.todo = @ \ {r}, !.rows = @ \union take]) /\ t.pc = "read"
        BY <4>1 DEF ReadRecord, At
      <4> HIDE DEF take
      <4>3. task'[c] = [t EXCEPT !.todo = t.todo \ {r}, !.rows = t.rows \union take]
        BY <4>2, Became
      <4> QED BY <4>2, <4>3
    <3> QED BY <1>1, <1>3, <3>1 DEF Field
  <2>3. CASE \E op \in Ops : Begin(c, op)
    <3>1. PICK op \in Ops : Begin(c, op)
      BY <2>3
    <3>2. PICK a \in Arguments(c, op) : Become(c, Looking([Idle EXCEPT !.op = op, !.arg = a]))
      BY <3>1 DEF Begin
    <3>3. task'[c].pc \in {"get", "names"}
      BY <3>2, Became DEF Looking, Idle
    <3> QED BY <1>3, <3>3
  <2> QED BY <1>9, <2>1, <2>2, <2>3
<1>10. CASE Watch(c) \/ Follow(c) \/ FollowOn(c)
  <2>1. \/ Become(c, Idle) \/ Become(c, Looking(t)) \/ Become(c, [t EXCEPT !.pc = "timeout"])
        \/ \E x : Become(c, [t EXCEPT !.pc = "sleep", !.prev = x])
    BY <1>10 DEF Watch, Follow, FollowOn, Goto
  <2>2. \/ task'[c] = Idle \/ task'[c] = Looking(t) \/ task'[c] = [t EXCEPT !.pc = "timeout"]
        \/ \E x : task'[c] = [t EXCEPT !.pc = "sleep", !.prev = x]
    BY <2>1, Became
  <2>3. Looking(t).pc \in {"get", "names"}
    BY <1>1 DEF Looking, Field
  <2>4. /\ [t EXCEPT !.pc = "timeout"].pc = "timeout" /\ Idle.pc = "idle"
        /\ \A x : [t EXCEPT !.pc = "sleep", !.prev = x].pc = "sleep"
    BY <1>1 DEF Idle, Field
  <2>5. task'[c].pc \in {"idle", "get", "names", "timeout", "sleep"}
    BY <2>2, <2>3, <2>4
  <2> QED BY <1>3, <2>5
<1>11. CASE LookUp(c) \/ Resolve(c) \/ Tell(c)
  <2>1. \/ Become(c, [t EXCEPT !.k = @ + 1]) \/ Become(c, [t EXCEPT !.pc = "end"])
        \/ \E x : Become(c, [t EXCEPT !.pc = "end", !.read = x])
        \/ \E x : Become(c, [t EXCEPT !.pc = "end", !.rows = {}, !.read = x])
    BY <1>11 DEF LookUp, Resolve, Tell, Goto
  <2>2. t.pc \in {"get", "resolve", "tell"}
    BY <1>11 DEF LookUp, Resolve, Tell, At
  <2>3. PICK n : n = t.k + 1
    OBVIOUS
  <2>4. \/ task'[c] = [t EXCEPT !.k = n] \/ task'[c] = [t EXCEPT !.pc = "end"]
        \/ \E x : task'[c] = [t EXCEPT !.pc = "end", !.read = x]
        \/ \E x : task'[c] = [t EXCEPT !.pc = "end", !.rows = {}, !.read = x]
    BY <2>1, <2>3, Became
  <2>5. task'[c].pc \in {"get", "resolve", "tell", "end"}
    BY <1>1, <2>2, <2>4 DEF Field
  <2> QED BY <1>3, <2>5
<1>12. CASE MarkEnds(c) \/ ReaderGone(c) \/ End(c) \/ Interrupt(c)
  <2>1. task'[c] = Idle
    BY <1>12, Became DEF MarkEnds, ReaderGone, End, Interrupt
  <2> QED BY <1>3, <2>1 DEF Idle
<1>13. CASE RemoveMarker(c)
  BY <1>13 DEF RemoveMarker, history, ShownFirst, ToMark
<1> QED BY <1>4, <1>5, <1>6, <1>7, <1>8, <1>9, <1>10, <1>11, <1>12, <1>13 DEF Command

LEMMA SeenStep == Base /\ SeenInv /\ [Next]_vars => SeenInv'
<1> SUFFICES ASSUME Base, SeenInv, [Next]_vars PROVE SeenInv'
  OBVIOUS
<1>1. shown \subseteq shown' /\ unshown \subseteq unshown'
  BY ShownGrows
<1>2. ASSUME NEW c \in Terminal PROVE ShownFirst(task[c])'
  <2>1. CASE Command(c)
    BY <2>1, CommandShows DEF SeenInv
  <2>2. CASE Quiet(c)
    BY <1>1, <2>2 DEF SeenInv, Quiet, ShownFirst, ToMark
  <2> QED BY <2>1, <2>2, Alone
<1>3. ASSUME NEW x \in Record, SeenIn(x)'
      PROVE  \/ x \in shown' \union unshown'
             \/ \E c \in Terminal : task'[c].op = "json" /\ x \in ToMark(task'[c])
  <2>1. ASSUME NEW c \in Terminal, task[c].op = "json", x \in ToMark(task[c])
        PROVE  (task'[c].op = "json" /\ x \in ToMark(task'[c])) \/ x \in shown' \union unshown'
    BY <2>1, InHand
  <2>2. CASE SeenIn(x)
    BY <1>1, <2>1, <2>2 DEF SeenInv, SeenWasShown, SeenIn
  <2>3. ASSUME NEW c \in Terminal, MarkWrite(c), x = Min(task[c].todo)
        PROVE  x \in shown \/ (task[c].op = "json" /\ x \in ToMark(task[c]))
    <3>1. task[c].pc = "put" /\ task[c].op \in Listing \union {"show", "json"}
          /\ task[c].todo # {} /\ task[c].todo \subseteq Nat
      BY <2>3, TaskFit, ViewsAssumption DEF MarkWrite, At, Fit, Shaped, Placed
    <3>2. x \in task[c].todo
      BY <2>3, <3>1, MinIsIn
    <3> QED BY <2>3, <3>1, <3>2 DEF SeenInv, ShownFirst
  <2> QED BY <1>1, <1>3, <2>1, <2>2, <2>3, SeenByMark
<1>4. SeenWasShown'
  BY <1>3 DEF SeenWasShown, SeenIn, ToMark
<1> QED BY <1>2, <1>4 DEF SeenInv

\* A record is marked seen only after it was printed, or by a `show --json` that
\* will print it or dies first (inbox.rs run, show.rs run, spool.rs mark_seen).
THEOREM MarkedIsShown == Spec => []SeenWasShown
<1>1. Init => SeenInv
  BY DEF Init, SeenInv, SeenWasShown, ShownFirst, In, Idle, Dir
<1>2. SeenInv => SeenWasShown
  BY DEF SeenInv
<1> QED BY <1>1, <1>2, InitBase, NextBase, SeenStep, PTL DEF Spec

(* What a step of a command makes of it. *)
LEMMA CommandShapes ==
  ASSUME Base, NEW c \in Terminal, Command(c)
  PROVE  LET t == task[c] IN
         \/ \E op \in Ops : Begin(c, op)
         \/ RemoveMarker(c) /\ task'[c] = t
         \/ task'[c] = Idle
         \/ (Watch(c) \/ FollowOn(c)) /\ task'[c] = Looking(t)
         \/ Follow(c) /\ task'[c] = [t EXCEPT !.pc = "sleep", !.prev = Sentence(Ids(t.rows))]
         \/ /\ ~Follow(c)
            /\ task'[c].pc # "sleep" /\ task'[c].op = t.op /\ task'[c].arg = t.arg
            /\ task'[c].prev = t.prev /\ task'[c].held = t.held
<1> DEFINE t == task[c]
           Kept(u) == /\ u.pc # "sleep" /\ u.op = t.op /\ u.arg = t.arg
                      /\ u.prev = t.prev /\ u.held = t.held
<1>1. Fit(t) /\ t = [f \in Field |-> t[f]]
  BY TaskFit DEF Fit, Shaped
<1>2. PICK n : n = t.k + 1
  OBVIOUS
<1>6. CASE Names(c) \/ PrintRows(c) \/ LoadMarkers(c) \/ SaveMarkers(c) \/ MarkWrite(c)
           \/ Resolve(c) \/ Tell(c)
  <2>1. \/ \E S : Become(c, [t EXCEPT !.pc = "read", !.todo = S])
        \/ \E S : Become(c, [t EXCEPT !.pc = "mark", !.todo = S])
        \/ \E x : Become(c, [t EXCEPT !.pc = "saveMarkers", !.read = x])
        \/ \E x : Become(c, [t EXCEPT !.pc = "print", !.read = x])
        \/ \E x, S : Become(c, [t EXCEPT !.pc = "mark", !.read = x, !.todo = S])
        \/ \E x : Become(c, [t EXCEPT !.pc = "end", !.read = x])
        \/ \E x : Become(c, [t EXCEPT !.pc = "end", !.rows = {}, !.read = x])
    BY <1>6 DEF Names, PrintRows, LoadMarkers, SaveMarkers, MarkWrite, Resolve, Tell
  <2>2. t.pc # "follow"
    BY <1>6 DEF Names, PrintRows, LoadMarkers, SaveMarkers, MarkWrite, Resolve, Tell, At
  <2>3. Kept(task'[c])
    <3>1. \/ \E S : task'[c] = [t EXCEPT !.pc = "read", !.todo = S]
          \/ \E S : task'[c] = [t EXCEPT !.pc = "mark", !.todo = S]
          \/ \E x : task'[c] = [t EXCEPT !.pc = "saveMarkers", !.read = x]
          \/ \E x : task'[c] = [t EXCEPT !.pc = "print", !.read = x]
          \/ \E x, S : task'[c] = [t EXCEPT !.pc = "mark", !.read = x, !.todo = S]
          \/ \E x : task'[c] = [t EXCEPT !.pc = "end", !.read = x]
          \/ \E x : task'[c] = [t EXCEPT !.pc = "end", !.rows = {}, !.read = x]
      BY <2>1, Became
    <3> QED BY <1>1, <3>1 DEF Field
  <2> QED BY <2>2, <2>3 DEF Follow, At
<1>7. CASE \E r \in Record : ReadRecord(c, r)
  <2>1. PICK r \in Record : ReadRecord(c, r)
    BY <1>7
  <2> DEFINE copy == store[DirsOf(t.op)[t.k]][r]
             take == IF copy # None /\ Wanted(t, copy)
                     THEN {[k |-> t.k, id |-> r, copy |-> copy]} ELSE {}
  <2>2. Become(c, [t EXCEPT !.todo = @ \ {r}, !.rows = @ \union take]) /\ t.pc = "read"
    BY <2>1 DEF ReadRecord, At
  <2> HIDE DEF take
  <2>3. task'[c] = [t EXCEPT !.todo = t.todo \ {r}, !.rows = t.rows \union take]
    BY <2>2, Became
  <2>4. Kept(task'[c])
    BY <1>1, <2>2, <2>3 DEF Field
  <2> QED BY <2>2, <2>4 DEF Follow, At
<1>8. CASE ListingEnds(c) \/ LookUp(c)
  <2>1. \/ Become(c, [t EXCEPT !.pc = "names", !.k = @ + 1])
        \/ Become(c, [t EXCEPT !.k = @ + 1])
        \/ \E x : Become(c, [t EXCEPT !.pc = "end", !.read = x])
        \/ Become(c, [t EXCEPT !.pc = "end"])
        \/ ListingEnds(c) /\ Become(c, [t EXCEPT !.pc = AfterListing(t), !.todo = Ids(RowsOf(t, 1))])
    BY <1>8 DEF ListingEnds, LookUp, Goto
  <2>2. /\ t.pc \in {"read", "get"}
        /\ ListingEnds(c) => AfterListing(t) # "sleep"
    BY <1>1, <1>8 DEF ListingEnds, LookUp, At, Fit, Placed, AfterListing, Scans
  <2>3. \/ Become(c, [t EXCEPT !.pc = "names", !.k = n])
        \/ Become(c, [t EXCEPT !.k = n])
        \/ \E x : Become(c, [t EXCEPT !.pc = "end", !.read = x])
        \/ Become(c, [t EXCEPT !.pc = "end"])
        \/ \E S : Become(c, [t EXCEPT !.pc = AfterListing(t), !.todo = S]) /\ ListingEnds(c)
    BY <1>2, <2>1
  <2>4. Kept(task'[c])
    <3>1. \/ task'[c] = [t EXCEPT !.pc = "names", !.k = n]
          \/ task'[c] = [t EXCEPT !.k = n]
          \/ \E x : task'[c] = [t EXCEPT !.pc = "end", !.read = x]
          \/ task'[c] = [t EXCEPT !.pc = "end"]
          \/ (\E S : task'[c] = [t EXCEPT !.pc = AfterListing(t), !.todo = S]) /\ ListingEnds(c)
      BY <2>3, Became
    <3> QED BY <1>1, <2>2, <3>1 DEF Field
  <2> QED BY <2>2, <2>4 DEF Follow, At
<1>9. CASE MarkRead(c)
  <2>1. \/ Become(c, Idle)
        \/ Become(c, [t EXCEPT !.todo = @ \ {Min(t.todo)}])
        \/ Become(c, [t EXCEPT !.pc = "put", !.read = store["inbox"][Min(t.todo)]])
    BY <1>9 DEF MarkRead
  <2>2. t.pc = "mark"
    BY <1>9 DEF MarkRead, At
  <2>3. [t EXCEPT !.todo = @ \ {Min(t.todo)}] = [t EXCEPT !.todo = t.todo \ {Min(t.todo)}]
    OBVIOUS
  <2>4. task'[c] = Idle \/ Kept(task'[c])
    <3>1. \/ task'[c] = Idle
          \/ task'[c] = [t EXCEPT !.todo = t.todo \ {Min(t.todo)}]
          \/ task'[c] = [t EXCEPT !.pc = "put", !.read = store["inbox"][Min(t.todo)]]
      BY <2>1, <2>3, Became
    <3> QED BY <1>1, <2>2, <3>1 DEF Field
  <2> QED BY <2>2, <2>4 DEF Follow, At
<1>10. CASE Watch(c) \/ FollowOn(c)
  <2>1. Become(c, Idle) \/ Become(c, Looking(t)) \/ Become(c, [t EXCEPT !.pc = "timeout"])
    BY <1>10 DEF Watch, FollowOn, Goto
  <2>2. t.pc \in {"watch", "sleep"}
    BY <1>10 DEF Watch, FollowOn, At
  <2>3. task'[c] = Idle \/ task'[c] = Looking(t) \/ Kept(task'[c])
    <3>1. task'[c] = Idle \/ task'[c] = Looking(t) \/ task'[c] = [t EXCEPT !.pc = "timeout"]
      BY <2>1, Became
    <3> QED BY <1>1, <3>1 DEF Field
  <2> QED BY <1>10, <2>2, <2>3 DEF Follow, At
<1>11. CASE MarkEnds(c) \/ ReaderGone(c) \/ End(c) \/ Interrupt(c)
  <2>1. task'[c] = Idle
    BY <1>11, Became DEF MarkEnds, ReaderGone, End, Interrupt
  <2> QED BY <2>1
<1>12. CASE Follow(c)
  <2>1. task'[c] = [t EXCEPT !.pc = "sleep", !.prev = Sentence(Ids(t.rows))]
    BY <1>12, Became DEF Follow, NextPrev
  <2> QED BY <1>12, <2>1
<1>13. CASE RemoveMarker(c)
  BY <1>13 DEF RemoveMarker
<1> QED BY <1>6, <1>7, <1>8, <1>9, <1>10, <1>11, <1>12, <1>13 DEF Command

(* A command begins with nothing gathered. *)
LEMMA BeginLooks ==
  ASSUME Base, NEW c \in Terminal, NEW op \in Ops, Begin(c, op)
  PROVE  LET u == task'[c] IN
         /\ u.op = op /\ u.pc = (IF op = "reply" THEN "get" ELSE "names") /\ u.k = 1
         /\ u.rows = {} /\ u.held = HeldFor(op) /\ u.prev = None /\ u.arg \in Arguments(c, op)
<1>1. PICK a \in Arguments(c, op) : Become(c, Looking([Idle EXCEPT !.op = op, !.arg = a]))
  BY DEF Begin
<1>2. task'[c] = Looking([Idle EXCEPT !.op = op, !.arg = a])
  BY <1>1, Became
<1> QED BY <1>2 DEF Looking, Idle

-----------------------------------------------------------------------------
(* NothingUntold.  What was unseen when a poll began is named by it, read and  *)
(* kept, or seen meanwhile; a follow remembers the line it printed last.         *)

Watched(t, r) ==
  /\ r \in Held
  /\ t.pc \in {"names", "read"} => t.k = 1
  /\ t.pc = "read" /\ Unseen(r) => r \in t.todo \/ Told(t, r)
  /\ t.pc = "watch" /\ Unseen(r) => Told(t, r)
  /\ t.pc = "timeout" => ~Unseen(r)

PollInv == \A c \in Terminal : LET t == task[c] IN
  /\ t.op = "watch" => \A r \in t.held : Watched(t, r)
  /\ t.op = "follow" => line[c] = t.prev
  /\ t.pc = "sleep" => t.prev = Sentence(Ids(t.rows))

LEMMA WatchedStays ==
  ASSUME Drifts, NEW t, NEW r \in Record, Watched(t, r)
  PROVE  Watched(t, r)'
<1>1. r \in Held'
  BY DEF Watched, Held, Drifts, Dir
<1>2. Unseen(r)' => Unseen(r)
  BY DEF Watched, Drifts
<1> QED BY <1>1, <1>2 DEF Watched, Told

LEMMA CommandWatches ==
  ASSUME Base, PollInv, NEW c \in Terminal, Command(c), task'[c].op = "watch",
         NEW r \in Record, r \in task'[c].held
  PROVE  Watched(task'[c], r)
<1> DEFINE t == task[c]
<1>1. Fit(t) /\ t = [f \in Field |-> t[f]]
  BY TaskFit DEF Fit, Shaped
<1>2. DirsOf("watch")[1] = "inbox" /\ Len(DirsOf("watch")) = 1
  BY DirsOfFacts
<1>3. ASSUME NEW u, u.pc = "names", u.k = 1, Unseen(r) PROVE Watched(u, r)
  BY <1>3 DEF Watched, Unseen, Held, Dir
<1>4. CASE \E op \in Ops : Begin(c, op)
  <2>1. PICK op \in Ops : Begin(c, op)
    BY <1>4
  <2>2. op = "watch" /\ task'[c].pc = "names" /\ task'[c].k = 1 /\ Unseen(r)
    BY <2>1, BeginLooks DEF HeldFor
  <2> QED BY <1>3, <2>2
<1>5. CASE (Watch(c) \/ FollowOn(c)) /\ task'[c] = Looking(t)
  <2>1. PICK u : u = task'[c]
    OBVIOUS
  <2>2. u.op = t.op /\ u.held = HeldFor(t.op) /\ u.k = 1
        /\ u.pc = (IF t.op = "reply" THEN "get" ELSE "names")
    BY <1>1, <1>5, <2>1 DEF Looking, Field
  <2>3. u.op = "watch" /\ r \in u.held
    BY <2>1
  <2> QED BY <1>3, <2>1, <2>2, <2>3 DEF HeldFor
<1>6. CASE t.op = "watch" /\ r \in t.held
  <2>2. CASE Names(c)
    <3>1. PICK S : S = {x \in Record : In("inbox", x)}
      OBVIOUS
    <3>2. t.k = 1 /\ t.pc = "names" /\ Watched(t, r)
      BY <1>6, <2>2 DEF Names, At, PollInv, Watched
    <3>3. task'[c] = [t EXCEPT !.pc = "read", !.todo = S]
      <4>1. DirsOf(t.op)[t.k] = "inbox"
        BY <1>2, <1>6, <3>2
      <4>2. Become(c, [t EXCEPT !.pc = "read", !.todo = S])
        BY <2>2, <3>1, <4>1 DEF Names
      <4> QED BY <4>2, Became
    <3>4. task'[c].pc = "read" /\ task'[c].todo = S /\ task'[c].k = 1
      BY <1>1, <3>2, <3>3 DEF Field
    <3>5. Unseen(r) => r \in S
      BY <3>1 DEF Unseen
    <3> QED BY <3>2, <3>4, <3>5 DEF Watched
  <2>3. CASE \E x \in Record : ReadRecord(c, x)
    <3>1. PICK x \in Record : ReadRecord(c, x)
      BY <2>3
    <3>2. t.k = 1 /\ t.pc = "read" /\ Watched(t, r)
      BY <1>6, <3>1 DEF ReadRecord, At, PollInv, Watched
    <3> DEFINE copy == store["inbox"][x]
               row == [k |-> 1, id |-> x, copy |-> copy]
               take == IF copy # None /\ Wanted(t, copy) THEN {row} ELSE {}
               u == [t EXCEPT !.todo = t.todo \ {x}, !.rows = t.rows \union take]
    <3>3. task'[c] = u
      BY <1>2, <1>6, <3>1, <3>2, Became DEF ReadRecord
    <3>4. row.id = x
      OBVIOUS
    <3> HIDE DEF take, row
    <3>5. u.pc = "read" /\ u.todo = t.todo \ {x} /\ u.rows = t.rows \union take /\ u.k = 1
      BY <1>1, <3>2 DEF Field
    <3> HIDE DEF u
    <3>6. Unseen(r) /\ r = x => take = {row}
      BY DEF take, Unseen, In, Wanted
    <3>7. Unseen(r) => r \in u.todo \/ Told(u, r)
      BY <3>2, <3>4, <3>5, <3>6 DEF Watched, Told
    <3> QED BY <3>2, <3>3, <3>5, <3>7 DEF Watched
  <2>4. CASE ListingEnds(c)
    <3>1. t.k = 1 /\ t.pc = "read" /\ Watched(t, r) /\ t.todo = {}
      BY <1>6, <2>4 DEF ListingEnds, At, PollInv, Watched
    <3>2. Become(c, [t EXCEPT !.pc = AfterListing(t), !.todo = Ids(RowsOf(t, 1))])
      <4>1. ~(t.k < Len(DirsOf(t.op)))
        <5>1. Len(DirsOf(t.op)) = 1
          BY <1>2, <1>6
        <5> QED BY <3>1, <5>1
      <4> QED BY <2>4, <4>1 DEF ListingEnds
    <3>3. PICK S : task'[c] = [t EXCEPT !.pc = "watch", !.todo = S]
      BY <1>6, <3>2, Became DEF AfterListing
    <3>4. task'[c].pc = "watch" /\ task'[c].rows = t.rows
      BY <1>1, <3>3 DEF Field
    <3> QED BY <3>1, <3>4 DEF Watched, Told
  <2>5. CASE Watch(c) /\ task'[c] # Looking(t)
    <3>1. t.pc = "watch" /\ Watched(t, r)
      BY <1>6, <2>5 DEF Watch, At, PollInv
    <3>2. \/ Become(c, Idle) \/ Become(c, Looking(t))
          \/ t.rows = {} /\ Become(c, [t EXCEPT !.pc = "timeout"])
      BY <2>5 DEF Watch, Goto
    <3>3. task'[c] = Idle \/ (t.rows = {} /\ task'[c] = [t EXCEPT !.pc = "timeout"])
      BY <2>5, <3>2, Became
    <3>4. task'[c] # Idle
      BY DEF Idle
    <3>5. t.rows = {} /\ task'[c].pc = "timeout"
      BY <1>1, <3>3, <3>4 DEF Field
    <3> QED BY <3>1, <3>5 DEF Watched, Told
  <2>6. CASE RemoveMarker(c)
    BY <1>6, <2>6 DEF RemoveMarker, PollInv
  <2>7. CASE task'[c] = Idle
    BY <2>7 DEF Idle
  <2>8. ~(\/ PrintRows(c) \/ LoadMarkers(c) \/ SaveMarkers(c) \/ MarkRead(c) \/ MarkWrite(c)
          \/ MarkEnds(c) \/ Follow(c) \/ FollowOn(c) \/ ReaderGone(c) \/ LookUp(c) \/ Resolve(c)
          \/ Tell(c))
    BY <1>1, <1>6 DEF PrintRows, LoadMarkers, SaveMarkers, MarkRead, MarkWrite, MarkEnds, Follow, FollowOn,
              ReaderGone, LookUp, Resolve, Tell, At, Fit, Placed, Listing
  <2>9. ASSUME End(c) \/ Interrupt(c) PROVE task'[c] = Idle
    BY <2>9, Became DEF End, Interrupt
  <2> QED BY <1>4, <1>5, <2>2, <2>3, <2>4, <2>5, <2>6, <2>7, <2>8, <2>9 DEF Command
<1>7. CASE task'[c] = Idle
  BY <1>7 DEF Idle
<1>8. CASE task'[c] = t
  BY <1>6, <1>8
<1>9. CASE task'[c].op = t.op /\ task'[c].held = t.held
  BY <1>6, <1>9
<1>10. CASE Follow(c)
  <2>1. PICK x : task'[c] = [t EXCEPT !.pc = "sleep", !.prev = x]
    BY <1>10, Became DEF Follow
  <2> QED BY <1>1, <1>9, <2>1 DEF Field
<1> QED BY <1>4, <1>5, <1>7, <1>8, <1>9, <1>10, CommandShapes

LEMMA LineKept ==
  ASSUME NEW c \in Terminal, Command(c)
  PROVE  UNCHANGED line \/ Follow(c) \/ \E op \in Ops : Begin(c, op)
  BY DEF Command, Names, ReadRecord, ListingEnds, PrintRows, LoadMarkers, SaveMarkers, MarkRead, MarkWrite,
         MarkEnds, Watch, FollowOn, ReaderGone, RemoveMarker, LookUp, Resolve, Tell, End, Interrupt,
         history

LEMMA CommandFollows ==
  ASSUME Base, PollInv, NEW c \in Terminal, Command(c)
  PROVE  /\ task'[c].op = "follow" => line'[c] = task'[c].prev
         /\ task'[c].pc = "sleep" => task'[c].prev = Sentence(Ids(task'[c].rows))
<1> DEFINE t == task[c]
<1>1. Fit(t) /\ t = [f \in Field |-> t[f]]
  BY TaskFit DEF Fit, Shaped
<1>2. CASE \E op \in Ops : Begin(c, op)
  <2>1. PICK op \in Ops : Begin(c, op)
    BY <1>2
  <2>2. line'[c] = None
    BY <2>1 DEF Begin, Base, HistoryOK
  <2> QED BY <2>1, <2>2, BeginLooks
<1>3. CASE Follow(c)
  <2>1. PICK cur : cur = Sentence(Ids(t.rows))
    OBVIOUS
  <2>2. task'[c] = [t EXCEPT !.pc = "sleep", !.prev = cur]
    BY <1>3, <2>1, Became DEF Follow, NextPrev
  <2>3. task'[c].prev = cur /\ task'[c].rows = t.rows
    BY <1>1, <2>2 DEF Field
  <2>4. line'[c] = IF cur = None THEN None ELSE IF cur # t.prev THEN cur ELSE line[c]
    BY <1>3, <2>1 DEF Follow, Base, HistoryOK
  <2>5. line[c] = t.prev
    BY <1>1, <1>3 DEF Follow, At, Fit, Placed, PollInv
  <2> QED BY <2>1, <2>3, <2>4, <2>5
<1>4. CASE ~Follow(c) /\ ~(\E op \in Ops : Begin(c, op))
  <2>1. line'[c] = line[c]
    BY <1>4, LineKept
  <2>2. CASE task'[c] = t
    BY <2>1, <2>2 DEF PollInv
  <2>3. CASE task'[c] = Idle
    BY <2>3 DEF Idle
  <2>4. CASE task'[c] = Looking(t)
    <3>1. task'[c].op = t.op /\ task'[c].prev = t.prev /\ task'[c].pc \in {"get", "names"}
      BY <1>1, <2>4 DEF Looking, Field
    <3> QED BY <2>1, <3>1 DEF PollInv
  <2>5. CASE task'[c].pc # "sleep" /\ task'[c].op = t.op /\ task'[c].prev = t.prev
    BY <2>1, <2>5 DEF PollInv
  <2> QED BY <1>4, <2>2, <2>3, <2>4, <2>5, CommandShapes
<1> QED BY <1>2, <1>3, <1>4

LEMMA PollStep == Base /\ PollInv /\ [Next]_vars => PollInv'
<1> SUFFICES ASSUME Base, PollInv, [Next]_vars, NEW c \in Terminal
             PROVE  /\ (task[c].op = "watch" => \A r \in task[c].held : Watched(task[c], r))'
                    /\ (task[c].op = "follow" => line[c] = task[c].prev)'
                    /\ (task[c].pc = "sleep" => task[c].prev = Sentence(Ids(task[c].rows)))'
  BY DEF PollInv
<1>1. Fit(task'[c]) /\ task'[c].held \subseteq Record
  BY NextBase DEF Base, TasksOK, Fit, Shaped
<1>2. Drifts
  BY NextFlows
<1>3. ASSUME task'[c].op = "watch", NEW r \in task'[c].held PROVE Watched(task'[c], r)
  <2>1. CASE Command(c)
    BY <1>1, <1>3, <2>1, CommandWatches
  <2>2. CASE Quiet(c)
    BY <1>3, <2>2 DEF PollInv, Quiet
  <2> QED BY <2>1, <2>2, Alone
<1>4. PICK u : u = task'[c]
  OBVIOUS
<1>5. u.op = "watch" => \A r \in u.held : Watched(u, r)'
  BY <1>1, <1>2, <1>3, <1>4, WatchedStays
<1>6. /\ u.op = "follow" => line'[c] = u.prev
      /\ u.pc = "sleep" => u.prev = Sentence(Ids(u.rows))
  <2>1. CASE Quiet(c)
    BY <1>4, <2>1 DEF PollInv, Quiet
  <2> QED BY <1>4, <2>1, Alone, CommandFollows
<1> QED BY <1>4, <1>5, <1>6

\* A watch gives up only when nothing it began with is unseen any more, and a
\* follow's last line counts what its last poll found (watch.rs run, inbox.rs
\* follow).
THEOREM NothingSilent == Spec => []NothingUntold
<1>1. Init => PollInv
  BY DEF Init, PollInv, Idle
<1>2. Base /\ PollInv => NothingUntold
  <2> SUFFICES ASSUME Base, PollInv, NEW c \in Terminal
               PROVE  /\ At(c, "timeout") => \A r \in task[c].held : ~Unseen(r)
                      /\ At(c, "sleep") => line[c] = Sentence(Ids(task[c].rows))
    BY DEF NothingUntold
  <2>1. Placed(task[c])
    BY TaskFit DEF Fit
  <2> QED BY <2>1 DEF Placed, PollInv, Watched, At
<1> QED BY <1>1, <1>2, InitBase, NextBase, PollStep, PTL DEF Spec

-----------------------------------------------------------------------------
(* NumberStands.  What a listing of inbox/ gathered is what inbox/ holds, but   *)
(* for what is known to have come or gone; so the position a record was printed  *)
(* with is its position in inbox/ until a record at or before it comes or goes.   *)

Agrees(c, ids) == \A x \in Record : x \in changed[c] \/ (In("inbox", x) <=> x \in ids)
Disturbed(c, r) == \E x \in changed[c] : x <= r
Stands(c, n, r) == Disturbed(c, r) \/ (In("inbox", r) /\ n = Position(r, Place("inbox")))
Gathered(t, k) == Ids(RowsOf(t, k))

Listed(c, t) ==
  t.op \in Listing =>
    /\ t.pc = "names" \/ (t.pc = "read" /\ t.k = 1) => Gathered(t, 2) = {}
    /\ t.pc = "read" /\ t.k = 2 =>
         Agrees(c, t.todo \union Gathered(t, 2)) /\ t.todo \intersect Gathered(t, 2) = {}
    /\ t.pc \in {"print", "markers", "saveMarkers"} => Agrees(c, Gathered(t, 2))

Numbering(c, t) ==
  t.op = "number" =>
    /\ t.arg \in numbered[c]
    /\ t.pc = "names" => t.rows = {}
    /\ t.pc = "read" =>
         Agrees(c, t.todo \union Ids(t.rows)) /\ t.todo \intersect Ids(t.rows) = {}
    /\ t.pc = "resolve" => Agrees(c, Ids(t.rows))
    /\ t.pc = "end" => t.read = t.arg[2] \/ Disturbed(c, t.arg[2])

NumberInv == \A c \in Terminal :
  /\ \A p \in numbered[c] : Stands(c, p[1], p[2])
  /\ Listed(c, task[c])
  /\ Numbering(c, task[c])

(* Positions in a set of numbers. *)
LEMMA PositionIsTheirs ==
  ASSUME NEW ids, ids \subseteq Nat, NEW r \in ids, NEW s \in ids,
         Position(r, ids) = Position(s, ids)
  PROVE  r = s
<1>1. ASSUME NEW x \in ids, NEW y \in ids, x < y PROVE Position(x, ids) # Position(y, ids)
  <2> DEFINE X == {z \in ids : z <= x}
             Y == {z \in ids : z <= y}
  <2>1. IsFiniteSet(Y)
    BY PositionIsNat
  <2>2. X \subseteq Y /\ y \in Y /\ y \notin X
    <3>1. x \in Nat /\ y \in Nat /\ \A z \in ids : z \in Nat
      OBVIOUS
    <3>2. \A z \in ids : z <= x => z <= y
      BY <1>1, <3>1
    <3>3. y <= y /\ ~(y <= x)
      BY <1>1, <3>1
    <3> QED BY <3>2, <3>3
  <2> HIDE DEF X, Y
  <2>3. Cardinality(X) # Cardinality(Y)
    BY <2>1, <2>2, FS_Subset
  <2> QED BY <2>3 DEF Position, X, Y
<1>2. r < s \/ s < r \/ r = s
  OBVIOUS
<1> QED BY <1>1, <1>2

LEMMA AgreeingPosition ==
  ASSUME NEW c, NEW ids, ids \subseteq Record, Agrees(c, ids), NEW r \in Record, ~Disturbed(c, r)
  PROVE  /\ r \in ids <=> In("inbox", r)
         /\ Position(r, ids) = Position(r, Place("inbox"))
<1>1. \A x \in Record : x <= r => (x \in ids <=> In("inbox", x))
  BY DEF Agrees, Disturbed
<1>2. r <= r
  BY ViewsAssumption
<1>3. {x \in ids : x <= r} = {x \in Place("inbox") : x <= r}
  BY <1>1 DEF Place
<1>4. r \in ids <=> r \in Place("inbox")
  BY <1>1, <1>2 DEF Place
<1> QED BY <1>1, <1>2, <1>3, <1>4 DEF Position

(* What a terminal that numbers is told keeps it right. *)
LEMMA AgreesStays ==
  ASSUME Informs, NEW c \in Terminal, task[c].pc # "idle" \/ numbered'[c] # {},
         task[c].op \in Listing \/ numbered[c] # {}
  PROVE  /\ \A ids : Agrees(c, ids) => Agrees(c, ids)'
         /\ \A r : Disturbed(c, r) => Disturbed(c, r)'
  BY DEF Informs, Agrees, Disturbed

LEMMA StandsStays ==
  ASSUME Informs, NEW c \in Terminal, numbered'[c] # {}, numbered[c] # {},
         NEW n, NEW r \in Record, Stands(c, n, r)
  PROVE  Stands(c, n, r)'
<1>1. CASE Disturbed(c, r)
  BY <1>1, AgreesStays DEF Stands
<1>2. CASE Disturbed(c, r)'
  BY <1>2 DEF Stands
<1>3. CASE ~Disturbed(c, r) /\ ~Disturbed(c, r)'
  <2>1. PICK here : here = Place("inbox")
    OBVIOUS
  <2>2. here \subseteq Record /\ Agrees(c, here)
    BY <2>1 DEF Place, Agrees
  <2>3. Agrees(c, here)'
    BY <2>2, AgreesStays
  <2>4. r \in here /\ n = Position(r, here)
    BY <1>3, <2>1 DEF Stands, Place
  <2>5. \A x \in Record : x <= r => (x \in here <=> In("inbox", x)')
    BY <1>3, <2>3 DEF Agrees, Disturbed
  <2>6. r <= r
    BY ViewsAssumption
  <2>7. {x \in here : x <= r} = {x \in Place("inbox")' : x <= r}
    BY <2>2, <2>5 DEF Place
  <2>8. r \in Place("inbox")' /\ In("inbox", r)'
    BY <2>4, <2>5, <2>6 DEF Place
  <2>9. Position(r, here) = Position(r, Place("inbox")')
    BY <2>4, <2>7, <2>8 DEF Position
  <2> QED BY <2>4, <2>8, <2>9 DEF Stands
<1> QED BY <1>1, <1>2, <1>3

LEMMA ListedStays ==
  ASSUME Informs, NEW c \in Terminal, NEW t, Listed(c, t),
         t.op \in Listing => task[c].op \in Listing /\ task[c].pc # "idle"
  PROVE  Listed(c, t)'
  BY AgreesStays DEF Listed, Gathered

LEMMA NumberingStays ==
  ASSUME Informs, NEW c \in Terminal, NEW t, Numbering(c, t),
         t.op = "number" => numbered'[c] = numbered[c]
  PROVE  Numbering(c, t)'
<1> SUFFICES ASSUME t.op = "number" PROVE Numbering(c, t)'
  BY DEF Numbering
<1>1. numbered'[c] # {} /\ numbered[c] # {} /\ t.arg \in numbered'[c]
  BY DEF Numbering
<1>2. /\ \A ids : Agrees(c, ids) => Agrees(c, ids)'
      /\ \A r : Disturbed(c, r) => Disturbed(c, r)'
  BY <1>1, AgreesStays
<1> QED BY <1>1, <1>2 DEF Numbering

(* A listing of inbox/ goes on: a name is read while its record is there, or is *)
(* skipped when it has gone.                                                     *)
LEMMA ReadGathers ==
  ASSUME Base, NEW c \in Terminal, NEW x \in Record, ReadRecord(c, x),
         task[c].op \in Listing \union {"number"}
  PROVE  LET t == task[c]
             u == task'[c]
             more == IF In("inbox", x) THEN {x} ELSE {}
         IN /\ t.pc = "read" /\ x \in t.todo /\ t.k \in 1..2
            /\ u.pc = "read" /\ u.op = t.op /\ u.arg = t.arg /\ u.k = t.k /\ u.todo = t.todo \ {x}
            /\ t.op # "number" /\ t.k = 2 => Gathered(u, 2) = Gathered(t, 2) \union more
            /\ t.k = 1 => Gathered(u, 2) = Gathered(t, 2)
            /\ t.op = "number" => Ids(u.rows) = Ids(t.rows) \union more
<1> DEFINE t == task[c]
           copy == store["inbox"][x]
           row == [k |-> t.k, id |-> x, copy |-> copy]
           take == IF copy # None /\ Wanted(t, copy) THEN {row} ELSE {}
           more == IF In("inbox", x) THEN {x} ELSE {}
<1>1. Fit(t) /\ t = [f \in Field |-> t[f]] /\ t.pc = "read" /\ x \in t.todo
  BY TaskFit DEF ReadRecord, At, Fit, Shaped
<1>2. t.k \in 1..2 /\ DirsOf(t.op)[t.k] = "inbox"
  <2>1. CASE t.op \in Listing
    <3>1. DirsOf(t.op) = <<"inbox", "inbox">>
      BY <2>1, DirsOfFacts
    <3>2. t.k \in 1..2
      BY <1>1, <3>1 DEF Fit, Shaped
    <3> QED BY <3>1, <3>2
  <2>2. CASE t.op = "number"
    <3>1. DirsOf(t.op) = <<"inbox">>
      BY <2>2, DirsOfFacts
    <3>2. t.k \in 1..1
      BY <1>1, <3>1 DEF Fit, Shaped
    <3> QED BY <3>1, <3>2
  <2> QED BY <2>1, <2>2
<1>3. Become(c, [t EXCEPT !.todo = @ \ {x}, !.rows = @ \union take])
  BY <1>2 DEF ReadRecord
<1>4. row.k = t.k /\ row.id = x
  OBVIOUS
<1>5. t.op = "number" \/ t.k = 2 => take = IF In("inbox", x) THEN {row} ELSE {}
  BY <1>2 DEF Wanted, In, Listing
<1>6. take \subseteq {row}
  OBVIOUS
<1> HIDE DEF take, row
<1>7. PICK u : u = [t EXCEPT !.todo = t.todo \ {x}, !.rows = t.rows \union take] /\ task'[c] = u
  BY <1>3, Became
<1>8. /\ u.pc = "read" /\ u.op = t.op /\ u.arg = t.arg /\ u.k = t.k /\ u.todo = t.todo \ {x}
      /\ u.rows = t.rows \union take
  BY <1>1, <1>7 DEF Field
<1>9. t.k = 2 /\ t.op # "number" => Gathered(u, 2) = Gathered(t, 2) \union more
  BY <1>4, <1>5, <1>8 DEF Gathered, Ids, RowsOf
<1>10. t.k = 1 => Gathered(u, 2) = Gathered(t, 2)
  BY <1>4, <1>6, <1>8 DEF Gathered, Ids, RowsOf
<1>11. t.op = "number" => Ids(u.rows) = Ids(t.rows) \union more
  BY <1>4, <1>5, <1>8 DEF Ids
<1> QED BY <1>1, <1>2, <1>7, <1>8, <1>9, <1>10, <1>11

LEMMA NamesGathers ==
  ASSUME Base, NEW c \in Terminal, Names(c), task[c].op \in Listing \union {"number"}
  PROVE  LET t == task[c]
             u == task'[c]
         IN /\ t.pc = "names" /\ u.pc = "read" /\ u.op = t.op /\ u.arg = t.arg /\ u.rows = t.rows
            /\ \A x \in Record : x \in u.todo <=> In("inbox", x)
<1> DEFINE t == task[c]
<1>1. Fit(t) /\ t = [f \in Field |-> t[f]] /\ t.pc = "names"
  BY TaskFit DEF Names, At, Fit, Shaped
<1>2. DirsOf(t.op)[t.k] = "inbox"
  <2>1. CASE t.op \in Listing
    <3>1. DirsOf(t.op) = <<"inbox", "inbox">>
      BY <2>1, DirsOfFacts
    <3>2. t.k \in 1..2
      BY <1>1, <3>1 DEF Fit, Shaped
    <3> QED BY <3>1, <3>2
  <2>2. CASE t.op = "number"
    <3>1. DirsOf(t.op) = <<"inbox">>
      BY <2>2, DirsOfFacts
    <3>2. t.k \in 1..1
      BY <1>1, <3>1 DEF Fit, Shaped
    <3> QED BY <3>1, <3>2
  <2> QED BY <2>1, <2>2
<1>3. PICK S : S = {x \in Record : In("inbox", x)}
  OBVIOUS
<1>4. Become(c, [t EXCEPT !.pc = "read", !.todo = S])
  BY <1>2, <1>3 DEF Names
<1>5. task'[c] = [t EXCEPT !.pc = "read", !.todo = S]
  BY <1>4, Became
<1>6. /\ task'[c].pc = "read" /\ task'[c].op = t.op /\ task'[c].arg = t.arg
      /\ task'[c].rows = t.rows /\ task'[c].todo = S
  BY <1>1, <1>5 DEF Field
<1> QED BY <1>1, <1>3, <1>6

LEMMA ListingEndsGathers ==
  ASSUME Base, NEW c \in Terminal, ListingEnds(c), task[c].op \in Listing \union {"number"}
  PROVE  LET t == task[c]
             u == task'[c]
         IN /\ t.pc = "read" /\ t.todo = {} /\ u.op = t.op /\ u.arg = t.arg /\ u.rows = t.rows
            /\ \/ t.op \in Listing /\ t.k = 1 /\ u.pc = "names"
               \/ t.op \in Listing /\ t.k = 2 /\ u.pc \in {"print", "markers"}
               \/ t.op = "number" /\ u.pc = "resolve"
<1> DEFINE t == task[c]
<1>1. Fit(t) /\ t = [f \in Field |-> t[f]] /\ t.pc = "read" /\ t.todo = {}
  BY TaskFit DEF ListingEnds, At, Fit, Shaped
<1>2. PICK n : n = t.k + 1
  OBVIOUS
<1>3. \/ t.k < Len(DirsOf(t.op)) /\ task'[c] = [t EXCEPT !.pc = "names", !.k = n]
      \/ ~(t.k < Len(DirsOf(t.op)))
         /\ task'[c] = [t EXCEPT !.pc = AfterListing(t), !.todo = Ids(RowsOf(t, 1))]
  <2>1. \/ t.k < Len(DirsOf(t.op)) /\ Become(c, [t EXCEPT !.pc = "names", !.k = @ + 1])
        \/ ~(t.k < Len(DirsOf(t.op)))
           /\ Become(c, [t EXCEPT !.pc = AfterListing(t), !.todo = Ids(RowsOf(t, 1))])
    BY DEF ListingEnds
  <2>2. Become(c, [t EXCEPT !.pc = "names", !.k = @ + 1])
          => Become(c, [t EXCEPT !.pc = "names", !.k = n])
    BY <1>2
  <2> QED BY <2>1, <2>2, Became
<1>4. /\ task'[c].op = t.op /\ task'[c].arg = t.arg /\ task'[c].rows = t.rows
      /\ task'[c].pc = IF t.k < Len(DirsOf(t.op)) THEN "names" ELSE AfterListing(t)
  BY <1>1, <1>3 DEF Field
<1>5. CASE t.op \in Listing
  <2>1. Len(DirsOf(t.op)) = 2
    BY <1>5, DirsOfFacts
  <2>2. t.k \in 1..Len(DirsOf(t.op))
    BY <1>1 DEF Fit, Shaped
  <2>3. t.k = 1 \/ t.k = 2
    BY <2>1, <2>2
  <2>4. AfterListing(t) \in {"print", "markers"}
    BY <1>5 DEF AfterListing, Listing
  <2>5. CASE t.k = 1
    <3>1. t.k < Len(DirsOf(t.op))
      BY <2>1, <2>5
    <3>2. task'[c].pc = "names"
      BY <1>4, <3>1
    <3> QED BY <1>1, <1>4, <1>5, <2>5, <3>2
  <2>6. CASE t.k = 2
    <3>1. ~(t.k < Len(DirsOf(t.op)))
      BY <2>1, <2>6
    <3>2. task'[c].pc = AfterListing(t)
      BY <1>4, <3>1
    <3> QED BY <1>1, <1>4, <1>5, <2>4, <2>6, <3>2
  <2> QED BY <2>3, <2>5, <2>6
<1>6. CASE t.op = "number"
  <2>1. Len(DirsOf(t.op)) = 1
    BY <1>6, DirsOfFacts
  <2>2. t.k \in 1..1
    BY <1>1, <2>1 DEF Fit, Shaped
  <2>3. ~(t.k < Len(DirsOf(t.op)))
    BY <2>1, <2>2
  <2>4. AfterListing(t) = "resolve"
    BY <1>6 DEF AfterListing
  <2> QED BY <1>1, <1>4, <1>6, <2>3, <2>4
<1> QED BY <1>5, <1>6

LEMMA CommandLists ==
  ASSUME Base, NumberInv, NEW c \in Terminal, Command(c)
  PROVE  Listed(c, task'[c])
<1> DEFINE t == task[c]
<1> SUFFICES ASSUME task'[c].op \in Listing PROVE Listed(c, task'[c])
  BY DEF Listed
<1>1. Fit(t) /\ t = [f \in Field |-> t[f]] /\ Listed(c, t)
  BY TaskFit DEF Fit, Shaped, NumberInv
<1>2. CASE \E op \in Ops : Begin(c, op)
  <2>1. task'[c].rows = {} /\ task'[c].pc = "names"
    BY <1>2, BeginLooks DEF Listing
  <2>2. Gathered(task'[c], 2) = {}
    BY <2>1 DEF Gathered, RowsOf, Ids
  <2> QED BY <2>1, <2>2 DEF Listed
<1>3. CASE task'[c] = t
  BY <1>1, <1>3
<1>4. CASE task'[c] = Idle
  BY <1>4 DEF Idle, Listing
<1>5. CASE Watch(c) \/ FollowOn(c) \/ Follow(c)
  <2>1. t.op \notin Listing
    BY <1>1, <1>5 DEF Watch, FollowOn, Follow, At, Fit, Placed, Listing
  <2>2. CASE task'[c] = Looking(t)
    BY <1>1, <2>1, <2>2 DEF Looking, Field
  <2>3. CASE \E x : task'[c] = [t EXCEPT !.pc = "sleep", !.prev = x]
    BY <1>1, <2>1, <2>3 DEF Field
  <2> QED BY <1>2, <1>3, <1>4, <2>1, <2>2, <2>3, CommandShapes
<1>6. ASSUME t.op \in Listing, Names(c) PROVE Listed(c, task'[c])
  <2>1. /\ t.pc = "names" /\ task'[c].pc = "read" /\ task'[c].rows = t.rows
        /\ \A x \in Record : x \in task'[c].todo <=> In("inbox", x)
    BY <1>6, NamesGathers
  <2>2. Gathered(task'[c], 2) = {}
    BY <1>1, <1>6, <2>1 DEF Listed, Gathered, RowsOf
  <2>3. Agrees(c, task'[c].todo \union Gathered(task'[c], 2))
    BY <2>1, <2>2 DEF Agrees
  <2> QED BY <2>1, <2>2, <2>3 DEF Listed
<1>7. ASSUME t.op \in Listing, NEW x \in Record, ReadRecord(c, x) PROVE Listed(c, task'[c])
  <2>0. PICK u, more : u = task'[c] /\ more = IF In("inbox", x) THEN {x} ELSE {}
    OBVIOUS
  <2>1. /\ t.pc = "read" /\ x \in t.todo /\ t.k \in 1..2
        /\ u.pc = "read" /\ u.k = t.k /\ u.todo = t.todo \ {x} /\ u.op = t.op
        /\ t.k = 2 => Gathered(u, 2) = Gathered(t, 2) \union more
        /\ t.k = 1 => Gathered(u, 2) = Gathered(t, 2)
    <3>1. t.op # "number"
      BY <1>7 DEF Listing
    <3> QED BY <1>7, <2>0, <3>1, ReadGathers
  <2>2. CASE t.k = 1
    <3>1. Gathered(u, 2) = {}
      BY <1>1, <1>7, <2>1, <2>2 DEF Listed
    <3> QED BY <2>0, <2>1, <2>2, <3>1 DEF Listed
  <2>3. CASE t.k = 2
    <3>1. Agrees(c, t.todo \union Gathered(t, 2)) /\ t.todo \intersect Gathered(t, 2) = {}
      BY <1>1, <1>7, <2>1, <2>3 DEF Listed
    <3>2. Agrees(c, u.todo \union Gathered(u, 2)) /\ u.todo \intersect Gathered(u, 2) = {}
      BY <2>0, <2>1, <2>3, <3>1 DEF Agrees
    <3> QED BY <2>0, <2>1, <2>3, <3>2 DEF Listed
  <2>4. t.k = 1 \/ t.k = 2
    BY <2>1
  <2> QED BY <2>2, <2>3, <2>4
<1>8. ASSUME t.op \in Listing, ListingEnds(c) PROVE Listed(c, task'[c])
  <2>1. PICK u : /\ u = task'[c] /\ t.pc = "read" /\ t.todo = {} /\ u.rows = t.rows
                 /\ \/ t.k = 1 /\ u.pc = "names"
                    \/ t.k = 2 /\ u.pc \in {"print", "markers"}
    BY <1>8, ListingEndsGathers DEF Listing
  <2>2. Gathered(u, 2) = Gathered(t, 2)
    BY <2>1 DEF Gathered, RowsOf
  <2>3. t.k = 1 => Gathered(t, 2) = {}
    BY <1>1, <1>8, <2>1 DEF Listed
  <2>4. t.k = 2 => Agrees(c, Gathered(t, 2))
    <3>1. t.k = 2 => Agrees(c, t.todo \union Gathered(t, 2))
      BY <1>1, <1>8, <2>1 DEF Listed
    <3>2. t.todo \union Gathered(t, 2) = Gathered(t, 2)
      BY <2>1
    <3> QED BY <3>1, <3>2
  <2> QED BY <2>1, <2>2, <2>3, <2>4 DEF Listed
<1>9. ASSUME t.op \in Listing, LoadMarkers(c) \/ SaveMarkers(c) PROVE Listed(c, task'[c])
  <2>1. \/ \E x : task'[c] = [t EXCEPT !.pc = "saveMarkers", !.read = x]
        \/ \E x : task'[c] = [t EXCEPT !.pc = "print", !.read = x]
    BY <1>9, Became DEF LoadMarkers, SaveMarkers
  <2>2. PICK u : u = task'[c]
    OBVIOUS
  <2>3. u.pc \in {"saveMarkers", "print"} /\ u.rows = t.rows
    BY <1>1, <2>1, <2>2 DEF Field
  <2>4. Gathered(u, 2) = Gathered(t, 2)
    BY <2>3 DEF Gathered, RowsOf
  <2>5. Agrees(c, Gathered(t, 2))
    BY <1>1, <1>9 DEF LoadMarkers, SaveMarkers, At, Listed
  <2> QED BY <2>2, <2>3, <2>4, <2>5 DEF Listed
<1>10. ASSUME PrintRows(c) \/ MarkRead(c) \/ MarkWrite(c) PROVE Listed(c, task'[c])
  <2>1. \/ Become(c, Idle)
        \/ \E S : Become(c, [t EXCEPT !.pc = "mark", !.todo = S])
        \/ t.pc = "mark" /\ Become(c, [t EXCEPT !.todo = @ \ {Min(t.todo)}])
        \/ \E x : Become(c, [t EXCEPT !.pc = "put", !.read = x])
        \/ \E x, S : Become(c, [t EXCEPT !.pc = "mark", !.read = x, !.todo = S])
    BY <1>10 DEF PrintRows, MarkRead, MarkWrite, At
  <2>2. [t EXCEPT !.todo = @ \ {Min(t.todo)}] = [t EXCEPT !.todo = t.todo \ {Min(t.todo)}]
    OBVIOUS
  <2>3. \/ task'[c] = Idle
        \/ \E S : task'[c] = [t EXCEPT !.pc = "mark", !.todo = S]
        \/ t.pc = "mark" /\ task'[c] = [t EXCEPT !.todo = t.todo \ {Min(t.todo)}]
        \/ \E x : task'[c] = [t EXCEPT !.pc = "put", !.read = x]
        \/ \E x, S : task'[c] = [t EXCEPT !.pc = "mark", !.read = x, !.todo = S]
    BY <2>1, <2>2, Became
  <2>4. task'[c].pc \in {"idle", "mark", "put"}
    <3>1. CASE task'[c] = Idle
      BY <3>1 DEF Idle
    <3>2. CASE \E S : task'[c] = [t EXCEPT !.pc = "mark", !.todo = S]
      BY <1>1, <3>2 DEF Field
    <3>3. CASE t.pc = "mark" /\ task'[c] = [t EXCEPT !.todo = t.todo \ {Min(t.todo)}]
      BY <1>1, <3>3 DEF Field
    <3>4. CASE \E x : task'[c] = [t EXCEPT !.pc = "put", !.read = x]
      BY <1>1, <3>4 DEF Field
    <3>5. CASE \E x, S : task'[c] = [t EXCEPT !.pc = "mark", !.read = x, !.todo = S]
      BY <1>1, <3>5 DEF Field
    <3> QED BY <2>3, <3>1, <3>2, <3>3, <3>4, <3>5
  <2> QED BY <2>4 DEF Listed
<1>11. ASSUME MarkEnds(c) \/ ReaderGone(c) \/ End(c) \/ Interrupt(c) PROVE task'[c] = Idle
  BY <1>11, Became DEF MarkEnds, ReaderGone, End, Interrupt
<1>12. ASSUME LookUp(c) \/ Resolve(c) \/ Tell(c) PROVE t.op \notin Listing
  BY <1>1, <1>12 DEF LookUp, Resolve, Tell, At, Fit, Placed, Listing
<1>13. CASE t.op \in Listing
  BY <1>2, <1>3, <1>4, <1>5, <1>6, <1>7, <1>8, <1>9, <1>10, <1>11, <1>12, <1>13 DEF Command, RemoveMarker
<1>14. CASE t.op \notin Listing
  BY <1>2, <1>3, <1>4, <1>5, <1>14, CommandShapes
<1> QED BY <1>13, <1>14

(* The #N itself: found again where it was, unless something changed before it. *)
LEMMA ResolvedIsIt ==
  ASSUME Base, NEW c \in Terminal, NEW t, Ids(t.rows) \subseteq Record, Agrees(c, Ids(t.rows)),
         NEW n, NEW r \in Record, t.arg = <<n, r>>, Stands(c, n, r)
  PROVE  Resolved(t) = r \/ Disturbed(c, r)
<1> SUFFICES ASSUME ~Disturbed(c, r) PROVE Resolved(t) = r
  OBVIOUS
<1> DEFINE ids == Ids(t.rows)
           found == {x \in ids : Position(x, ids) = t.arg[1]}
<1>1. In("inbox", r) /\ n = Position(r, Place("inbox"))
  BY DEF Stands
<1>2. r \in ids /\ Position(r, ids) = n
  BY <1>1, AgreeingPosition
<1>3. ids \subseteq Nat
  BY ViewsAssumption
<1>4. found = {r}
  <2>1. r \in found
    BY <1>2
  <2>2. \A x \in found : x = r
    BY <1>2, <1>3, PositionIsTheirs
  <2> QED BY <2>1, <2>2
<1>5. Resolved(t) = CHOOSE x \in found : TRUE
  BY <1>4 DEF Resolved
<1> QED BY <1>4, <1>5

LEMMA CommandNumbers ==
  ASSUME Base, NumberInv, NEW c \in Terminal, Command(c)
  PROVE  Numbering(c, task'[c])
<1> DEFINE t == task[c]
<1> SUFFICES ASSUME task'[c].op = "number" PROVE Numbering(c, task'[c])
  BY DEF Numbering
<1>1. Fit(t) /\ t = [f \in Field |-> t[f]] /\ Numbering(c, t)
  BY TaskFit DEF Fit, Shaped, NumberInv
<1>2. CASE \E op \in Ops : Begin(c, op)
  <2>1. /\ task'[c].rows = {} /\ task'[c].pc = "names" /\ task'[c].arg \in Arguments(c, "number")
    BY <1>2, BeginLooks
  <2> QED BY <2>1 DEF Arguments, Numbering
<1>3. CASE task'[c] = t
  BY <1>1, <1>3
<1>4. CASE task'[c] = Idle
  BY <1>4 DEF Idle
<1>5. CASE Watch(c) \/ FollowOn(c) \/ Follow(c)
  <2>1. t.op # "number"
    BY <1>1, <1>5 DEF Watch, FollowOn, Follow, At, Fit, Placed
  <2>2. CASE task'[c] = Looking(t)
    BY <1>1, <2>1, <2>2 DEF Looking, Field
  <2>3. CASE \E x : task'[c] = [t EXCEPT !.pc = "sleep", !.prev = x]
    BY <1>1, <2>1, <2>3 DEF Field
  <2> QED BY <1>2, <1>3, <1>4, <2>1, <2>2, <2>3, CommandShapes
<1>6. ASSUME t.op = "number", Names(c) PROVE Numbering(c, task'[c])
  <2>1. PICK u : u = task'[c]
    OBVIOUS
  <2>2. /\ t.pc = "names" /\ u.pc = "read" /\ u.rows = t.rows /\ u.arg = t.arg
        /\ \A x \in Record : x \in u.todo <=> In("inbox", x)
    BY <1>6, <2>1, NamesGathers
  <2>3. Ids(u.rows) = {} /\ t.arg \in numbered[c]
    BY <1>1, <1>6, <2>2 DEF Numbering, Ids
  <2>4. Agrees(c, u.todo \union Ids(u.rows))
    BY <2>2, <2>3 DEF Agrees
  <2> QED BY <2>1, <2>2, <2>3, <2>4 DEF Numbering
<1>7. ASSUME t.op = "number", NEW x \in Record, ReadRecord(c, x) PROVE Numbering(c, task'[c])
  <2>1. PICK u, more : u = task'[c] /\ more = IF In("inbox", x) THEN {x} ELSE {}
    OBVIOUS
  <2>2. /\ t.pc = "read" /\ x \in t.todo /\ u.pc = "read" /\ u.todo = t.todo \ {x} /\ u.arg = t.arg
        /\ Ids(u.rows) = Ids(t.rows) \union more
    BY <1>7, <2>1, ReadGathers
  <2>3. /\ Agrees(c, t.todo \union Ids(t.rows)) /\ t.todo \intersect Ids(t.rows) = {}
        /\ t.arg \in numbered[c]
    BY <1>1, <1>7, <2>2 DEF Numbering
  <2>4. Agrees(c, u.todo \union Ids(u.rows)) /\ u.todo \intersect Ids(u.rows) = {}
    BY <2>1, <2>2, <2>3 DEF Agrees
  <2> QED BY <2>1, <2>2, <2>3, <2>4 DEF Numbering
<1>8. ASSUME t.op = "number", ListingEnds(c) PROVE Numbering(c, task'[c])
  <2>1. PICK u : u = task'[c]
    OBVIOUS
  <2>2. t.pc = "read" /\ t.todo = {} /\ u.rows = t.rows /\ u.arg = t.arg /\ u.pc = "resolve"
    <3>1. t.op \notin Listing
      BY <1>8 DEF Listing
    <3> QED BY <1>8, <2>1, <3>1, ListingEndsGathers
  <2>3. Agrees(c, t.todo \union Ids(t.rows)) /\ t.arg \in numbered[c]
    BY <1>1, <1>8, <2>2 DEF Numbering
  <2>4. t.todo \union Ids(t.rows) = Ids(u.rows)
    BY <2>2
  <2>5. Agrees(c, Ids(u.rows))
    BY <2>3, <2>4
  <2> QED BY <2>1, <2>2, <2>3, <2>5 DEF Numbering
<1>9. ASSUME Resolve(c) PROVE Numbering(c, task'[c])
  <2>1. task'[c] = [t EXCEPT !.pc = "end", !.read = Resolved(t)] /\ t.pc = "resolve"
    BY <1>9, Became DEF Resolve, At
  <2>2. t.op = "number" /\ t.arg \in numbered[c] /\ Agrees(c, Ids(t.rows))
    BY <1>1, <2>1 DEF Fit, Placed, Numbering
  <2>3. Ids(t.rows) \subseteq Record
    BY RowsAreRecords
  <2>4. PICK n \in Nat, r \in Record : t.arg = <<n, r>>
    BY <2>2 DEF Base, HistoryOK
  <2>5. Stands(c, t.arg[1], t.arg[2])
    BY <2>2 DEF NumberInv
  <2>6. t.arg[1] = n /\ t.arg[2] = r
    BY <2>4
  <2>7. Resolved(t) = r \/ Disturbed(c, r)
    BY <2>2, <2>3, <2>4, <2>5, <2>6, ResolvedIsIt
  <2>8. task'[c].pc = "end" /\ task'[c].read = Resolved(t) /\ task'[c].arg = t.arg
    BY <1>1, <2>1 DEF Field
  <2> QED BY <2>2, <2>6, <2>7, <2>8 DEF Numbering
<1>10. ASSUME MarkEnds(c) \/ ReaderGone(c) \/ End(c) \/ Interrupt(c) PROVE task'[c] = Idle
  BY <1>10, Became DEF MarkEnds, ReaderGone, End, Interrupt
<1>11. ASSUME \/ PrintRows(c) \/ MarkRead(c) \/ MarkWrite(c) \/ LoadMarkers(c) \/ SaveMarkers(c)
              \/ LookUp(c) \/ Tell(c)
       PROVE  t.op # "number"
  BY <1>1, <1>11 DEF PrintRows, MarkRead, MarkWrite, LoadMarkers, SaveMarkers, LookUp, Tell, At, Fit,
                     Placed, Listing
<1>12. CASE t.op = "number"
  BY <1>2, <1>3, <1>5, <1>6, <1>7, <1>8, <1>9, <1>10, <1>11, <1>12, <1>4 DEF Command, RemoveMarker
<1>13. CASE t.op # "number"
  BY <1>2, <1>3, <1>4, <1>5, <1>13, CommandShapes
<1> QED BY <1>12, <1>13

(* The numbers a listing prints are those of inbox/ as it was listed. *)
LEMMA PrintStands ==
  ASSUME Base, NumberInv, NEW c \in Terminal, PrintRows(c), NEW p \in numbered'[c]
  PROVE  Stands(c, p[1], p[2])'
<1> DEFINE t == task[c]
           ids == Gathered(t, 2)
<1>1. t.op \in Listing /\ t.pc = "print"
  BY TaskFit DEF PrintRows, At, Fit, Placed
<1>2. Agrees(c, ids) /\ ids \subseteq Record
  BY <1>1, RowsAreRecords DEF NumberInv, Listed, Gathered
<1>3. numbered'[c] = {q \in Numbers(t) : q[1] > 0}
  BY DEF PrintRows, Base, HistoryOK
<1>4. PICK r \in Ids(RowsOf(t, 1)) : p = <<Number(t, r), r>> /\ p[1] > 0
  BY <1>3 DEF Numbers
<1>5. r \in Record /\ Number(t, r) = Position(r, ids) /\ Position(r, ids) > 0
  BY <1>4, RowsAreRecords DEF Number, Gathered
<1>6. r \in ids
  BY <1>5 DEF Position
<1>7. Stands(c, Position(r, ids), r)
  BY <1>2, <1>5, <1>6, AgreeingPosition DEF Stands
<1>8. PICK n : n = Position(r, ids)
  OBVIOUS
<1>9. Stands(c, n, r)'
  BY <1>7, <1>8 DEF PrintRows, spool, Stands, Disturbed, In, Place
<1> QED BY <1>4, <1>5, <1>8, <1>9

LEMMA NumbersKept ==
  ASSUME NEW c \in Terminal, Command(c)
  PROVE  UNCHANGED numbered \/ PrintRows(c) \/ \E op \in Ops \ {"number"} : Begin(c, op)
<1>1. ASSUME NEW op \in Ops, Begin(c, op) PROVE UNCHANGED numbered \/ op # "number"
  BY <1>1 DEF Begin
<1> QED BY <1>1 DEF Command, Names, ReadRecord, ListingEnds, LoadMarkers, SaveMarkers, MarkRead, MarkWrite,
         MarkEnds, Watch, Follow, FollowOn, ReaderGone, RemoveMarker, LookUp, Resolve, Tell, End,
         Interrupt, history

LEMMA NumberStep == Base /\ NumberInv /\ [Next]_vars => NumberInv'
<1> SUFFICES ASSUME Base, NumberInv, [Next]_vars, NEW c \in Terminal
             PROVE  /\ (\A p \in numbered[c] : Stands(c, p[1], p[2]))'
                    /\ Listed(c, task[c])'
                    /\ Numbering(c, task[c])'
  BY DEF NumberInv
<1>1. Informs /\ Fit(task[c])
  BY NextFlows, TaskFit
<1>2. PICK u : u = task'[c]
  OBVIOUS
<1>3. Command(c) \/ Quiet(c)
  BY Alone
<1>4. ASSUME NEW p \in numbered'[c] PROVE Stands(c, p[1], p[2])'
  <2>1. CASE numbered'[c] = numbered[c]
    <3>1. p \in Nat \X Record /\ Stands(c, p[1], p[2])
      BY <1>4, <2>1 DEF Base, HistoryOK, NumberInv
    <3>2. PICK n, r : n = p[1] /\ r = p[2] /\ r \in Record
      BY <3>1
    <3>3. Stands(c, n, r)'
      BY <1>1, <1>4, <2>1, <3>1, <3>2, StandsStays
    <3> QED BY <3>2, <3>3
  <2>2. CASE PrintRows(c)
    BY <1>4, <2>2, PrintStands
  <2>3. CASE \E op \in Ops \ {"number"} : Begin(c, op)
    <3>1. numbered'[c] = {}
      BY <2>3 DEF Begin, Base, HistoryOK
    <3> QED BY <1>4, <3>1
  <2> QED BY <1>3, <2>1, <2>2, <2>3, NumbersKept DEF Quiet
<1>5. Listed(c, u)'
  <2>1. Listed(c, u)
    BY <1>2, <1>3, CommandLists DEF Quiet, NumberInv
  <2>2. CASE u.op \in Listing /\ u.op = task[c].op
    <3>1. task[c].pc # "idle"
      BY <1>1, <2>2 DEF Fit, Placed, Listing
    <3> QED BY <1>1, <2>1, <2>2, <3>1, ListedStays
  <2>3. CASE u.op \notin Listing
    BY <2>3 DEF Listed
  <2>4. CASE \E op \in Ops : Begin(c, op)
    <3>1. u.rows = {} /\ u.pc \in {"get", "names"}
      BY <1>2, <2>4, BeginLooks
    <3>2. Gathered(u, 2) = {}
      BY <3>1 DEF Gathered, RowsOf, Ids
    <3> QED BY <3>1, <3>2 DEF Listed
  <2>5. ASSUME Command(c), ~(\E op \in Ops : Begin(c, op)) PROVE u.op = task[c].op \/ u.op \notin Listing
    <3>1. task[c] = [f \in Field |-> task[c][f]]
      BY <1>1 DEF Fit, Shaped
    <3>2. Looking(task[c]).op = task[c].op
      BY <3>1 DEF Looking, Field
    <3>3. [task[c] EXCEPT !.pc = "sleep", !.prev = Sentence(Ids(task[c].rows))].op = task[c].op
      BY <3>1 DEF Field
    <3>4. Idle.op \notin Listing
      BY DEF Idle, Listing
    <3> QED BY <1>2, <2>5, <3>2, <3>3, <3>4, CommandShapes
  <2> QED BY <1>2, <1>3, <2>2, <2>3, <2>4, <2>5 DEF Quiet
<1>6. Numbering(c, u)'
  <2>1. Numbering(c, u)
    BY <1>2, <1>3, CommandNumbers DEF Quiet, NumberInv
  <2>2. u.op = "number" => numbered'[c] = numbered[c]
    <3>1. PrintRows(c) => u.op # "number"
      <4>1. ASSUME PrintRows(c) PROVE u.op = task[c].op
        <5>1. task[c] = [f \in Field |-> task[c][f]]
          BY <1>1 DEF Fit, Shaped
        <5>2. u = [task[c] EXCEPT !.pc = "mark", !.todo = ToMark(task[c])]
          BY <1>2, <4>1, Became DEF PrintRows
        <5> QED BY <5>1, <5>2 DEF Field
      <4> QED BY <1>1, <4>1 DEF PrintRows, At, Fit, Placed, Listing
    <3>2. (\E op \in Ops \ {"number"} : Begin(c, op)) => u.op # "number"
      BY <1>2, BeginLooks
    <3> QED BY <1>3, <3>1, <3>2, NumbersKept DEF Quiet
  <2> QED BY <1>1, <2>1, <2>2, NumberingStays
<1> QED BY <1>2, <1>4, <1>5, <1>6

\* A `#N` finds the record it stood beside in the last listing printed here, as
\* long as no record at or before it has come to or left inbox/ since that
\* listing began (inbox.rs run, lib.rs resolve of the number).
THEOREM NumbersStand == Spec => []NumberStands
<1>1. Init => NumberInv
  BY DEF Init, NumberInv, Listed, Numbering, Idle, Listing
<1>2. NumberInv => NumberStands
  BY DEF NumberInv, Numbering, NumberStands, Disturbed, At
<1> QED BY <1>1, <1>2, InitBase, NextBase, NumberStep, PTL DEF Spec
=============================================================================
