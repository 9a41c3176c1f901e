---------------------------- MODULE ReplayWindow ----------------------------
(***************************************************************************)
(* The replay window of the daemon: a request is accepted when its time     *)
(* stamp is fresh and its id is not among the seen ids.  The ids live in    *)
(* memory and in seen-ids.txt, which is rewritten in place under a mutex    *)
(* and read, pruned, at start.  The duplicate check, the write to inbox/    *)
(* and the entry of the id are separate steps of a request handler.         *)
(* Time is the machine's clock, taken to move forward only.                 *)
(*                                                                         *)
(* An operator right before a definition, with the same parameters, is a   *)
(* faulty variant of it that the properties are tried against.             *)
(***************************************************************************)
EXTENDS Integers, FiniteSets

CONSTANTS
  Id, Handler,
  Stamp,      \* the time stamp (`ts`) each request was signed with
  Window,     \* REPLAY_WINDOW_SECS
  Ttl,        \* SEEN_IDS_TTL_SECS
  NoId, Nobody,
  MaxTime     \* bound: the clock

ASSUME ReplayAssumption ==
  /\ Stamp \in [Id -> Nat] /\ Window \in Nat /\ Ttl \in Nat /\ MaxTime \in Nat
  /\ Ttl >= 2 * Window
  /\ NoId \notin Id /\ Nobody \notin Handler

VARIABLES
  now,         \* the clock
  seen,        \* SeenIds.ids in memory: [id, at]
  file,        \* seen-ids.txt
  lock,        \* the holder of the seen mutex
  task,        \* what each handler is doing
  torn,        \* seen-ids.txt was truncated and not written again
  remembered,  \* history: ids whose acceptance was completed
  replayed,    \* history: ids accepted again after that
  lost         \* history: a restart read a torn file

vars == <<now, seen, file, lock, task, torn, remembered, replayed, lost>>

Entry == [id : Id, at : Nat]
Task == [pc : {"idle", "spool", "remember", "truncate", "write"}, id : Id \union {NoId},
         at : Nat, late : BOOLEAN]
Idle == [pc |-> "idle", id |-> NoId, at |-> 0, late |-> FALSE]

Ids(S) == {e.id : e \in S}
Become(h, t) == task' = [task EXCEPT ![h] = t]
Goto(h, pc) == Become(h, [task[h] EXCEPT !.pc = pc])

Init ==
  /\ now = 0 /\ seen = {} /\ file = {} /\ lock = Nobody /\ torn = FALSE
  /\ task = [h \in Handler |-> Idle]
  /\ remembered = {} /\ replayed = {} /\ lost = FALSE

-----------------------------------------------------------------------------
FreshOneSided(id) == now - Stamp[id] <= Window
Fresh(id) == now - Stamp[id] <= Window /\ Stamp[id] - now <= Window

Kept(e) == now - e.at <= Ttl
Load(S) == {e \in S : Kept(e)}

(* Both checks of a delivery; the clock was read before them.                *)
Admit(h, id) ==
  /\ task[h].pc = "idle"
  /\ Fresh(id) /\ id \notin Ids(seen)
  /\ Become(h, [pc |-> "spool", id |-> id, at |-> now, late |-> id \in remembered])
  /\ UNCHANGED <<now, seen, file, lock, torn, remembered, replayed, lost>>

Spool(h) ==
  /\ task[h].pc = "spool"
  /\ LET t == task[h]
     IN replayed' = IF t.late THEN replayed \union {t.id} ELSE replayed
  /\ Goto(h, "remember")
  /\ UNCHANGED <<now, seen, file, lock, torn, remembered, lost>>

(* The rate limit or the policy turns the request away after the duplicate      *)
(* check: nothing was written, the id is not remembered.                       *)
Refuse(h) ==
  /\ task[h].pc = "spool"
  /\ Become(h, Idle)
  /\ UNCHANGED <<now, seen, file, lock, torn, remembered, replayed, lost>>

Insert(S, id, at) == IF id \in Ids(S) THEN S ELSE S \union {[id |-> id, at |-> at]}

Remember(h) ==
  /\ task[h].pc = "remember" /\ lock = Nobody
  /\ lock' = h
  /\ seen' = Insert(seen, task[h].id, task[h].at)
  /\ Goto(h, "truncate")
  /\ UNCHANGED <<now, file, torn, remembered, replayed, lost>>

(* fs::write empties the file, then fills it; what a crash in between leaves is   *)
(* a prefix, here the empty one.                                                *)
Truncate(h) ==
  /\ task[h].pc = "truncate"
  /\ file' = {} /\ torn' = TRUE
  /\ Goto(h, "write")
  /\ UNCHANGED <<now, seen, lock, remembered, replayed, lost>>

Write(h) ==
  /\ task[h].pc = "write"
  /\ file' = seen /\ torn' = FALSE
  /\ lock' = Nobody
  /\ remembered' = remembered \union {task[h].id}
  /\ Become(h, Idle)
  /\ UNCHANGED <<now, seen, replayed, lost>>

(* The save fails, before or after the file was emptied: the handler answers   *)
(* 500, the id stays in memory only.                                           *)
SaveFails(h) ==
  /\ task[h].pc \in {"truncate", "write"}
  /\ lock' = Nobody
  /\ Become(h, Idle)
  /\ UNCHANGED <<now, seen, file, torn, remembered, replayed, lost>>

Restart ==
  /\ seen' = Load(file)
  /\ lock' = Nobody
  /\ task' = [h \in Handler |-> Idle]
  /\ lost' = (lost \/ torn)
  /\ UNCHANGED <<now, file, torn, remembered, replayed>>

Tick ==
  /\ now < MaxTime
  /\ now' = now + 1
  /\ UNCHANGED <<seen, file, lock, task, torn, remembered, replayed, lost>>

Next ==
  \/ \E h \in Handler :
       \/ \E id \in Id : Admit(h, id)
       \/ Spool(h) \/ Refuse(h) \/ Remember(h) \/ Truncate(h) \/ Write(h) \/ SaveFails(h)
  \/ Restart \/ Tick

Spec == Init /\ [][Next]_vars

-----------------------------------------------------------------------------
TypeOK ==
  /\ now \in Nat
  /\ seen \subseteq Entry /\ file \subseteq Entry
  /\ lock \in Handler \union {Nobody}
  /\ task \in [Handler -> Task]
  /\ torn \in BOOLEAN /\ lost \in BOOLEAN
  /\ remembered \subseteq Id /\ replayed \subseteq Id

(* A request whose acceptance was completed is never accepted again by a later  *)
(* delivery, however much time passes, whatever handlers overlap and however    *)
(* often the daemon restarts: what the pruning at start forgets is stale by     *)
(* then. A restart that reads a torn file is the one exception.                 *)
NoReplay == lost \/ replayed = {}

=============================================================================
