------------------------------- MODULE Routing ------------------------------
(***************************************************************************)
(* One session wakes per record (route.rs and the hooks of cli/inbox.rs):  *)
(* every interactive session has a directory with a marker and wake files, *)
(* every record a routing that names the session holding it and the ones   *)
(* tried.  Session hooks, the handlers that spool a record, the daemon's   *)
(* lease loop and `owl` commands work on these files without a lock; a     *)
(* file operation is one step, and every routing written was read before.  *)
(***************************************************************************)
EXTENDS Naturals, FiniteSets

CONSTANTS
  Session,      \* session ids; also names the hook process of that session
  Started,      \* sessions that run before the first record arrives
  Record,       \* ids of inbox records; also names the process that spools it
  Cmd,          \* `owl` commands the owner may have running at once
  Lease,        \* the daemon's lease loop
  NoSession, NoRecord, NoRouting,
  MaxCalls,     \* bound: hooks and commands started
  MaxCrashes,   \* bound: daemon restarts
  MaxFaults     \* bound: interrupted hooks and commands, failed writes

Proc == Session \union Record \union Cmd \union {Lease}

ASSUME RoutingAssumption ==
  /\ Started \subseteq Session
  /\ Session \intersect (Record \union Cmd \union {Lease, NoSession}) = {}
  /\ Record \intersect (Cmd \union {Lease, NoRecord}) = {} /\ Lease \notin Cmd
  /\ MaxCalls \in Nat /\ MaxCrashes \in Nat /\ MaxFaults \in Nat

VARIABLES
  inbox,     \* records in inbox/
  seen,      \* those marked seen
  dirs,      \* sessions/<sid>/
  markers,   \* sessions/<sid>/marker.json
  fresh,     \* markers whose heartbeat is young enough and whose pid is not known dead
  wake,      \* sessions/<sid>/wake/<id>.md, as pairs
  routing,   \* spool/routing/<id>.json
  task,      \* what each process is doing
  born,      \* records spooled so far
  calls, crashes, faults,
  told       \* history: pairs of a session and a record it was woken for or found at its start

records == <<inbox, seen, born>>
sessions == <<dirs, markers, fresh>>
bounds == <<calls, crashes, faults>>
vars == <<records, sessions, wake, routing, task, bounds, told>>

-----------------------------------------------------------------------------
(* A routing: the holder, the sessions tried, and whether the lease is over    *)
(* (`routed_at` against the clock); without a holder there is no routed_at.    *)
Routings == {r \in [cur : Session \union {NoSession}, tried : SUBSET Session, late : BOOLEAN] :
               r.cur = NoSession => ~r.late}
Default == [cur |-> NoSession, tried |-> {}, late |-> FALSE]
LoadRouting(r) == IF routing[r] = NoRouting THEN Default ELSE routing[r]

HeldBy(rt, s) == [cur |-> s, tried |-> rt.tried \union {s}, late |-> FALSE]
Cleared(rt) == [rt EXCEPT !.cur = NoSession, !.late = FALSE]

Live == fresh  \* is_live

Pc == {"idle", "get", "pick", "wake", "save", "unwake", "unroute", "unlink", "tick", "judge",
       "rmWake", "sweepScan", "sweep", "backlog", "assign", "assignSave", "endScan", "end",
       "endSave", "beat"}
Op == {"none", "arrive", "route", "lease", "look", "finish", "start", "end", "beat"}
Task == [pc : Pc, op : Op, r : Record \union {NoRecord}, todo : SUBSET Record,
         live : SUBSET Session, copy : Routings]
Idle == [pc |-> "idle", op |-> "none", r |-> NoRecord, todo |-> {}, live |-> {},
         copy |-> Default]

At(p, pc) == task[p].pc = pc
Become(p, t) == task' = [task EXCEPT ![p] = t]
Goto(p, pc) == Become(p, [task[p] EXCEPT !.pc = pc])
Work(op, r, pc) == [Idle EXCEPT !.op = op, !.r = r, !.pc = pc]

(* The end of one record: the lease loop takes the next one, `finish` goes on  *)
(* to remove the inbox file, everything else is done.                          *)
AfterRecord(t) ==
  CASE t.op = "finish" -> [t EXCEPT !.pc = "unlink"]
    [] t.op = "lease" /\ t.todo # {} -> [t EXCEPT !.pc = "tick", !.r = NoRecord, !.copy = Default]
    [] t.op = "start" /\ t.todo # {} -> [t EXCEPT !.pc = "assign", !.r = NoRecord, !.copy = Default]
    [] t.op = "end" /\ t.todo # {} -> [t EXCEPT !.pc = "end", !.r = NoRecord, !.copy = Default]
    [] OTHER -> Idle
EndRecord(p) == Become(p, AfterRecord(task[p]))

Init ==
  /\ inbox = {} /\ seen = {} /\ born = {}
  /\ dirs = Started /\ markers = Started /\ fresh = Started /\ wake = {}
  /\ routing = [r \in Record |-> NoRouting]
  /\ task = [p \in Proc |-> Idle]
  /\ calls = 0 /\ crashes = 0 /\ faults = 0 /\ told = {}

Fault == faults < MaxFaults /\ faults' = faults + 1
Call(p) == At(p, "idle") /\ calls < MaxCalls /\ calls' = calls + 1

-----------------------------------------------------------------------------
(* route: after the spooling of a record, by `owl route` and by the lease loop. *)

Arrive(r) ==
  /\ r \notin born
  /\ born' = born \union {r} /\ inbox' = inbox \union {r}
  /\ Become(r, Work("arrive", r, "get"))
  /\ UNCHANGED <<seen, sessions, wake, routing, bounds, told>>

RouteCmd(c, r) ==
  /\ Call(c) /\ r \in inbox
  /\ Become(c, Work("route", r, "get"))
  /\ UNCHANGED <<records, sessions, wake, routing, crashes, faults, told>>

Get(p) ==
  /\ At(p, "get")
  /\ Goto(p, IF task[p].r \in inbox THEN "pick" ELSE "unwake")
  /\ UNCHANGED <<records, sessions, wake, routing, bounds, told>>

CandidatesTriedToo(rt) == Live
Candidates(rt) == Live \ rt.tried

AfterPickUntold == "save"
AfterPick == "wake"
NobodyLeftAsIs(rt) == rt
NobodyLeft(rt) == Cleared(rt)

(* The routing is read and the live markers listed. Checkout, heartbeat and id *)
(* order the candidates; here any of them may come first.                      *)
Pick(p) ==
  /\ At(p, "pick")
  /\ LET t == task[p]
         rt == LoadRouting(t.r)
     IN \/ \E s \in Candidates(rt) :
             Become(p, [t EXCEPT !.pc = AfterPick, !.copy = HeldBy(rt, s)])
        \/ /\ Candidates(rt) = {}
           /\ IF NobodyLeft(rt) = rt THEN EndRecord(p)
              ELSE Become(p, [t EXCEPT !.pc = "save", !.copy = NobodyLeft(rt)])
  /\ UNCHANGED <<records, sessions, wake, routing, bounds, told>>

(* write_wake creates the session's directory when it is gone.                 *)
WriteWake(p) ==
  /\ At(p, "wake")
  /\ LET t == task[p]
     IN /\ dirs' = dirs \union {t.copy.cur}
        /\ wake' = wake \union {<<t.copy.cur, t.r>>}
        /\ told' = told \union {<<t.copy.cur, t.r>>}
  /\ Goto(p, "save")
  /\ UNCHANGED <<records, markers, fresh, routing, bounds>>

Save(p) ==
  /\ At(p, "save")
  /\ routing' = [routing EXCEPT ![task[p].r] = task[p].copy]
  /\ EndRecord(p)
  /\ UNCHANGED <<records, sessions, wake, bounds, told>>

-----------------------------------------------------------------------------
(* release: every wake file of the record, then its routing.                   *)

Unwake(p) ==
  /\ At(p, "unwake")
  /\ wake' = {w \in wake : w[2] # task[p].r}
  /\ Goto(p, "unroute")
  /\ UNCHANGED <<records, sessions, routing, bounds, told>>

Unroute(p) ==
  /\ At(p, "unroute")
  /\ routing' = [routing EXCEPT ![task[p].r] = NoRouting]
  /\ EndRecord(p)
  /\ UNCHANGED <<records, sessions, wake, bounds, told>>

(* `owl inbox` and `owl show` mark the record seen and release it; `owl draft`  *)
(* and `owl edit` only release it.                                             *)
Look(c, r) ==
  /\ Call(c) /\ r \in inbox
  /\ seen' = seen \union {r} \/ UNCHANGED seen
  /\ Become(c, Work("look", r, "unwake"))
  /\ UNCHANGED <<inbox, born, sessions, wake, routing, crashes, faults, told>>

(* `answer::finish` has written done/<id>.json: it releases, then unlinks.     *)
Finish(c, r) ==
  /\ Call(c) /\ r \in inbox
  /\ Become(c, Work("finish", r, "unwake"))
  /\ UNCHANGED <<records, sessions, wake, routing, crashes, faults, told>>

Unlink(c) ==
  /\ At(c, "unlink")
  /\ inbox' = inbox \ {task[c].r}
  /\ Become(c, Idle)
  /\ UNCHANGED <<seen, born, sessions, wake, routing, bounds, told>>

-----------------------------------------------------------------------------
(* lease_tick: the live sessions and the routings are listed once, then each   *)
(* routing is looked at in turn (in path order; here in any order).            *)

Tick ==
  /\ At(Lease, "idle")
  /\ LET todo == {r \in Record : routing[r] # NoRouting}
     IN Become(Lease, IF todo = {} THEN Idle
                      ELSE [Idle EXCEPT !.op = "lease", !.pc = "tick", !.todo = todo, !.live = Live])
  /\ UNCHANGED <<records, sessions, wake, routing, bounds, told>>

ExamineSkipsGone(r) == IF r \in inbox /\ r \notin seen THEN "judge" ELSE "tick"
Examine(r) ==
  IF r \notin inbox THEN "unwake" ELSE IF r \in seen THEN "tick" ELSE "judge"

LeaseGet(r) ==
  /\ At(Lease, "tick") /\ r \in task[Lease].todo
  /\ LET t == [task[Lease] EXCEPT !.todo = @ \ {r}, !.r = r]
     IN Become(Lease, IF Examine(r) = "tick" THEN AfterRecord(t) ELSE [t EXCEPT !.pc = Examine(r)])
  /\ UNCHANGED <<records, sessions, wake, routing, bounds, told>>

(* A holder that died, or had the record for longer than the lease, loses it.  *)
Judge ==
  /\ At(Lease, "judge")
  /\ LET t == task[Lease]
         rt == LoadRouting(t.r)
         again == [t EXCEPT !.live = IF t.todo = {} THEN {} ELSE @]
     IN IF rt.cur = NoSession THEN Become(Lease, [again EXCEPT !.pc = "get"])
        ELSE IF rt.cur \notin t.live \/ rt.late
             THEN Become(Lease, [again EXCEPT !.pc = "rmWake", !.copy = rt])
             ELSE EndRecord(Lease)
  /\ UNCHANGED <<records, sessions, wake, routing, bounds, told>>

RmWake ==
  /\ At(Lease, "rmWake")
  /\ wake' = wake \ {<<task[Lease].copy.cur, task[Lease].r>>}
  /\ Become(Lease, [task[Lease] EXCEPT !.pc = "get", !.copy = Default])
  /\ UNCHANGED <<records, sessions, routing, bounds, told>>

(* The clock: the lease of a routing runs out.                                 *)
LeaseEnds(r) ==
  /\ routing[r] # NoRouting /\ routing[r].cur # NoSession /\ ~routing[r].late
  /\ routing' = [routing EXCEPT ![r].late = TRUE]
  /\ UNCHANGED <<records, sessions, wake, task, bounds, told>>

-----------------------------------------------------------------------------
(* The hooks of a session; it runs one at a time.                              *)

SessionStart(s) ==
  /\ Call(s)
  /\ dirs' = dirs \union {s} /\ markers' = markers \union {s} /\ fresh' = fresh \union {s}
  /\ Become(s, Work("start", NoRecord, "sweepScan"))
  /\ UNCHANGED <<records, wake, routing, crashes, faults, told>>

(* sweep_sessions: who is live, then the directories of all others go.         *)
SweepScan(s) ==
  /\ At(s, "sweepScan")
  /\ Become(s, [task[s] EXCEPT !.live = Live, !.pc = "sweep"])
  /\ UNCHANGED <<records, sessions, wake, routing, bounds, told>>

Sweep(s) ==
  /\ At(s, "sweep")
  /\ LET keep == task[s].live
     IN /\ dirs' = dirs \intersect keep /\ markers' = markers \intersect keep
        /\ fresh' = fresh \intersect keep
        /\ wake' = {w \in wake : w[1] \in keep}
  /\ Become(s, [task[s] EXCEPT !.live = {}, !.pc = "backlog"])
  /\ UNCHANGED <<records, routing, bounds, told>>

(* assign_backlog: the unseen records nobody live holds; no wake file, the      *)
(* session starts with their previews.                                         *)
Backlog(s) ==
  /\ At(s, "backlog")
  /\ Become(s, AfterRecord([task[s] EXCEPT !.live = Live, !.todo = inbox \ seen]))
  /\ UNCHANGED <<records, sessions, wake, routing, bounds, told>>

Assign(s, r) ==
  /\ At(s, "assign") /\ r \in task[s].todo
  /\ LET rt == LoadRouting(r)
         t == [task[s] EXCEPT !.todo = @ \ {r}, !.r = r]
     IN Become(s, IF rt.cur \in t.live THEN AfterRecord(t)
                  ELSE [t EXCEPT !.pc = "assignSave", !.copy = HeldBy(rt, s)])
  /\ UNCHANGED <<records, sessions, wake, routing, bounds, told>>

AssignSave(s) ==
  /\ At(s, "assignSave")
  /\ routing' = [routing EXCEPT ![task[s].r] = task[s].copy]
  /\ told' = told \union {<<s, task[s].r>>}
  /\ EndRecord(s)
  /\ UNCHANGED <<records, sessions, wake, bounds>>

(* end_session: the directory goes, then the session leaves every routing.     *)
SessionEnd(s) ==
  /\ Call(s) /\ s \in dirs
  /\ dirs' = dirs \ {s} /\ markers' = markers \ {s} /\ fresh' = fresh \ {s}
  /\ wake' = {w \in wake : w[1] # s}
  /\ Become(s, Work("end", NoRecord, "endScan"))
  /\ UNCHANGED <<records, routing, crashes, faults, told>>

EndScan(s) ==
  /\ At(s, "endScan")
  /\ Become(s, AfterRecord([task[s] EXCEPT !.todo = {r \in Record : routing[r] # NoRouting}]))
  /\ UNCHANGED <<records, sessions, wake, routing, bounds, told>>

EndLoad(s, r) ==
  /\ At(s, "end") /\ r \in task[s].todo
  /\ LET rt == LoadRouting(r)
         t == [task[s] EXCEPT !.todo = @ \ {r}, !.r = r]
     IN Become(s, IF rt.cur # s THEN AfterRecord(t)
                  ELSE [t EXCEPT !.pc = "endSave", !.copy = Cleared(rt)])
  /\ UNCHANGED <<records, sessions, wake, routing, bounds, told>>

EndSave(s) ==
  /\ At(s, "endSave")
  /\ routing' = [routing EXCEPT ![task[s].r] = task[s].copy]
  /\ EndRecord(s)
  /\ UNCHANGED <<records, sessions, wake, bounds, told>>

(* touch_heartbeat: an existing marker is read and written back.               *)
Heartbeat(s) ==
  /\ Call(s) /\ s \in markers
  /\ Become(s, Work("beat", NoRecord, "beat"))
  /\ UNCHANGED <<records, sessions, wake, routing, crashes, faults, told>>

Beat(s) ==
  /\ At(s, "beat")
  /\ dirs' = dirs \union {s} /\ markers' = markers \union {s} /\ fresh' = fresh \union {s}
  /\ Become(s, Idle)
  /\ UNCHANGED <<records, wake, routing, bounds, told>>

(* A session is killed, or idle for longer than a heartbeat counts.            *)
Fade(s) ==
  /\ s \in fresh
  /\ fresh' = fresh \ {s}
  /\ UNCHANGED <<records, dirs, markers, wake, routing, task, bounds, told>>

-----------------------------------------------------------------------------
(* A write that fails is logged or ignored: the lease loop and the hooks go on *)
(* with the next record, the other callers of route are done.                  *)
WriteFails(p) ==
  /\ task[p].pc \in {"wake", "save", "assignSave", "endSave"} /\ Fault
  /\ EndRecord(p)
  /\ UNCHANGED <<records, sessions, wake, routing, calls, crashes, told>>

(* A hook or a command is interrupted.                                         *)
Dies(p) ==
  /\ p \in Session \union Cmd /\ ~At(p, "idle") /\ Fault
  /\ Become(p, Idle)
  /\ UNCHANGED <<records, sessions, wake, routing, calls, crashes, told>>

Restart ==
  /\ crashes < MaxCrashes
  /\ crashes' = crashes + 1
  /\ task' = [p \in Proc |-> IF p \in Record \union {Lease} THEN Idle ELSE task[p]]
  /\ UNCHANGED <<records, sessions, wake, routing, calls, faults, told>>

-----------------------------------------------------------------------------
LeaseStep ==
  \/ Tick \/ Judge \/ RmWake
  \/ \E r \in Record : LeaseGet(r)
  \/ Get(Lease) \/ Pick(Lease) \/ WriteWake(Lease) \/ Save(Lease)
  \/ Unwake(Lease) \/ Unroute(Lease)

RouteStep(p) == Get(p) \/ Pick(p) \/ WriteWake(p) \/ Save(p) \/ Unwake(p) \/ Unroute(p)

CmdStep(c) ==
  \/ \E r \in Record : RouteCmd(c, r) \/ Look(c, r) \/ Finish(c, r)
  \/ Unlink(c)

HookStep(s) ==
  \/ SessionStart(s) \/ SweepScan(s) \/ Sweep(s) \/ Backlog(s) \/ AssignSave(s)
  \/ SessionEnd(s) \/ EndScan(s) \/ EndSave(s) \/ Heartbeat(s) \/ Beat(s)
  \/ \E r \in Record : Assign(s, r) \/ EndLoad(s, r)

Next ==
  \/ LeaseStep \/ Restart
  \/ \E r \in Record : Arrive(r) \/ LeaseEnds(r)
  \/ \E p \in Record \union Cmd : RouteStep(p)
  \/ \E c \in Cmd : CmdStep(c)
  \/ \E s \in Session : HookStep(s) \/ Fade(s)
  \/ \E p \in Proc : WriteFails(p) \/ Dies(p)

Spec == Init /\ [][Next]_vars

(* The lease loop ticks until the daemon stops, and time passes. Nothing is    *)
(* owed by a hook, a command or the handler of an arriving record.             *)
FairSpec ==
  /\ Spec
  /\ WF_vars(LeaseStep)
  /\ \A r \in Record : WF_vars(LeaseEnds(r))

-----------------------------------------------------------------------------
RecordsOK == born \subseteq Record /\ inbox \subseteq born /\ seen \subseteq born
SessionsOK ==
  /\ dirs \subseteq Session /\ markers \subseteq dirs /\ fresh \subseteq markers
  /\ wake \subseteq dirs \X Record /\ told \subseteq Session \X Record
RoutingOK == routing \in [Record -> Routings \union {NoRouting}]
TasksOK == task \in [Proc -> Task]
CountsOK == calls \in 0..MaxCalls /\ crashes \in 0..MaxCrashes /\ faults \in 0..MaxFaults

(* Every variable has its type; a wake file lies in a session's directory, and *)
(* a routing without a holder has no lease.                                    *)
TypeOK == RecordsOK /\ SessionsOK /\ RoutingOK /\ TasksOK /\ CountsOK

(* A session that holds a record has been told of it, by a wake file or by the *)
(* previews of its start: no failed write and no crash leaves the lease with a *)
(* session that knows nothing (write_wake before save_routing).                *)
HolderWasTold ==
  \A r \in Record : routing[r] # NoRouting /\ routing[r].cur # NoSession
                      => <<routing[r].cur, r>> \in told

(* A record that left inbox/ ends up routed to nobody for good, although       *)
(* routers, hooks and the lease loop may still hold a copy of its routing: the *)
(* lease loop releases what they write back.                                   *)
HandledIsForgotten ==
  \A r \in Record : (r \in born \ inbox) ~> [](routing[r] = NoRouting)

(* A dead session does not keep a record: it is replaced, comes back, or the   *)
(* record is looked at or handled.                                             *)
DeadLosesIt ==
  \A r \in Record, s \in Session :
    (LoadRouting(r).cur = s /\ s \notin Live)
      ~> (LoadRouting(r).cur # s \/ s \in Live \/ r \in seen \/ r \notin inbox)

(* A session that stays live while a routed record stays unseen is offered it  *)
(* in the end, whatever updates of its routing were lost.                      *)
EveryoneIsOffered ==
  \A r \in Record, s \in Session :
    <>[](r \in inbox \ seen /\ routing[r] # NoRouting /\ s \in Live)
      => <>[](s \in LoadRouting(r).tried)
=============================================================================
