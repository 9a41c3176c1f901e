--------------------------- MODULE RoutingProofs ----------------------------
(***************************************************************************)
(* Theorems about Routing, for any sets of sessions, records and commands  *)
(* and any bounds: types, and that whoever holds a record was told of it.  *)
(*                                                                         *)
(* A routing is saved from a copy a process made steps ago.  Sound says    *)
(* what that copy promises; it rests on `told` only, which never shrinks,  *)
(* so no step of another process disturbs it.                              *)
(***************************************************************************)
EXTENDS Routing, TLAPS

NoRecordYet == {"idle", "tick", "sweepScan", "sweep", "backlog", "assign", "endScan", "end", "beat"}

(* What the task t of process p relies on, when T are the pairs told.          *)
Sound(p, t, T) ==
  /\ t.pc \notin NoRecordYet => t.r \in Record
  /\ t.pc \in {"sweepScan", "sweep", "backlog", "assign", "endScan", "end"} => t.op # "finish"
  /\ t.pc = "wake" => t.copy.cur \in Session
  /\ t.pc = "save" /\ t.copy.cur # NoSession => <<t.copy.cur, t.r>> \in T
  /\ t.pc = "assignSave" => t.copy.cur = p
  /\ t.pc = "endSave" => t.copy.cur = NoSession

TasksSound == \A p \in Proc : Sound(p, task[p], told)

Safe == TypeOK /\ TasksSound /\ HolderWasTold

-----------------------------------------------------------------------------
(* Routings and tasks. *)

LEMMA ProcFacts ==
  Session \subseteq Proc /\ Record \subseteq Proc /\ Cmd \subseteq Proc /\ Lease \in Proc
  BY DEF Proc

LEMMA DefaultFits == Default \in Routings
  BY DEF Default, Routings

LEMMA LoadFits ==
  ASSUME RoutingOK, NEW r \in Record
  PROVE  LoadRouting(r) \in Routings
  BY DefaultFits DEF RoutingOK, LoadRouting

LEMMA HeldByFits ==
  ASSUME NEW rt \in Routings, NEW s \in Session
  PROVE  HeldBy(rt, s) \in Routings /\ HeldBy(rt, s).cur = s
  BY DEF Routings, HeldBy

LEMMA ClearedFits ==
  ASSUME NEW rt \in Routings
  PROVE  Cleared(rt) \in Routings /\ Cleared(rt).cur = NoSession
  BY DEF Routings, Cleared

LEMMA WorkFits ==
  ASSUME NEW op \in Op, NEW r \in Record \union {NoRecord}, NEW pc \in Pc
  PROVE  /\ Work(op, r, pc) \in Task /\ Work(op, r, pc).pc = pc
         /\ Work(op, r, pc).op = op /\ Work(op, r, pc).r = r
  BY DefaultFits DEF Work, Idle, Task, Op

LEMMA IdleFits == Idle \in Task /\ \A p, T : Sound(p, Idle, T)
  BY DefaultFits DEF Idle, Task, Pc, Op, Sound, NoRecordYet

(* What a step may change in a task. *)
LEMMA TakeFits ==
  ASSUME NEW t \in Task, NEW r \in Record
  PROVE  LET u == [t EXCEPT !.todo = @ \ {r}, !.r = r]
         IN u \in Task /\ u.r = r
  BY DEF Task

LEMMA ListFits ==
  ASSUME NEW t \in Task, NEW live \in SUBSET Session, NEW todo \in SUBSET Record
  PROVE  LET u == [t EXCEPT !.live = live, !.todo = todo]
             v == [t EXCEPT !.todo = todo]
         IN u \in Task /\ v \in Task /\ u.op = t.op /\ v.op = t.op
  BY DEF Task

LEMMA PcFits ==
  ASSUME NEW t \in Task, NEW pc \in Pc
  PROVE  [t EXCEPT !.pc = pc] \in Task
  BY DEF Task

LEMMA CopyFits ==
  ASSUME NEW t \in Task, NEW pc \in Pc, NEW rt \in Routings
  PROVE  [t EXCEPT !.pc = pc, !.copy = rt] \in Task
  BY DEF Task

LEMMA AfterRecordFits ==
  ASSUME NEW t \in Task, t.op = "finish" => t.r \in Record
  PROVE  AfterRecord(t) \in Task /\ \A p, T : Sound(p, AfterRecord(t), T)
<1>1. CASE t.op = "finish"
  <2>1. AfterRecord(t) = [t EXCEPT !.pc = "unlink"]
    BY <1>1 DEF AfterRecord
  <2> QED BY <1>1, <2>1 DEF Task, Pc, Sound, NoRecordYet
<1>2. ASSUME t.op # "finish",
             NEW pc \in {"tick", "assign", "end"},
             AfterRecord(t) = [t EXCEPT !.pc = pc, !.r = NoRecord, !.copy = Default]
      PROVE  AfterRecord(t) \in Task /\ \A p, T : Sound(p, AfterRecord(t), T)
  BY <1>2, DefaultFits DEF Task, Pc, Sound, NoRecordYet
<1>3. CASE AfterRecord(t) = Idle
  BY <1>3, IdleFits
<1>4. \/ t.op = "finish" \/ AfterRecord(t) = Idle
      \/ \E pc \in {"tick", "assign", "end"} :
           AfterRecord(t) = [t EXCEPT !.pc = pc, !.r = NoRecord, !.copy = Default]
  BY DEF AfterRecord
<1> QED BY <1>1, <1>2, <1>3, <1>4

LEMMA TaskOf ==
  ASSUME Safe, NEW p \in Proc
  PROVE  task[p] \in Task /\ Sound(p, task[p], told)
  BY DEF Safe, TypeOK, TasksOK, TasksSound

(* One process moves to a task that is typed and sound, the others stay so. *)
LEMMA BecomeFits ==
  ASSUME Safe, told \subseteq told', NEW p \in Proc, NEW t \in Task, Sound(p, t, told'),
         Become(p, t)
  PROVE  TasksOK' /\ TasksSound'
<1>1. task'[p] = t /\ \A q \in Proc : q # p => task'[q] = task[q]
  BY DEF Safe, TypeOK, TasksOK, Become
<1>2. TasksOK'
  BY DEF Safe, TypeOK, TasksOK, Become
<1>3. \A q \in Proc : Sound(q, task[q], told')
  BY DEF Safe, TasksSound, Sound
<1> QED BY <1>1, <1>2, <1>3 DEF TasksSound

LEMMA EndFits ==
  ASSUME Safe, told \subseteq told', NEW p \in Proc, task[p].r \in Record, EndRecord(p)
  PROVE  TasksOK' /\ TasksSound'
  BY TaskOf, AfterRecordFits, BecomeFits DEF EndRecord

LEMMA StayFits ==
  ASSUME Safe, told \subseteq told', task' = task
  PROVE  TasksOK' /\ TasksSound'
<1>1. \A q \in Proc : Sound(q, task[q], told')
  BY DEF Safe, TasksSound, Sound
<1> QED BY <1>1 DEF Safe, TypeOK, TasksOK, TasksSound

(* Where a process may go with what it has, outside the steps that promise more. *)
LEMMA GotoFits ==
  ASSUME Safe, told \subseteq told', NEW p \in Proc, task[p].r \in Record,
         NEW pc \in {"pick", "unwake", "unroute"}, Goto(p, pc)
  PROVE  TasksOK' /\ TasksSound'
<1>1. [task[p] EXCEPT !.pc = pc] \in Task /\ Sound(p, [task[p] EXCEPT !.pc = pc], told')
  BY TaskOf DEF Task, Pc, Sound, NoRecordYet
<1> QED BY <1>1, BecomeFits DEF Goto

(* A step that writes no routing keeps HolderWasTold. *)
LEMMA TellingKeeps ==
  ASSUME HolderWasTold, told \subseteq told', routing' = routing
  PROVE  HolderWasTold'
  BY DEF HolderWasTold

(* A routing saved for a session that was told of the record. *)
LEMMA SavingKeeps ==
  ASSUME Safe, told \subseteq told', NEW r \in Record, NEW rt \in Routings \union {NoRouting},
         rt # NoRouting /\ rt.cur # NoSession => <<rt.cur, r>> \in told',
         routing' = [routing EXCEPT ![r] = rt]
  PROVE  RoutingOK' /\ HolderWasTold'
  BY DEF Safe, TypeOK, RoutingOK, HolderWasTold

(* A step that only moves a process on. *)
LEMMA QuietSafe ==
  ASSUME Safe, UNCHANGED <<records, sessions, wake, routing, told>>, CountsOK',
         TasksOK', TasksSound'
  PROVE  Safe'
<1>1. RecordsOK' /\ SessionsOK' /\ RoutingOK'
  BY DEF Safe, TypeOK, RecordsOK, SessionsOK, RoutingOK, records, sessions
<1>2. HolderWasTold'
  BY TellingKeeps DEF Safe
<1> QED BY <1>1, <1>2 DEF Safe, TypeOK

LEMMA CountsKept ==
  ASSUME Safe, UNCHANGED bounds
  PROVE  CountsOK'
  BY DEF Safe, TypeOK, CountsOK, bounds

LEMMA CallCounts ==
  ASSUME Safe, NEW p \in Proc, Call(p), UNCHANGED <<crashes, faults>>
  PROVE  CountsOK'
  BY RoutingAssumption DEF Safe, TypeOK, CountsOK, Call

LEMMA FaultCounts ==
  ASSUME Safe, Fault, UNCHANGED <<calls, crashes>>
  PROVE  CountsOK'
  BY RoutingAssumption DEF Safe, TypeOK, CountsOK, Fault

(* A quiet step of one process: the files and the bounds stay. *)
LEMMA QuietMove ==
  ASSUME Safe, UNCHANGED <<records, sessions, wake, routing, told, bounds>>,
         NEW p \in Proc, NEW t \in Task, Sound(p, t, told), Become(p, t)
  PROVE  Safe'
<1>1. told \subseteq told' /\ Sound(p, t, told')
  OBVIOUS
<1> QED BY <1>1, BecomeFits, QuietSafe, CountsKept

LEMMA QuietEnd ==
  ASSUME Safe, UNCHANGED <<records, sessions, wake, routing, told, bounds>>,
         NEW p \in Proc, task[p].r \in Record, EndRecord(p)
  PROVE  Safe'
<1>1. told \subseteq told'
  OBVIOUS
<1> QED BY <1>1, EndFits, QuietSafe, CountsKept

(* A command or a hook starts. *)
LEMMA CallMove ==
  ASSUME Safe, UNCHANGED <<records, sessions, wake, routing, told, crashes, faults>>,
         NEW p \in Proc, Call(p), NEW t \in Task, Sound(p, t, told), Become(p, t)
  PROVE  Safe'
<1>1. told \subseteq told' /\ Sound(p, t, told')
  OBVIOUS
<1> QED BY <1>1, BecomeFits, QuietSafe, CallCounts

-----------------------------------------------------------------------------
(* route and release. *)

LEMMA ArriveSafe == ASSUME Safe, NEW r \in Record, Arrive(r) PROVE Safe'
<1> DEFINE t == Work("arrive", r, "get")
<1>1. t \in Task /\ Sound(r, t, told) /\ told \subseteq told'
  BY WorkFits DEF Arrive, Op, Pc, Sound, NoRecordYet
<1>2. TasksOK' /\ TasksSound'
  BY <1>1, BecomeFits, ProcFacts DEF Arrive
<1>3. RecordsOK' /\ SessionsOK' /\ RoutingOK'
  BY DEF Arrive, Safe, TypeOK, RecordsOK, SessionsOK, RoutingOK, sessions
<1>4. HolderWasTold' /\ CountsOK'
  BY TellingKeeps, CountsKept DEF Arrive, Safe
<1> QED BY <1>2, <1>3, <1>4 DEF Safe, TypeOK

LEMMA CommandSafe ==
  ASSUME Safe, NEW c \in Cmd, NEW r \in Record, RouteCmd(c, r) \/ Finish(c, r)
  PROVE  Safe'
<1>1. /\ Work("route", r, "get") \in Task /\ Work("finish", r, "unwake") \in Task
      /\ Sound(c, Work("route", r, "get"), told) /\ Sound(c, Work("finish", r, "unwake"), told)
  BY WorkFits DEF Op, Pc, Sound, NoRecordYet
<1>2. CASE RouteCmd(c, r)
  BY <1>1, <1>2, CallMove, ProcFacts DEF RouteCmd
<1>3. CASE Finish(c, r)
  BY <1>1, <1>3, CallMove, ProcFacts DEF Finish
<1> QED BY <1>2, <1>3

LEMMA LookSafe == ASSUME Safe, NEW c \in Cmd, NEW r \in Record, Look(c, r) PROVE Safe'
<1> DEFINE t == Work("look", r, "unwake")
<1>1. t \in Task /\ Sound(c, t, told) /\ told \subseteq told'
  BY WorkFits DEF Look, Op, Pc, Sound, NoRecordYet
<1>2. TasksOK' /\ TasksSound'
  BY <1>1, BecomeFits, ProcFacts DEF Look
<1>3. RecordsOK' /\ SessionsOK' /\ RoutingOK'
  BY DEF Look, Safe, TypeOK, RecordsOK, SessionsOK, RoutingOK, sessions
<1>4. HolderWasTold' /\ CountsOK'
  BY TellingKeeps, CallCounts, ProcFacts DEF Look, Safe
<1> QED BY <1>2, <1>3, <1>4 DEF Safe, TypeOK

LEMMA UnlinkSafe == ASSUME Safe, NEW c \in Cmd, Unlink(c) PROVE Safe'
<1>1. TasksOK' /\ TasksSound'
  BY IdleFits, BecomeFits, ProcFacts DEF Unlink
<1>2. RecordsOK' /\ SessionsOK' /\ RoutingOK'
  BY DEF Unlink, Safe, TypeOK, RecordsOK, SessionsOK, RoutingOK, sessions
<1>3. HolderWasTold' /\ CountsOK'
  BY TellingKeeps, CountsKept DEF Unlink, Safe
<1> QED BY <1>1, <1>2, <1>3 DEF Safe, TypeOK

LEMMA GetSafe == ASSUME Safe, NEW p \in Proc, Get(p) PROVE Safe'
<1>1. task[p].r \in Record
  BY TaskOf DEF Get, At, Sound, NoRecordYet
<1>2. TasksOK' /\ TasksSound'
  BY <1>1, GotoFits DEF Get
<1> QED BY <1>2, QuietSafe, CountsKept DEF Get

LEMMA PickSafe == ASSUME Safe, NEW p \in Proc, Pick(p) PROVE Safe'
<1> DEFINE t == task[p]
           rt == LoadRouting(t.r)
<1>1. t \in Task /\ t.r \in Record
  BY TaskOf DEF Pick, At, Sound, NoRecordYet
<1>2. rt \in Routings
  BY <1>1, LoadFits DEF Safe, TypeOK
<1>3. Candidates(rt) \subseteq Session
  BY DEF Candidates, Live, Safe, TypeOK, SessionsOK
<1>4. ASSUME NEW s \in Candidates(rt),
             Become(p, [t EXCEPT !.pc = AfterPick, !.copy = HeldBy(rt, s)])
      PROVE  Safe'
  <2>1. [t EXCEPT !.pc = AfterPick, !.copy = HeldBy(rt, s)] \in Task
    BY <1>1, <1>2, <1>3, HeldByFits DEF Task, Pc, AfterPick
  <2>2. Sound(p, [t EXCEPT !.pc = AfterPick, !.copy = HeldBy(rt, s)], told)
    BY <1>1, <1>2, <1>3, HeldByFits DEF Task, Sound, AfterPick, NoRecordYet
  <2> QED BY <1>4, <2>1, <2>2, QuietMove DEF Pick
<1>5. CASE EndRecord(p)
  BY <1>1, <1>5, QuietEnd DEF Pick
<1>6. CASE Become(p, [t EXCEPT !.pc = "save", !.copy = NobodyLeft(rt)])
  <2>1. [t EXCEPT !.pc = "save", !.copy = NobodyLeft(rt)] \in Task
    BY <1>1, <1>2, ClearedFits DEF Task, Pc, NobodyLeft
  <2>2. Sound(p, [t EXCEPT !.pc = "save", !.copy = NobodyLeft(rt)], told)
    BY <1>1, <1>2, ClearedFits DEF Task, Sound, NobodyLeft, NoRecordYet
  <2> QED BY <1>6, <2>1, <2>2, QuietMove DEF Pick
<1> QED BY <1>4, <1>5, <1>6 DEF Pick

LEMMA WriteWakeSafe == ASSUME Safe, NEW p \in Proc, WriteWake(p) PROVE Safe'
<1> DEFINE t == task[p]
<1>1. t \in Task /\ t.r \in Record /\ t.copy.cur \in Session
  BY TaskOf DEF WriteWake, At, Sound, NoRecordYet
<1>2. told' = told \union {<<t.copy.cur, t.r>>}
  BY DEF WriteWake
<1>3. [t EXCEPT !.pc = "save"] \in Task /\ Sound(p, [t EXCEPT !.pc = "save"], told')
  BY <1>1, <1>2 DEF Task, Pc, Sound, NoRecordYet
<1>4. TasksOK' /\ TasksSound'
  BY <1>2, <1>3, BecomeFits DEF WriteWake, Goto
<1>5. RecordsOK' /\ RoutingOK'
  BY DEF WriteWake, Safe, TypeOK, RecordsOK, RoutingOK, records
<1>6. SessionsOK'
  BY <1>1 DEF WriteWake, Safe, TypeOK, SessionsOK
<1>7. HolderWasTold' /\ CountsOK'
  BY <1>2, TellingKeeps, CountsKept DEF WriteWake, Safe
<1> QED BY <1>4, <1>5, <1>6, <1>7 DEF Safe, TypeOK

(* A routing is written: by route, or by a hook. *)
LEMMA RoutingWritten ==
  ASSUME Safe, UNCHANGED <<records, sessions, wake, bounds>>, told \subseteq told',
         told' \subseteq Session \X Record,
         NEW r \in Record, NEW rt \in Routings \union {NoRouting},
         rt # NoRouting /\ rt.cur # NoSession => <<rt.cur, r>> \in told',
         routing' = [routing EXCEPT ![r] = rt], TasksOK', TasksSound'
  PROVE  Safe'
<1>1. RecordsOK' /\ SessionsOK'
  BY DEF Safe, TypeOK, RecordsOK, SessionsOK, records, sessions
<1> QED BY <1>1, SavingKeeps, CountsKept DEF Safe, TypeOK

LEMMA ToldTyped == ASSUME Safe PROVE told \subseteq Session \X Record
  BY DEF Safe, TypeOK, SessionsOK

LEMMA SaveSafe == ASSUME Safe, NEW p \in Proc, Save(p) PROVE Safe'
<1> DEFINE t == task[p]
<1>1. /\ t \in Task /\ t.r \in Record
      /\ t.copy.cur # NoSession => <<t.copy.cur, t.r>> \in told
  BY TaskOf DEF Save, At, Sound, NoRecordYet
<1>2. t.copy \in Routings
  BY <1>1 DEF Task
<1>3. TasksOK' /\ TasksSound'
  BY <1>1, EndFits DEF Save
<1> QED BY <1>1, <1>2, <1>3, RoutingWritten, ToldTyped DEF Save

LEMMA UnwakeSafe == ASSUME Safe, NEW p \in Proc, Unwake(p) PROVE Safe'
<1>1. task[p].r \in Record /\ told \subseteq told'
  BY TaskOf DEF Unwake, At, Sound, NoRecordYet
<1>2. TasksOK' /\ TasksSound'
  BY <1>1, GotoFits DEF Unwake
<1>3. RecordsOK' /\ SessionsOK' /\ RoutingOK'
  BY DEF Unwake, Safe, TypeOK, RecordsOK, SessionsOK, RoutingOK, records, sessions
<1>4. HolderWasTold' /\ CountsOK'
  BY TellingKeeps, CountsKept DEF Unwake, Safe
<1> QED BY <1>2, <1>3, <1>4 DEF Safe, TypeOK

LEMMA UnrouteSafe == ASSUME Safe, NEW p \in Proc, Unroute(p) PROVE Safe'
<1>1. task[p].r \in Record
  BY TaskOf DEF Unroute, At, Sound, NoRecordYet
<1>2. TasksOK' /\ TasksSound'
  BY <1>1, EndFits DEF Unroute
<1> QED BY <1>1, <1>2, RoutingWritten, ToldTyped DEF Unroute

-----------------------------------------------------------------------------
(* The lease loop. *)

LEMMA TickSafe == ASSUME Safe, Tick PROVE Safe'
<1> DEFINE todo == {r \in Record : routing[r] # NoRouting}
           t == [Idle EXCEPT !.op = "lease", !.pc = "tick", !.todo = todo, !.live = Live]
<1>1. t \in Task /\ Sound(Lease, t, told)
  BY DefaultFits DEF Idle, Task, Pc, Op, Sound, NoRecordYet, Live, Safe, TypeOK, SessionsOK
<1>2. Become(Lease, Idle) \/ Become(Lease, t)
  BY DEF Tick
<1> QED BY <1>1, <1>2, IdleFits, QuietMove, ProcFacts DEF Tick

LEMMA LeaseGetSafe == ASSUME Safe, NEW r \in Record, LeaseGet(r) PROVE Safe'
<1> DEFINE t == [task[Lease] EXCEPT !.todo = @ \ {r}, !.r = r]
<1>1. t \in Task /\ t.r = r
  <2>1. task[Lease] \in Task
    BY TaskOf, ProcFacts
  <2> QED BY <2>1, TakeFits
<1>2. AfterRecord(t) \in Task /\ Sound(Lease, AfterRecord(t), told)
  BY <1>1, AfterRecordFits
<1>3. Examine(r) \in {"unwake", "tick", "judge"}
  BY DEF Examine
<1>4. Examine(r) # "tick" =>
        [t EXCEPT !.pc = Examine(r)] \in Task /\ Sound(Lease, [t EXCEPT !.pc = Examine(r)], told)
  BY <1>1, <1>3 DEF Task, Pc, Sound, NoRecordYet
<1>5. \/ Become(Lease, AfterRecord(t))
      \/ Examine(r) # "tick" /\ Become(Lease, [t EXCEPT !.pc = Examine(r)])
  BY DEF LeaseGet
<1> QED BY <1>2, <1>4, <1>5, QuietMove, ProcFacts DEF LeaseGet

LEMMA JudgeSafe == ASSUME Safe, Judge PROVE Safe'
<1> DEFINE t == task[Lease]
           rt == LoadRouting(t.r)
           again == [t EXCEPT !.live = IF t.todo = {} THEN {} ELSE @]
<1>1. t \in Task /\ t.r \in Record
  BY TaskOf, ProcFacts DEF Judge, At, Sound, NoRecordYet
<1>2. rt \in Routings
  BY <1>1, LoadFits DEF Safe, TypeOK
<1>3. again \in Task /\ again.r = t.r
  BY <1>1 DEF Task
<1>4. [again EXCEPT !.pc = "get"] \in Task /\ Sound(Lease, [again EXCEPT !.pc = "get"], told)
  <2>1. [again EXCEPT !.pc = "get"] \in Task /\ [again EXCEPT !.pc = "get"].r = t.r
           /\ [again EXCEPT !.pc = "get"].pc = "get"
    <3>1. "get" \in Pc
      BY DEF Pc
    <3>2. [again EXCEPT !.pc = "get"] \in Task
      BY <1>3, <3>1, PcFits
    <3> HIDE DEF again
    <3> QED BY <1>3, <3>2 DEF Task
  <2> QED BY <1>1, <2>1 DEF Sound, NoRecordYet
<1>5. /\ [again EXCEPT !.pc = "rmWake", !.copy = rt] \in Task
      /\ Sound(Lease, [again EXCEPT !.pc = "rmWake", !.copy = rt], told)
  <2> DEFINE u == [again EXCEPT !.pc = "rmWake", !.copy = rt]
  <2>1. u \in Task /\ u.r = t.r /\ u.pc = "rmWake"
    <3>1. "rmWake" \in Pc
      BY DEF Pc
    <3>2. u \in Task
      BY <1>2, <1>3, <3>1, CopyFits
    <3> HIDE DEF again
    <3> QED BY <1>3, <3>2 DEF Task
  <2> QED BY <1>1, <2>1 DEF Sound, NoRecordYet
<1>6. \/ Become(Lease, [again EXCEPT !.pc = "get"])
      \/ Become(Lease, [again EXCEPT !.pc = "rmWake", !.copy = rt])
      \/ EndRecord(Lease)
  BY DEF Judge
<1> QED BY <1>1, <1>4, <1>5, <1>6, QuietMove, QuietEnd, ProcFacts DEF Judge

LEMMA RmWakeSafe == ASSUME Safe, RmWake PROVE Safe'
<1> DEFINE t == [task[Lease] EXCEPT !.pc = "get", !.copy = Default]
<1>1. t \in Task /\ Sound(Lease, t, told) /\ told \subseteq told'
  <2>1. task[Lease] \in Task /\ task[Lease].r \in Record
    BY TaskOf, ProcFacts DEF RmWake, At, Sound, NoRecordYet
  <2>2. t \in Task /\ t.r \in Record /\ t.pc = "get"
    <3>1. "get" \in Pc
      BY DEF Pc
    <3>2. t \in Task
      BY <2>1, <3>1, DefaultFits, CopyFits
    <3> QED BY <2>1, <3>2 DEF Task
  <2> QED BY <2>2 DEF RmWake, Sound, NoRecordYet
<1>2. TasksOK' /\ TasksSound'
  BY <1>1, BecomeFits, ProcFacts DEF RmWake
<1>3. RecordsOK' /\ SessionsOK' /\ RoutingOK'
  BY DEF RmWake, Safe, TypeOK, RecordsOK, SessionsOK, RoutingOK, records, sessions
<1>4. HolderWasTold' /\ CountsOK'
  BY TellingKeeps, CountsKept DEF RmWake, Safe
<1> QED BY <1>2, <1>3, <1>4 DEF Safe, TypeOK

LEMMA LeaseEndsSafe == ASSUME Safe, NEW r \in Record, LeaseEnds(r) PROVE Safe'
<1> DEFINE rt == [routing[r] EXCEPT !.late = TRUE]
<1>1. routing[r] \in Routings
  BY DEF LeaseEnds, Safe, TypeOK, RoutingOK
<1>2. rt \in Routings /\ rt.cur = routing[r].cur /\ routing' = [routing EXCEPT ![r] = rt]
  BY <1>1 DEF LeaseEnds, Routings
<1>3. <<rt.cur, r>> \in told
  BY <1>2 DEF LeaseEnds, Safe, HolderWasTold
<1>4. TasksOK' /\ TasksSound'
  BY StayFits DEF LeaseEnds
<1> QED BY <1>2, <1>3, <1>4, RoutingWritten, ToldTyped DEF LeaseEnds

-----------------------------------------------------------------------------
(* The hooks. *)

(* The next step of a hook that has no record in hand. *)
LEMMA HookFits ==
  ASSUME Safe, NEW s \in Session, At(s, "sweepScan") \/ At(s, "sweep") \/ At(s, "backlog"),
         NEW live \in SUBSET Session, NEW pc \in {"sweep", "backlog"}
  PROVE  LET t == [task[s] EXCEPT !.live = live, !.pc = pc]
         IN t \in Task /\ Sound(s, t, told)
<1> DEFINE t == [task[s] EXCEPT !.live = live, !.pc = pc]
<1>1. task[s] \in Task /\ task[s].op # "finish"
  BY TaskOf, ProcFacts DEF At, Sound
<1>2. t \in Task /\ t.pc = pc /\ t.op # "finish"
  BY <1>1 DEF Task, Pc
<1> QED BY <1>2 DEF Sound, NoRecordYet

LEMMA SessionsGrow ==
  ASSUME Safe, NEW s \in Session,
         dirs' = dirs \union {s}, markers' = markers \union {s}, fresh' = fresh \union {s},
         UNCHANGED <<wake, told>>
  PROVE  SessionsOK'
  BY DEF Safe, TypeOK, SessionsOK

LEMMA SessionsShrink ==
  ASSUME Safe, NEW keep \in SUBSET Session,
         dirs' = dirs \intersect keep, markers' = markers \intersect keep,
         fresh' = fresh \intersect keep, wake' = {w \in wake : w[1] \in keep}, UNCHANGED told
  PROVE  SessionsOK'
<1>1. \A w \in wake : w = <<w[1], w[2]>> /\ w[1] \in dirs /\ w[2] \in Record
  BY DEF Safe, TypeOK, SessionsOK
<1> QED BY <1>1 DEF Safe, TypeOK, SessionsOK

LEMMA SessionStepSafe ==
  ASSUME Safe, UNCHANGED <<records, routing, told>>, SessionsOK', CountsOK', TasksOK', TasksSound'
  PROVE  Safe'
<1>1. RecordsOK' /\ RoutingOK'
  BY DEF Safe, TypeOK, RecordsOK, RoutingOK, records
<1>2. HolderWasTold'
  BY TellingKeeps DEF Safe
<1> QED BY <1>1, <1>2 DEF Safe, TypeOK

LEMMA SessionStartSafe == ASSUME Safe, NEW s \in Session, SessionStart(s) PROVE Safe'
<1> DEFINE t == Work("start", NoRecord, "sweepScan")
<1>1. t \in Task /\ Sound(s, t, told')
  BY WorkFits DEF Op, Pc, Sound, NoRecordYet
<1>2. TasksOK' /\ TasksSound'
  BY <1>1, BecomeFits, ProcFacts DEF SessionStart
<1>3. SessionsOK' /\ CountsOK'
  BY SessionsGrow, CallCounts, ProcFacts DEF SessionStart
<1> QED BY <1>2, <1>3, SessionStepSafe DEF SessionStart

LEMMA SweepScanSafe == ASSUME Safe, NEW s \in Session, SweepScan(s) PROVE Safe'
<1>1. Live \in SUBSET Session
  BY DEF Live, Safe, TypeOK, SessionsOK
<1> QED BY <1>1, HookFits, QuietMove, ProcFacts DEF SweepScan

LEMMA SweepSafe == ASSUME Safe, NEW s \in Session, Sweep(s) PROVE Safe'
<1>1. task[s].live \in SUBSET Session
  BY TaskOf, ProcFacts DEF Task
<1>2. TasksOK' /\ TasksSound'
  BY HookFits, BecomeFits, ProcFacts DEF Sweep
<1>3. SessionsOK' /\ CountsOK'
  BY <1>1, SessionsShrink, CountsKept DEF Sweep
<1> QED BY <1>2, <1>3, SessionStepSafe DEF Sweep

LEMMA BacklogSafe == ASSUME Safe, NEW s \in Session, Backlog(s) PROVE Safe'
<1> DEFINE t == [task[s] EXCEPT !.live = Live, !.todo = inbox \ seen]
<1>1. t \in Task /\ t.op # "finish"
  <2>1. task[s] \in Task /\ task[s].op # "finish"
    BY TaskOf, ProcFacts DEF Backlog, At, Sound
  <2>2. Live \in SUBSET Session /\ inbox \ seen \in SUBSET Record
    BY DEF Live, Safe, TypeOK, SessionsOK, RecordsOK
  <2> QED BY <2>1, <2>2, ListFits
<1> QED BY <1>1, AfterRecordFits, QuietMove, ProcFacts DEF Backlog

LEMMA AssignSafe ==
  ASSUME Safe, NEW s \in Session, NEW r \in Record, Assign(s, r)
  PROVE  Safe'
<1> DEFINE rt == LoadRouting(r)
           t == [task[s] EXCEPT !.todo = @ \ {r}, !.r = r]
           u == [t EXCEPT !.pc = "assignSave", !.copy = HeldBy(rt, s)]
<1>1. t \in Task /\ t.r = r
  <2>1. task[s] \in Task
    BY TaskOf, ProcFacts
  <2> QED BY <2>1, TakeFits
<1>2. AfterRecord(t) \in Task /\ Sound(s, AfterRecord(t), told)
  BY <1>1, AfterRecordFits
<1>3. HeldBy(rt, s) \in Routings /\ HeldBy(rt, s).cur = s
  BY LoadFits, HeldByFits DEF Safe, TypeOK
<1>4. u \in Task /\ Sound(s, u, told)
  BY <1>1, <1>3 DEF Task, Pc, Sound, NoRecordYet
<1>5. Become(s, AfterRecord(t)) \/ Become(s, u)
  BY DEF Assign
<1> QED BY <1>2, <1>4, <1>5, QuietMove, ProcFacts DEF Assign

LEMMA AssignSaveSafe == ASSUME Safe, NEW s \in Session, AssignSave(s) PROVE Safe'
<1> DEFINE t == task[s]
<1>1. t \in Task /\ t.r \in Record /\ t.copy.cur = s
  BY TaskOf, ProcFacts DEF AssignSave, At, Sound, NoRecordYet
<1>2. t.copy \in Routings /\ told' = told \union {<<s, t.r>>}
  BY <1>1 DEF AssignSave, Task
<1>3. TasksOK' /\ TasksSound'
  BY <1>1, <1>2, EndFits, ProcFacts DEF AssignSave
<1>4. told' \subseteq Session \X Record
  BY <1>1, <1>2, ToldTyped
<1> QED BY <1>1, <1>2, <1>3, <1>4, RoutingWritten DEF AssignSave

LEMMA SessionEndSafe == ASSUME Safe, NEW s \in Session, SessionEnd(s) PROVE Safe'
<1> DEFINE t == Work("end", NoRecord, "endScan")
<1>1. t \in Task /\ Sound(s, t, told')
  BY WorkFits DEF Op, Pc, Sound, NoRecordYet
<1>2. TasksOK' /\ TasksSound'
  BY <1>1, BecomeFits, ProcFacts DEF SessionEnd
<1>3. \A w \in wake : w = <<w[1], w[2]>> /\ w[1] \in dirs /\ w[2] \in Record
  BY DEF Safe, TypeOK, SessionsOK
<1>4. SessionsOK'
  BY <1>3 DEF SessionEnd, Safe, TypeOK, SessionsOK
<1>5. CountsOK'
  BY CallCounts, ProcFacts DEF SessionEnd
<1> QED BY <1>2, <1>4, <1>5, SessionStepSafe DEF SessionEnd

LEMMA EndScanSafe == ASSUME Safe, NEW s \in Session, EndScan(s) PROVE Safe'
<1> DEFINE t == [task[s] EXCEPT !.todo = {r \in Record : routing[r] # NoRouting}]
<1>1. t \in Task /\ t.op # "finish"
  <2>1. task[s] \in Task /\ task[s].op # "finish"
    BY TaskOf, ProcFacts DEF EndScan, At, Sound
  <2>2. {r \in Record : routing[r] # NoRouting} \in SUBSET Record /\ {} \in SUBSET Session
    OBVIOUS
  <2> QED BY <2>1, <2>2, ListFits
<1> QED BY <1>1, AfterRecordFits, QuietMove, ProcFacts DEF EndScan

LEMMA EndLoadSafe ==
  ASSUME Safe, NEW s \in Session, NEW r \in Record, EndLoad(s, r)
  PROVE  Safe'
<1> DEFINE rt == LoadRouting(r)
           t == [task[s] EXCEPT !.todo = @ \ {r}, !.r = r]
           u == [t EXCEPT !.pc = "endSave", !.copy = Cleared(rt)]
<1>1. t \in Task /\ t.r = r
  <2>1. task[s] \in Task
    BY TaskOf, ProcFacts
  <2> QED BY <2>1, TakeFits
<1>2. AfterRecord(t) \in Task /\ Sound(s, AfterRecord(t), told)
  BY <1>1, AfterRecordFits
<1>3. Cleared(rt) \in Routings /\ Cleared(rt).cur = NoSession
  BY LoadFits, ClearedFits DEF Safe, TypeOK
<1>4. u \in Task /\ Sound(s, u, told)
  BY <1>1, <1>3 DEF Task, Pc, Sound, NoRecordYet
<1>5. Become(s, AfterRecord(t)) \/ Become(s, u)
  BY DEF EndLoad
<1> QED BY <1>2, <1>4, <1>5, QuietMove, ProcFacts DEF EndLoad

LEMMA EndSaveSafe == ASSUME Safe, NEW s \in Session, EndSave(s) PROVE Safe'
<1> DEFINE t == task[s]
<1>1. t \in Task /\ t.r \in Record /\ t.copy.cur = NoSession
  BY TaskOf, ProcFacts DEF EndSave, At, Sound, NoRecordYet
<1>2. t.copy \in Routings
  BY <1>1 DEF Task
<1>3. TasksOK' /\ TasksSound'
  BY <1>1, EndFits, ProcFacts DEF EndSave
<1> QED BY <1>1, <1>2, <1>3, RoutingWritten, ToldTyped DEF EndSave

LEMMA HeartbeatSafe == ASSUME Safe, NEW s \in Session, Heartbeat(s) PROVE Safe'
<1>1. /\ Work("beat", NoRecord, "beat") \in Task
      /\ Sound(s, Work("beat", NoRecord, "beat"), told)
  BY WorkFits DEF Op, Pc, Sound, NoRecordYet
<1> QED BY <1>1, CallMove, ProcFacts DEF Heartbeat

LEMMA BeatSafe == ASSUME Safe, NEW s \in Session, Beat(s) PROVE Safe'
<1>1. TasksOK' /\ TasksSound'
  BY IdleFits, BecomeFits, ProcFacts DEF Beat
<1>2. SessionsOK' /\ CountsOK'
  BY SessionsGrow, CountsKept DEF Beat
<1> QED BY <1>1, <1>2, SessionStepSafe DEF Beat

LEMMA FadeSafe == ASSUME Safe, NEW s \in Session, Fade(s) PROVE Safe'
<1>1. TasksOK' /\ TasksSound'
  BY StayFits DEF Fade
<1>2. SessionsOK' /\ CountsOK'
  BY CountsKept DEF Fade, Safe, TypeOK, SessionsOK
<1> QED BY <1>1, <1>2, SessionStepSafe DEF Fade

-----------------------------------------------------------------------------
(* Failures, and the theorems. *)

LEMMA WriteFailsSafe == ASSUME Safe, NEW p \in Proc, WriteFails(p) PROVE Safe'
<1>1. task[p].r \in Record
  BY TaskOf DEF WriteFails, Sound, NoRecordYet
<1>2. TasksOK' /\ TasksSound' /\ CountsOK'
  BY <1>1, EndFits, FaultCounts DEF WriteFails
<1> QED BY <1>2, QuietSafe DEF WriteFails

LEMMA DiesSafe == ASSUME Safe, NEW p \in Proc, Dies(p) PROVE Safe'
<1>1. TasksOK' /\ TasksSound' /\ CountsOK'
  BY IdleFits, BecomeFits, FaultCounts DEF Dies
<1> QED BY <1>1, QuietSafe DEF Dies

LEMMA RestartSafe == ASSUME Safe, Restart PROVE Safe'
<1>1. TasksOK' /\ TasksSound'
  BY IdleFits DEF Restart, Safe, TypeOK, TasksOK, TasksSound
<1>2. CountsOK'
  BY RoutingAssumption DEF Restart, Safe, TypeOK, CountsOK
<1> QED BY <1>1, <1>2, QuietSafe DEF Restart

LEMMA InitSafe == Init => Safe
<1> SUFFICES ASSUME Init PROVE Safe
  OBVIOUS
<1>1. RecordsOK /\ SessionsOK /\ RoutingOK /\ CountsOK
  BY RoutingAssumption DEF Init, RecordsOK, SessionsOK, RoutingOK, CountsOK
<1>2. TasksOK /\ TasksSound
  BY IdleFits DEF Init, TasksOK, TasksSound
<1>3. HolderWasTold
  BY DEF Init, HolderWasTold
<1> QED BY <1>1, <1>2, <1>3 DEF Safe, TypeOK

LEMMA RouteStepSafe ==
  ASSUME Safe, NEW p \in Proc, RouteStep(p)
  PROVE  Safe'
  BY GetSafe, PickSafe, WriteWakeSafe, SaveSafe, UnwakeSafe, UnrouteSafe DEF RouteStep

LEMMA HookStepSafe ==
  ASSUME Safe, NEW s \in Session, HookStep(s)
  PROVE  Safe'
  BY SessionStartSafe, SweepScanSafe, SweepSafe, BacklogSafe, AssignSafe, AssignSaveSafe,
     SessionEndSafe, EndScanSafe, EndLoadSafe, EndSaveSafe, HeartbeatSafe, BeatSafe DEF HookStep

LEMMA NextSafe == Safe /\ [Next]_vars => Safe'
<1> SUFFICES ASSUME Safe, [Next]_vars PROVE Safe'
  OBVIOUS
<1>1. CASE LeaseStep
  BY <1>1, TickSafe, JudgeSafe, RmWakeSafe, LeaseGetSafe, RouteStepSafe, ProcFacts
     DEF LeaseStep, RouteStep
<1>2. CASE \E p \in Record \union Cmd : RouteStep(p)
  BY <1>2, RouteStepSafe, ProcFacts
<1>3. CASE \E c \in Cmd : CmdStep(c)
  BY <1>3, CommandSafe, LookSafe, UnlinkSafe DEF CmdStep
<1>4. CASE \E s \in Session : HookStep(s) \/ Fade(s)
  BY <1>4, HookStepSafe, FadeSafe
<1>5. CASE \E r \in Record : Arrive(r) \/ LeaseEnds(r)
  BY <1>5, ArriveSafe, LeaseEndsSafe
<1>6. CASE Restart \/ \E p \in Proc : WriteFails(p) \/ Dies(p)
  BY <1>6, RestartSafe, WriteFailsSafe, DiesSafe
<1>7. CASE UNCHANGED vars
  <2>1. UNCHANGED <<records, sessions, wake, routing, told, bounds, task>>
    BY <1>7 DEF vars
  <2>2. TasksOK' /\ TasksSound' /\ CountsOK'
    BY <2>1, StayFits, CountsKept
  <2> QED BY <2>1, <2>2, QuietSafe
<1> QED BY <1>1, <1>2, <1>3, <1>4, <1>5, <1>6, <1>7 DEF Next

LEMMA AlwaysSafe == Spec => []Safe
  BY InitSafe, NextSafe, PTL DEF Spec

(* Every variable keeps its type, whatever hooks, commands and the lease loop do    *)
(* at the same time: wake files lie in directories, routings without a holder have  *)
(* no lease.                                                                       *)
THEOREM RoutingTypes == Spec => []TypeOK
<1>1. Safe => TypeOK
  BY DEF Safe
<1> QED BY <1>1, AlwaysSafe, PTL

(* A session that holds a record was told of it before the routing said so, for any *)
(* interleaving of stale copies, crashes and failed writes.                         *)
THEOREM HoldersAreTold == Spec => []HolderWasTold
<1>1. Safe => HolderWasTold
  BY DEF Safe
<1> QED BY <1>1, AlwaysSafe, PTL
=============================================================================
