------------------------- MODULE ReplayWindowProofs -------------------------
(***************************************************************************)
(* NoReplay for every set of ids and handlers, every stamp, every window    *)
(* and every TTL of at least twice the window.                              *)
(***************************************************************************)
EXTENDS ReplayWindow, TLAPS

(* An id that can no longer be fresh.                                        *)
Stale(id) == now > Stamp[id] + Window
Remembers(S) == \A id \in remembered : id \in Ids(S) \/ Stale(id)
(* An entry was made while its id was fresh.                                 *)
EntryFresh(e) == Stamp[e.id] <= e.at + Window

(* A handler at work holds an id that was fresh when its clock was read, and  *)
(* only the holder of the lock is between the entry and the end of the save.  *)
Working(h) ==
  LET t == task[h]
  IN /\ t.pc # "idle" => t.id \in Id /\ Stamp[t.id] <= t.at + Window
     /\ t.pc \in {"truncate", "write"} => lock = h /\ t.id \in Ids(seen)
     /\ t.late => lost

IInv ==
  /\ TypeOK
  /\ NoReplay
  /\ \A h \in Handler : Working(h)
  /\ \A e \in seen \union file : EntryFresh(e)
  /\ lost \/ Remembers(seen)
  /\ lost \/ torn \/ Remembers(file)

(* The initial state satisfies the inductive invariant.                       *)
LEMMA InitIInv == Init => IInv
<1> SUFFICES ASSUME Init PROVE IInv
  OBVIOUS
<1>1. Idle \in Task
  BY DEF Idle, Task
<1>2. TypeOK
  <2>1. task \in [Handler -> Task]
    BY <1>1 DEF Init
  <2> QED BY <2>1 DEF Init, TypeOK
<1>3. \A h \in Handler : Working(h)
  BY DEF Init, Working, Idle
<1>4. NoReplay /\ Remembers(seen) /\ Remembers(file)
  BY DEF Init, NoReplay, Remembers
<1>5. \A e \in seen \union file : EntryFresh(e)
  BY DEF Init
<1> QED BY <1>2, <1>3, <1>4, <1>5 DEF IInv

(* The handler steps that leave the ids, the file and the clock alone.        *)
LEMMA AdmitIInv ==
  ASSUME IInv, NEW h \in Handler, NEW id \in Id, Admit(h, id)
  PROVE  IInv'
<1> USE ReplayAssumption
<1> DEFINE t == [pc |-> "spool", id |-> id, at |-> now, late |-> id \in remembered]
<1>1. t \in Task /\ task' = [task EXCEPT ![h] = t]
  BY DEF IInv, TypeOK, Task, Admit, Become
<1>2. TypeOK'
  BY <1>1 DEF IInv, TypeOK, Admit
<1>3. (id \in remembered) => lost
  BY DEF IInv, Admit, Fresh, Remembers, Stale, TypeOK
<1>4. ASSUME NEW g \in Handler PROVE Working(g)'
  <2>1. CASE g = h
    <3>1. task'[g] = t
      BY <1>1, <2>1 DEF IInv, TypeOK
    <3>2. Stamp[id] <= now + Window
      BY DEF Admit, Fresh, IInv, TypeOK
    <3>3. lost' = lost
      BY DEF Admit
    <3> HIDE DEF t
    <3>4. t.pc = "spool" /\ t.id = id /\ t.at = now /\ (t.late => lost)
      BY <1>3 DEF t
    <3> QED BY <3>1, <3>2, <3>3, <3>4 DEF Working
  <2>2. CASE g # h
    <3>1. task'[g] = task[g]
      BY <1>1, <2>2 DEF IInv, TypeOK
    <3> QED BY <3>1 DEF IInv, Working, Admit
  <2> QED BY <2>1, <2>2
<1> QED BY <1>2, <1>4 DEF IInv, NoReplay, Remembers, Stale, EntryFresh, Admit, Ids

LEMMA SpoolIInv ==
  ASSUME IInv, NEW h \in Handler, Spool(h)
  PROVE  IInv'
<1> USE ReplayAssumption
<1> DEFINE t == [task[h] EXCEPT !.pc = "remember"]
<1>0. task[h] \in Task /\ Working(h) /\ task[h].id \in Id
  BY DEF IInv, TypeOK, Spool, Working
<1>1. t \in Task /\ task' = [task EXCEPT ![h] = t]
  BY <1>0 DEF Task, Spool, Goto, Become
<1>2. TypeOK'
  BY <1>0, <1>1 DEF IInv, TypeOK, Spool
<1>3. NoReplay'
  BY <1>0 DEF IInv, NoReplay, Spool, Working
<1>4. ASSUME NEW g \in Handler PROVE Working(g)'
  BY <1>0, <1>1 DEF IInv, TypeOK, Working, Spool, Task
<1> QED BY <1>2, <1>3, <1>4 DEF IInv, Remembers, Stale, EntryFresh, Spool, Ids

(* A refused request leaves the ids alone.                                    *)
LEMMA RefuseIInv ==
  ASSUME IInv, NEW h \in Handler, Refuse(h)
  PROVE  IInv'
<1> USE ReplayAssumption
<1>1. Idle \in Task /\ task' = [task EXCEPT ![h] = Idle]
  BY DEF Task, Idle, Refuse, Become
<1>2. TypeOK'
  BY <1>1 DEF IInv, TypeOK, Refuse
<1>3. ASSUME NEW g \in Handler PROVE Working(g)'
  BY <1>1 DEF IInv, TypeOK, Working, Refuse, Idle, Ids
<1> QED BY <1>2, <1>3 DEF IInv, NoReplay, Remembers, Stale, EntryFresh, Refuse, Ids

LEMMA RememberIInv ==
  ASSUME IInv, NEW h \in Handler, Remember(h)
  PROVE  IInv'
<1> USE ReplayAssumption
<1> DEFINE t == [task[h] EXCEPT !.pc = "truncate"]
           e == [id |-> task[h].id, at |-> task[h].at]
<1>0. task[h] \in Task /\ Working(h) /\ task[h].id \in Id /\ Stamp[task[h].id] <= task[h].at + Window
  BY DEF IInv, TypeOK, Remember, Working
<1>1. t \in Task /\ task' = [task EXCEPT ![h] = t]
  BY <1>0 DEF Task, Remember, Goto, Become
<1>2. e \in Entry /\ EntryFresh(e)
  BY <1>0 DEF Entry, Task, EntryFresh
<1>3. seen \subseteq seen' /\ seen' \subseteq seen \union {e}
  BY DEF Remember, Insert
<1>4. task[h].id \in Ids(seen')
  <2>1. CASE task[h].id \in Ids(seen)
    BY <1>3, <2>1 DEF Ids
  <2>2. CASE task[h].id \notin Ids(seen)
    <3>1. e \in seen' /\ e.id = task[h].id
      BY <2>2 DEF Remember, Insert
    <3> QED BY <3>1 DEF Ids
  <2> QED BY <2>1, <2>2
<1>5. TypeOK'
  BY <1>1, <1>2, <1>3 DEF IInv, TypeOK, Remember
<1>6. ASSUME NEW g \in Handler PROVE Working(g)'
  <2>1. CASE g = h
    BY <1>0, <1>1, <1>4, <2>1 DEF IInv, TypeOK, Working, Remember, Ids, Task
  <2>2. CASE g # h
    <3>1. task'[g] = task[g] /\ task[g].pc \notin {"truncate", "write"}
      BY <1>1, <2>2 DEF IInv, TypeOK, Working, Remember
    <3> QED BY <3>1 DEF IInv, Working, Remember
  <2> QED BY <2>1, <2>2
<1>7. \A f \in seen' \union file : EntryFresh(f)
  BY <1>2, <1>3 DEF IInv
<1>8. lost \/ Remembers(seen)'
  BY <1>3 DEF IInv, Remembers, Ids, Stale, Remember
<1> QED BY <1>5, <1>6, <1>7, <1>8 DEF IInv, NoReplay, Remembers, Stale, EntryFresh, Remember, Ids

LEMMA TruncateIInv ==
  ASSUME IInv, NEW h \in Handler, Truncate(h)
  PROVE  IInv'
<1> USE ReplayAssumption
<1> DEFINE t == [task[h] EXCEPT !.pc = "write"]
<1>0. task[h] \in Task /\ Working(h)
  BY DEF IInv, TypeOK
<1>1. t \in Task /\ task' = [task EXCEPT ![h] = t]
  BY <1>0 DEF Task, Truncate, Goto, Become
<1>2. TypeOK'
  BY <1>1 DEF IInv, TypeOK, Truncate
<1>3. ASSUME NEW g \in Handler PROVE Working(g)'
  BY <1>0, <1>1 DEF IInv, TypeOK, Working, Truncate, Task, Ids
<1> QED BY <1>2, <1>3 DEF IInv, NoReplay, Remembers, Stale, EntryFresh, Truncate, Ids

LEMMA WriteIInv ==
  ASSUME IInv, NEW h \in Handler, Write(h)
  PROVE  IInv'
<1> USE ReplayAssumption
<1>0. task[h] \in Task /\ Working(h) /\ task[h].id \in Id /\ task[h].id \in Ids(seen) /\ lock = h
  BY DEF IInv, TypeOK, Write, Working
<1>1. Idle \in Task /\ task' = [task EXCEPT ![h] = Idle]
  BY DEF Task, Idle, Write, Become
<1>2. TypeOK'
  BY <1>0, <1>1 DEF IInv, TypeOK, Write
<1>3. ASSUME NEW g \in Handler PROVE Working(g)'
  <2>1. CASE g = h
    BY <1>1, <2>1 DEF IInv, TypeOK, Working, Idle
  <2>2. CASE g # h
    <3>1. task'[g] = task[g] /\ task[g].pc \notin {"truncate", "write"}
      BY <1>0, <1>1, <2>2 DEF IInv, TypeOK, Working
    <3> QED BY <3>1 DEF IInv, Working, Write
  <2> QED BY <2>1, <2>2
<1>4. lost \/ Remembers(seen)'
  BY <1>0 DEF IInv, Remembers, Stale, Write, Ids
<1>5. file' = seen' /\ (lost' <=> lost)
  BY DEF Write
<1> QED BY <1>2, <1>3, <1>4, <1>5 DEF IInv, NoReplay, Remembers, EntryFresh, Write, Ids

LEMMA SaveFailsIInv ==
  ASSUME IInv, NEW h \in Handler, SaveFails(h)
  PROVE  IInv'
<1> USE ReplayAssumption
<1>0. task[h] \in Task /\ Working(h) /\ lock = h
  BY DEF IInv, TypeOK, SaveFails, Working
<1>1. Idle \in Task /\ task' = [task EXCEPT ![h] = Idle]
  BY DEF Task, Idle, SaveFails, Become
<1>2. TypeOK'
  BY <1>1 DEF IInv, TypeOK, SaveFails
<1>3. ASSUME NEW g \in Handler PROVE Working(g)'
  <2>1. CASE g = h
    BY <1>1, <2>1 DEF IInv, TypeOK, Working, Idle
  <2>2. CASE g # h
    <3>1. task'[g] = task[g] /\ task[g].pc \notin {"truncate", "write"}
      BY <1>0, <1>1, <2>2 DEF IInv, TypeOK, Working
    <3> QED BY <3>1 DEF IInv, Working, SaveFails
  <2> QED BY <2>1, <2>2
<1> QED BY <1>2, <1>3 DEF IInv, NoReplay, Remembers, Stale, EntryFresh, SaveFails, Ids

(* What a restart prunes is stale: this is where the TTL must be twice the      *)
(* window.                                                                      *)
LEMMA RestartIInv ==
  ASSUME IInv, Restart
  PROVE  IInv'
<1> USE ReplayAssumption
<1>1. Idle \in Task /\ task' = [h \in Handler |-> Idle]
  BY DEF Task, Idle, Restart
<1>2. seen' \subseteq file /\ file' = file
  BY DEF Restart, Load
<1>3. TypeOK'
  BY <1>1, <1>2 DEF IInv, TypeOK, Restart
<1>4. ASSUME NEW g \in Handler PROVE Working(g)'
  BY <1>1 DEF Working, Idle
<1>5. \A e \in seen' \union file' : EntryFresh(e)
  BY <1>2 DEF IInv
<1>6. ASSUME ~lost, ~torn, NEW id \in remembered, ~Stale(id)
      PROVE  id \in Ids(seen')
  <2>1. PICK e \in file : e.id = id
    BY <1>6 DEF IInv, Remembers, Ids
  <2>2. e \in Entry /\ Stamp[id] <= e.at + Window
    BY <2>1 DEF IInv, TypeOK, EntryFresh
  <2>3. now - e.at <= Ttl
    BY <1>6, <2>2 DEF Stale, Entry, IInv, TypeOK
  <2>4. e \in seen'
    BY <2>1, <2>3 DEF Restart, Load, Kept
  <2> QED BY <2>1, <2>4 DEF Ids
<1>7. lost' \/ Remembers(seen)'
  BY <1>6 DEF Remembers, Stale, Restart
<1> QED BY <1>3, <1>4, <1>5, <1>7 DEF IInv, NoReplay, Remembers, Stale, EntryFresh, Restart, Ids

LEMMA TickIInv ==
  ASSUME IInv, Tick
  PROVE  IInv'
<1> USE ReplayAssumption
<1>1. TypeOK'
  BY DEF IInv, TypeOK, Tick
<1>2. ASSUME NEW g \in Handler PROVE Working(g)'
  BY DEF IInv, Working, Tick
<1>3. ASSUME NEW id \in Id, Stale(id) PROVE Stale(id)'
  BY <1>3 DEF Stale, Tick, IInv, TypeOK
<1> QED BY <1>1, <1>2, <1>3 DEF IInv, NoReplay, Remembers, EntryFresh, Tick, Ids, TypeOK

LEMMA NextIInv == IInv /\ [Next]_vars => IInv'
<1>1. IInv /\ Next => IInv'
  BY AdmitIInv, SpoolIInv, RefuseIInv, RememberIInv, TruncateIInv, WriteIInv, SaveFailsIInv, RestartIInv,
     TickIInv DEF Next
<1>2. IInv /\ UNCHANGED vars => IInv'
  BY DEF IInv, TypeOK, NoReplay, Working, Remembers, Stale, EntryFresh, vars, Ids
<1> QED BY <1>1, <1>2

(* No request whose acceptance was completed is accepted again by a later      *)
(* delivery, unless a restart read a torn seen-ids.txt.                        *)
THEOREM NoReplayTheorem == Spec => []NoReplay
<1>1. IInv => NoReplay
  BY DEF IInv
<1> QED BY InitIInv, NextIInv, <1>1, PTL DEF Spec
=============================================================================
