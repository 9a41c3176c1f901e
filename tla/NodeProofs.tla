------------------------------ MODULE NodeProofs ------------------------------
(***************************************************************************)
(* Theorems about Node, and with it Install, for any terminals, builds and *)
(* kinds of request and any bounds.                                        *)
(*                                                                         *)
(* KeySound: between the creation of the key file and its last byte the    *)
(* file is empty, and one init at most is there.  CallSound: what a        *)
(* delivery, the forward route and the command may rely on at each of      *)
(* their program points; `held` is never emptied, and `was` only falls     *)
(* when a new delivery starts.                                             *)
(***************************************************************************)
EXTENDS Node, TLAPS

KeySound ==
  /\ \A t \in Terminal : At(t, "writeKey") => key = "empty"
  /\ \A t, u \in Terminal : At(t, "writeKey") /\ At(u, "writeKey") => t = u
  /\ PrintedIsKept

(* What the delivery r promises when b says whether the asker is a contact  *)
(* and h is what the peer holds.                                            *)
Sound(r, b, h) ==
  /\ r.pc = "none" => r.status = 0 /\ r.on = None
  /\ r.pc # "none" => r.on \in Process
  /\ r.pc # "none" /\ b => r.was
  /\ r.pc \in {"limits", "put", "remember"} => r.was
  /\ r.status = 202 => r.was /\ h # None
  /\ r.pc = "remember" => h # None

Untouched ==
  /\ kind = None /\ filed = None /\ held = None
  /\ forward = [pc |-> "off", status |-> 0]
  /\ \A x \in Transport : req[x] = NoReq

CallSound ==
  /\ client = "idle" => Untouched
  /\ client # "idle" => kind \in Kind
  /\ \A x \in Transport : Sound(req[x], book, held)
  /\ forward.status = 202 \/ client = "file" \/ filed # None => held # None

Safe == TypeOK /\ KeySound /\ CallSound

-----------------------------------------------------------------------------
(* The machine: types.                                                      *)

CommandsOK == cmd \in [Terminal -> CommandState]
DaemonsOK == daemon \in [Process -> DaemonState]

CommandPc ==
  {"idle", "initCheck", "config", "configEnd", "createKey", "writeKey",
   "writeUnit", "load", "plugin", "unitThere", "unload", "removeUnit",
   "build", "copy", "copying", "rename", "verify"}

LEMMA NewBuildFits == NewBuild \in Build
  BY InstallAssumption DEF NewBuild

LEMMA GotoFits ==
  ASSUME CommandsOK, NEW t \in Terminal, NEW pc \in CommandPc, Goto(t, pc)
  PROVE  /\ CommandsOK'
         /\ cmd'[t].pc = pc /\ cmd'[t].op = cmd[t].op
         /\ \A u \in Terminal \ {t} : cmd'[u] = cmd[u]
  BY DEF CommandsOK, Goto, Become, CommandState, CommandPc

LEMMA EndsFits ==
  ASSUME CommandsOK, NEW t \in Terminal, Ends(t)
  PROVE  /\ CommandsOK'
         /\ cmd'[t].pc = "idle" /\ cmd'[t].op = "none"
         /\ \A u \in Terminal \ {t} : cmd'[u] = cmd[u]
  BY DEF CommandsOK, Ends, Become, CommandState, Idle

LEMMA BeginFits ==
  ASSUME CommandsOK, NEW t \in Terminal, Begin(t)
  PROVE  /\ CommandsOK'
         /\ cmd'[t].pc # "writeKey"
         /\ cmd'[t].op = "update" => cmd'[t].pc = "build"
         /\ \A u \in Terminal \ {t} : cmd'[u] = cmd[u]
  <1>1. PICK op \in {"setup", "init", "install", "uninstall", "update"} :
          Become(t, [op |-> op, pc |-> FirstStep(op)])
    BY DEF Begin
  <1>2. /\ FirstStep(op) \in CommandPc \ {"writeKey"}
        /\ op = "update" => FirstStep(op) = "build"
    BY DEF FirstStep, CommandPc
  <1>3. [op |-> op, pc |-> FirstStep(op)] \in CommandState
    BY <1>2 DEF CommandState, CommandPc
  <1> QED BY <1>1, <1>2, <1>3 DEF CommandsOK, Become

LEMMA StopFits ==
  ASSUME DaemonsOK, NEW p \in Process, Stop(p)
  PROVE  DaemonsOK'
  BY DEF DaemonsOK, Stop, Off, DaemonState

LEMMA DaemonPcFits ==
  ASSUME DaemonsOK, NEW p \in Process, NEW pc \in {"iroh", "up"},
         daemon' = [daemon EXCEPT ![p].pc = pc]
  PROVE  DaemonsOK'
  BY DEF DaemonsOK, DaemonState

LEMMA StartsFits ==
  ASSUME InstallTypeOK, NEW p \in Process, Starts(p)
  PROVE  DaemonsOK'
  <1>1. binary \in Build BY DEF InstallTypeOK, Starts, Startable
  <1> QED BY <1>1 DEF InstallTypeOK, DaemonsOK, Starts, DaemonState

-----------------------------------------------------------------------------
(* The machine: a step of a command. *)

(* What a step of t leaves of KeySound when it leaves the home alone. *)
LEMMA KeyStays ==
  ASSUME KeySound, NEW t \in Terminal, UNCHANGED home, cmd'[t].pc # "writeKey",
         \A u \in Terminal \ {t} : cmd'[u] = cmd[u]
  PROVE  KeySound'
  BY DEF KeySound, PrintedIsKept, home, At

LEMMA KeyStaysOutside ==
  ASSUME KeySound, UNCHANGED <<home, cmd>>
  PROVE  KeySound'
  BY DEF KeySound, PrintedIsKept, home, At

InitStep(t) == InitCheck(t) \/ SaveConfig(t) \/ CreateKey(t) \/ WriteKey(t)

LEMMA InitTypes ==
  ASSUME InstallTypeOK, NEW t \in Terminal, InitStep(t)
  PROVE  InstallTypeOK'
  <1> USE DEF InstallTypeOK, home, files, Quiet, CommandPc
  <1> CommandsOK BY DEF CommandsOK
  <1>1. CASE InitCheck(t)
    <2>1. CommandsOK' BY <1>1, GotoFits, EndsFits DEF InitCheck
    <2> QED BY <1>1, <2>1 DEF InitCheck, CommandsOK
  <1>2. CASE SaveConfig(t)
    <2>1. CommandsOK' BY <1>2, GotoFits, EndsFits DEF SaveConfig
    <2> QED BY <1>2, <2>1 DEF SaveConfig, CommandsOK
  <1>3. CASE CreateKey(t)
    <2>1. CommandsOK' BY <1>3, GotoFits, EndsFits DEF CreateKey
    <2> QED BY <1>3, <2>1 DEF CreateKey, CommandsOK, KeyFile
  <1>4. CASE WriteKey(t)
    <2>1. CommandsOK' BY <1>4, GotoFits, EndsFits DEF WriteKey
    <2> QED BY <1>4, <2>1 DEF WriteKey, CommandsOK, KeyFile
  <1> QED BY <1>1, <1>2, <1>3, <1>4 DEF InitStep

LEMMA InitKeys ==
  ASSUME InstallTypeOK, KeySound, NEW t \in Terminal, InitStep(t)
  PROVE  KeySound'
  <1> CommandsOK BY DEF CommandsOK, InstallTypeOK
  <1> USE DEF home, CommandPc
  <1>1. CASE InitCheck(t)
    BY <1>1, GotoFits, EndsFits, KeyStays DEF InitCheck
  <1>2. CASE SaveConfig(t)
    <2>1. /\ cmd'[t].pc # "writeKey"
          /\ \A u \in Terminal \ {t} : cmd'[u] = cmd[u]
      BY <1>2, GotoFits, EndsFits DEF SaveConfig
    <2> QED BY <1>2, <2>1 DEF SaveConfig, KeySound, PrintedIsKept, At
  <1>3. CASE CreateKey(t)
    <2>1. CASE key = None
      <3>1. /\ \A u \in Terminal \ {t} : cmd'[u] = cmd[u]
            /\ key' = "empty" /\ printed' = printed
        BY <1>3, <2>1, GotoFits DEF CreateKey
      <3>2. \A u \in Terminal : ~At(u, "writeKey")
        BY <2>1, InstallAssumption DEF KeySound
      <3>3. printed = {}
        BY <2>1, InstallAssumption DEF KeySound, PrintedIsKept, InstallTypeOK
      <3> QED BY <3>1, <3>2, <3>3 DEF KeySound, PrintedIsKept, At
    <2>2. CASE key # None
      BY <1>3, <2>2, EndsFits, KeyStays DEF CreateKey
    <2> QED BY <2>1, <2>2
  <1>4. CASE WriteKey(t)
    <2>1. /\ cmd'[t].pc # "writeKey"
          /\ \A u \in Terminal \ {t} : cmd'[u] = cmd[u]
      BY <1>4, GotoFits, EndsFits DEF WriteKey
    <2>2. key = "empty" /\ \A u \in Terminal \ {t} : ~At(u, "writeKey")
      BY <1>4 DEF KeySound, WriteKey
    <2>3. printed = {}
      BY <2>2, InstallAssumption DEF KeySound, PrintedIsKept, InstallTypeOK
    <2>4. key' = t /\ printed' = {t}
      BY <1>4, <2>3 DEF WriteKey
    <2> QED BY <2>1, <2>2, <2>4 DEF KeySound, PrintedIsKept, At
  <1> QED BY <1>1, <1>2, <1>3, <1>4 DEF InitStep

UnitStep(t) ==
  WriteUnit(t) \/ Load(t) \/ Plugin(t) \/ UnitThere(t) \/ Unload(t) \/ RemoveUnit(t)
UpdateStep(t) == MakeBuild(t) \/ Copy(t) \/ Rename(t) \/ Verify(t)

(* A step of a command that is not one of init. *)
LEMMA OtherCommandFits ==
  ASSUME CommandsOK, NEW t \in Terminal,
         Begin(t) \/ Dies(t) \/ UnitStep(t) \/ UpdateStep(t)
  PROVE  /\ CommandsOK'
         /\ cmd'[t].pc # "writeKey"
         /\ \A u \in Terminal \ {t} : cmd'[u] = cmd[u]
         /\ UNCHANGED home
  <1> USE DEF CommandPc
  <1>1. CASE Begin(t)
    BY <1>1, BeginFits DEF Begin
  <1>2. CASE Dies(t)
    BY <1>2, EndsFits DEF Dies
  <1>3. CASE UnitStep(t)
    <2>1. CASE WriteUnit(t) BY <2>1, GotoFits DEF WriteUnit
    <2>2. CASE Load(t) BY <2>2, GotoFits, EndsFits DEF Load
    <2>3. CASE Plugin(t) BY <2>3, EndsFits DEF Plugin
    <2>4. CASE UnitThere(t) BY <2>4, GotoFits, EndsFits DEF UnitThere, Afterwards
    <2>5. CASE Unload(t) BY <2>5, GotoFits, EndsFits DEF Unload
    <2>6. CASE RemoveUnit(t) BY <2>6, GotoFits, EndsFits DEF RemoveUnit, Afterwards
    <2> QED BY <1>3, <2>1, <2>2, <2>3, <2>4, <2>5, <2>6 DEF UnitStep
  <1>4. CASE UpdateStep(t)
    <2>1. CASE MakeBuild(t) BY <2>1, GotoFits, EndsFits DEF MakeBuild
    <2>2. CASE Copy(t) BY <2>2, GotoFits, EndsFits DEF Copy
    <2>3. CASE Rename(t) BY <2>3, GotoFits, EndsFits DEF Rename
    <2>4. CASE Verify(t) BY <2>4, GotoFits, EndsFits DEF Verify, AfterVerify
    <2> QED BY <1>4, <2>1, <2>2, <2>3, <2>4 DEF UpdateStep
  <1> QED BY <1>1, <1>2, <1>3, <1>4

LEMMA OtherCommandTypes ==
  ASSUME InstallTypeOK, NEW t \in Terminal,
         Begin(t) \/ Dies(t) \/ UnitStep(t) \/ UpdateStep(t)
  PROVE  InstallTypeOK'
  <1> USE DEF InstallTypeOK, home, files, Quiet
  <1>1. /\ CommandsOK' /\ UNCHANGED home
    BY OtherCommandFits DEF CommandsOK
  <1>2. CASE Begin(t)
    BY <1>1, <1>2 DEF Begin, CommandsOK
  <1>3. CASE Dies(t)
    BY <1>1, <1>3 DEF Dies, CommandsOK
  <1>4. CASE UnitStep(t)
    <2>1. CASE WriteUnit(t) BY <1>1, <2>1 DEF WriteUnit, CommandsOK
    <2>2. CASE Load(t) BY <1>1, <2>2 DEF Load, CommandsOK
    <2>3. CASE Plugin(t) BY <1>1, <2>3, NewBuildFits DEF Plugin, CommandsOK
    <2>4. CASE UnitThere(t)
      <3>1. missed' \in BOOLEAN BY <2>4 DEF UnitThere
      <3> QED BY <1>1, <2>4, <3>1 DEF UnitThere, CommandsOK
    <2>5. CASE Unload(t)
      <3>1. DaemonsOK' BY <2>5, StopFits DEF Unload, DaemonsOK, Process
      <3> QED BY <1>1, <2>5, <3>1 DEF Unload, CommandsOK, DaemonsOK
    <2>6. CASE RemoveUnit(t) BY <1>1, <2>6 DEF RemoveUnit, CommandsOK
    <2> QED BY <1>4, <2>1, <2>2, <2>3, <2>4, <2>5, <2>6 DEF UnitStep
  <1>5. CASE UpdateStep(t)
    <2>1. CASE MakeBuild(t) BY <1>1, <2>1 DEF MakeBuild, CommandsOK
    <2>2. CASE Copy(t) BY <1>1, <2>2, NewBuildFits DEF Copy, CommandsOK
    <2>3. CASE Rename(t) BY <1>1, <2>3 DEF Rename, CommandsOK
    <2>4. CASE Verify(t) BY <1>1, <2>4 DEF Verify, CommandsOK
    <2> QED BY <1>5, <2>1, <2>2, <2>3, <2>4 DEF UpdateStep
  <1> QED BY <1>2, <1>3, <1>4, <1>5

DaemonAct ==
  DaemonStep \/ StartManual \/ StopManual \/ \E p \in Process : Crash(p)

LEMMA DaemonTypes ==
  ASSUME InstallTypeOK, DaemonAct
  PROVE  InstallTypeOK' /\ UNCHANGED <<home, cmd>>
  <1> USE DEF InstallTypeOK, home, files
  <1> DaemonsOK BY DEF DaemonsOK
  <1>1. CASE StartService
    <2>1. DaemonsOK' BY <1>1, StartsFits DEF StartService, Process
    <2> QED BY <1>1, <2>1 DEF StartService, Starts, DaemonsOK
  <1>2. CASE StartManual
    <2>1. DaemonsOK' BY <1>2, StartsFits DEF StartManual, Process
    <2> QED BY <1>2, <2>1 DEF StartManual, Starts, DaemonsOK
  <1>3. CASE StopManual
    <2>1. DaemonsOK' BY <1>3, StopFits DEF StopManual, Process
    <2> QED BY <1>3, <2>1 DEF StopManual, DaemonsOK
  <1>4. ASSUME NEW p \in Process, IrohUp(p)
        PROVE  InstallTypeOK' /\ UNCHANGED <<home, cmd>>
    <2>1. DaemonsOK' BY <1>4, DaemonPcFits DEF IrohUp
    <2> QED BY <1>4, <2>1 DEF IrohUp, DaemonsOK
  <1>5. ASSUME NEW p \in Process, Bind(p)
        PROVE  InstallTypeOK' /\ UNCHANGED <<home, cmd>>
    <2>1. DaemonsOK' BY <1>5, DaemonPcFits, StopFits DEF Bind
    <2> QED BY <1>5, <2>1 DEF Bind, DaemonsOK
  <1>6. ASSUME NEW p \in Process, Crash(p)
        PROVE  InstallTypeOK' /\ UNCHANGED <<home, cmd>>
    <2>1. DaemonsOK' BY <1>6, StopFits DEF Crash
    <2> QED BY <1>6, <2>1 DEF Crash, DaemonsOK
  <1> QED BY <1>1, <1>2, <1>3, <1>4, <1>5, <1>6 DEF DaemonAct, DaemonStep

LEMMA MachineFits ==
  ASSUME InstallTypeOK, KeySound, InstallNext
  PROVE  InstallTypeOK' /\ KeySound'
  <1>1. ASSUME NEW t \in Terminal, InitStep(t)
        PROVE  InstallTypeOK' /\ KeySound'
    BY <1>1, InitTypes, InitKeys
  <1>2. ASSUME NEW t \in Terminal,
               Begin(t) \/ Dies(t) \/ UnitStep(t) \/ UpdateStep(t)
        PROVE  InstallTypeOK' /\ KeySound'
    <2>1. InstallTypeOK' BY <1>2, OtherCommandTypes
    <2>2. CommandsOK BY DEF CommandsOK, InstallTypeOK
    <2>3. KeySound' BY <1>2, <2>2, OtherCommandFits, KeyStays
    <2> QED BY <2>1, <2>3
  <1>3. ASSUME DaemonAct PROVE InstallTypeOK' /\ KeySound'
    BY <1>3, DaemonTypes, KeyStaysOutside
  <1> QED BY <1>1, <1>2, <1>3
          DEF InstallNext, InitStep, UnitStep, UpdateStep, DaemonAct

LEMMA MachineRests ==
  ASSUME InstallTypeOK, KeySound, UNCHANGED install
  PROVE  InstallTypeOK' /\ KeySound'
  BY KeyStaysOutside DEF InstallTypeOK, install, home, files

-----------------------------------------------------------------------------
(* The call: its types and what a delivery promises.                        *)

CallTypes ==
  /\ kind \in Kind \union {None} /\ client \in ClientPc /\ forward \in Forward
  /\ filed # None => filed = Birth
  /\ held # None => held = Arrival
  /\ req \in [Transport -> Request]
  /\ book \in BOOLEAN /\ changes \in Nat /\ allowed \in [Process -> BOOLEAN]
  /\ seen \subseteq Process \union {"file"}

ReqPc ==
  {"none", "accept", "caller", "limits", "put", "hit", "remember", "replied", "dead"}

AllSound == \A x \in Transport : Sound(req[x], book, held)

LEMMA NoReqFits == NoReq \in Request /\ \A b, h : b = FALSE => Sound(NoReq, b, h)
  BY DEF NoReq, Request, Status, Sound

LEMMA WordsFit ==
  /\ kind \in Kind => Birth # None /\ Arrival # None
  /\ kind \in Kind /\ kind # "question" => Birth = Arrival
  BY NodeAssumption DEF Kind, Birth, Arrival

(* A step of the handler of x leaves the other delivery alone. *)
LEMMA OneReqFits ==
  ASSUME req \in [Transport -> Request], AllSound, NEW x \in Transport,
         NEW r \in Request, req' = [req EXCEPT ![x] = r], book' = book,
         held # None => held' # None, Sound(r, book, held')
  PROVE  req' \in [Transport -> Request] /\ AllSound'
  <1>1. ASSUME NEW y \in Transport PROVE Sound(req'[y], book', held')
    <2>1. CASE y = x BY <2>1
    <2>2. CASE y # x
      <3>1. req'[y] = req[y] BY <2>2
      <3>2. Sound(req[y], book, held) BY DEF AllSound
      <3> QED BY <3>1, <3>2 DEF Sound
    <2> QED BY <2>1, <2>2
  <1> QED BY <1>1 DEF AllSound

LEMMA GoReqFits ==
  ASSUME req \in [Transport -> Request], AllSound, NEW x \in Transport,
         req[x].pc # "none", NEW pc \in ReqPc \ {"none"}, GoReq(x, pc),
         book' = book, held # None => held' # None,
         pc \in {"limits", "put", "remember"} => req[x].was,
         pc = "remember" => held' # None
  PROVE  req' \in [Transport -> Request] /\ AllSound'
  <1> DEFINE r == [req[x] EXCEPT !.pc = pc]
  <1>1. /\ r \in Request /\ r.pc = pc
        /\ r.on = req[x].on /\ r.status = req[x].status /\ r.was = req[x].was
    BY DEF Request, ReqPc
  <1>2. req' = [req EXCEPT ![x] = r] BY DEF GoReq
  <1>3. Sound(req[x], book, held) BY DEF AllSound
  <1> HIDE DEF r
  <1>4. Sound(r, book, held') BY <1>1, <1>3 DEF Sound
  <1> QED BY <1>1, <1>2, <1>4, OneReqFits

LEMMA ReplyFits ==
  ASSUME req \in [Transport -> Request], AllSound, NEW x \in Transport,
         req[x].pc # "none", NEW status \in Status, Reply(x, status),
         book' = book, held # None => held' # None,
         status = 202 => req[x].was /\ held' # None
  PROVE  req' \in [Transport -> Request] /\ AllSound'
  <1> DEFINE r == [req[x] EXCEPT !.pc = "replied", !.status = status]
  <1>1. /\ r \in Request /\ r.pc = "replied" /\ r.status = status
        /\ r.on = req[x].on /\ r.was = req[x].was
    BY DEF Request
  <1>2. req' = [req EXCEPT ![x] = r] BY DEF Reply
  <1>3. Sound(req[x], book, held) BY DEF AllSound
  <1> HIDE DEF r
  <1>4. Sound(r, book, held') BY <1>1, <1>3 DEF Sound
  <1> QED BY <1>1, <1>2, <1>4, OneReqFits

LEMMA DeliverFits ==
  ASSUME req \in [Transport -> Request], book \in BOOLEAN, AllSound,
         NEW x \in Transport, NEW p \in Process, Deliver(x, p),
         UNCHANGED <<book, held>>
  PROVE  req' \in [Transport -> Request] /\ AllSound'
  <1> DEFINE r == [pc |-> "accept", on |-> p, status |-> 0, was |-> book]
  <1>1. r \in Request BY DEF Request, Status
  <1>2. Sound(r, book, held) BY DEF Sound
  <1>3. req' = [req EXCEPT ![x] = r] BY DEF Deliver
  <1> HIDE DEF r
  <1> QED BY <1>1, <1>2, <1>3, OneReqFits

-----------------------------------------------------------------------------
(* The call: a step of a handler.                                           *)

LEMMA HandlerStores ==
  ASSUME CallTypes, AllSound, kind \in Kind, NEW x \in Transport, Handler(x)
  PROVE  /\ held' \in {held, Arrival} /\ (held # None => held' # None)
         /\ seen' \subseteq Process \union {"file"}
         /\ req[x].pc # "none"
  <1> USE DEF CallTypes, stored, AtReq
  <1>1. CASE Accept(x) BY <1>1 DEF Accept
  <1>2. CASE Caller(x) BY <1>2 DEF Caller
  <1>3. CASE Limits(x) BY <1>3 DEF Limits
  <1>4. CASE Put(x)
    <2>1. Arrival # None BY WordsFit
    <2> QED BY <1>4, <2>1 DEF Put
  <1>5. CASE Remember(x)
    <2>1. req[x].pc \in {"remember", "hit"} BY <1>5 DEF Remember
    <2>2. req[x].on \in Process BY <2>1 DEF AllSound, Sound
    <2> QED BY <1>5, <2>1, <2>2 DEF Remember
  <1> QED BY <1>1, <1>2, <1>3, <1>4, <1>5 DEF Handler

LEMMA HandlerFits ==
  ASSUME CallTypes, AllSound, kind \in Kind, NEW x \in Transport, Handler(x)
  PROVE  req' \in [Transport -> Request] /\ AllSound'
  <1>0. /\ req \in [Transport -> Request] /\ book \in BOOLEAN
        /\ Sound(req[x], book, held)
        /\ req[x].pc # "none" /\ (held # None => held' # None)
    BY HandlerStores DEF CallTypes, AllSound
  <1>00. book' = book
    BY DEF Handler, Accept, Caller, Limits, Put, Remember, OnlyReq, contacts
  <1>1. CASE Accept(x)
    <2>1. PICK pc \in {"dead", "caller"} : GoReq(x, pc)
      <3>1. CASE x = "iroh" /\ ~book BY <1>1, <3>1 DEF Accept
      <3>2. CASE ~(x = "iroh" /\ ~book) BY <1>1, <3>2 DEF Accept
      <3> QED BY <3>1, <3>2
    <2> QED BY <1>0, <1>00, <2>1, GoReqFits DEF ReqPc
  <1>2. CASE Caller(x)
    <2>1. CASE book
      <3>1. GoReq(x, "limits") BY <1>2, <2>1 DEF Caller, InBook
      <3>2. req[x].was BY <1>0, <2>1 DEF Sound
      <3> QED BY <1>0, <1>00, <3>1, <3>2, GoReqFits DEF ReqPc
    <2>2. CASE ~book
      <3>1. Reply(x, 403) BY <1>2, <2>2 DEF Caller, InBook
      <3> QED BY <1>0, <1>00, <3>1, ReplyFits DEF Status
    <2> QED BY <2>1, <2>2
  <1>3. CASE Limits(x)
    <2>1. \/ \E status \in {409, 429, 403} : Reply(x, status)
          \/ \E pc \in {"put", "hit"} : GoReq(x, pc)
      BY <1>3 DEF Limits
    <2>2. CASE \E status \in {409, 429, 403} : Reply(x, status)
      <3>1. PICK status \in {409, 429, 403} : Reply(x, status) BY <2>2
      <3> QED BY <1>0, <1>00, <3>1, ReplyFits DEF Status
    <2>3. CASE \E pc \in {"put", "hit"} : GoReq(x, pc)
      <3>1. PICK pc \in {"put", "hit"} : GoReq(x, pc) BY <2>3
      <3>2. req[x].was BY <1>0, <1>3 DEF Sound, Limits, AtReq
      <3> QED BY <1>0, <1>00, <3>1, <3>2, GoReqFits DEF ReqPc
    <2> QED BY <2>1, <2>2, <2>3
  <1>4. CASE Put(x)
    <2>1. req[x].was BY <1>0, <1>4 DEF Sound, Put, AtReq
    <2>2. CASE held' = Arrival /\ GoReq(x, "remember")
      <3>1. held' # None BY <2>2, WordsFit
      <3> QED BY <1>0, <1>00, <2>1, <2>2, <3>1, GoReqFits DEF ReqPc
    <2>3. CASE held' = held /\ Reply(x, 500)
      BY <1>0, <1>00, <2>3, ReplyFits DEF Status
    <2> QED BY <1>4, <2>2, <2>3 DEF Put
  <1>5. CASE Remember(x)
    <2>1. \/ Reply(x, 500)
          \/ Reply(x, 200)
          \/ req[x].pc = "remember" /\ Reply(x, 202)
      BY <1>5 DEF Remember, AtReq
    <2>2. CASE Reply(x, 500)
      BY <1>0, <1>00, <2>2, ReplyFits DEF Status
    <2>3. CASE Reply(x, 200)
      BY <1>0, <1>00, <2>3, ReplyFits DEF Status
    <2>4. CASE req[x].pc = "remember" /\ Reply(x, 202)
      <3>1. req[x].was /\ held' # None BY <1>0, <2>4 DEF Sound
      <3> QED BY <1>0, <1>00, <2>4, <3>1, ReplyFits DEF Status
    <2> QED BY <2>1, <2>2, <2>3, <2>4
  <1> QED BY <1>1, <1>2, <1>3, <1>4, <1>5 DEF Handler

LEMMA Split ==
  /\ TypeOK <=> InstallTypeOK /\ CallTypes
  /\ TypeOK' <=> InstallTypeOK' /\ CallTypes'
  BY DEF TypeOK, CallTypes

LEMMA HandlerStep ==
  ASSUME Safe, NEW x \in Transport, Handler(x)
  PROVE  Safe'
  <1>1. /\ CallTypes /\ AllSound /\ InstallTypeOK /\ KeySound
    BY Split DEF Safe, CallSound, AllSound
  <1>2. client # "idle"
    <2>1. req[x].pc # "none"
      BY DEF Handler, AtReq, Accept, Caller, Limits, Put, Remember
    <2> QED BY <2>1 DEF Safe, CallSound, Untouched, NoReq
  <1>3. kind \in Kind BY <1>2 DEF Safe, CallSound
  <1>4. UNCHANGED <<install, asker, contacts, allowed>>
    BY DEF Handler, Accept, Caller, Limits, Put, Remember, OnlyReq
  <1>5. InstallTypeOK' /\ KeySound' BY <1>1, <1>4, MachineRests
  <1>6. /\ req' \in [Transport -> Request] /\ AllSound'
        /\ held' \in {held, Arrival} /\ (held # None => held' # None)
        /\ seen' \subseteq Process \union {"file"}
    BY <1>1, <1>3, HandlerFits, HandlerStores
  <1>7. CallTypes'
    <2>1. Birth' = Birth /\ Arrival' = Arrival BY <1>4 DEF asker, Birth, Arrival
    <2> QED BY <1>1, <1>4, <1>6, <2>1 DEF CallTypes, asker, contacts
  <1>8. CallSound'
    BY <1>2, <1>4, <1>6 DEF Safe, CallSound, AllSound, asker
  <1> QED BY <1>5, <1>7, <1>8, Split DEF Safe

-----------------------------------------------------------------------------
(* The call: a step of the command, of its daemon and of the network.       *)

(* What the asker's side knows when the machine and the peer's files rest.  *)
LEMMA AskerStep ==
  ASSUME Safe, UNCHANGED <<install, kind, contacts, allowed, stored>>,
         req' \in [Transport -> Request] /\ AllSound',
         client # "idle", client' \in ClientPc \ {"idle"}, forward' \in Forward,
         filed' \in {filed, Birth},
         forward'.status = 202 \/ client' = "file" \/ filed' # None => held # None
  PROVE  Safe'
  <1>1. /\ CallTypes /\ InstallTypeOK /\ KeySound
    BY Split DEF Safe
  <1>2. InstallTypeOK' /\ KeySound' BY <1>1, MachineRests
  <1>3. CallTypes'
    <2>1. Birth' = Birth /\ Arrival' = Arrival BY DEF Birth, Arrival
    <2> QED BY <1>1, <2>1 DEF CallTypes, contacts, stored
  <1>4. CallSound'
    BY DEF Safe, CallSound, AllSound, stored
  <1> QED BY <1>2, <1>3, <1>4, Split DEF Safe

LEMMA ReqRests ==
  ASSUME Safe, UNCHANGED <<req, contacts, stored>>
  PROVE  req' \in [Transport -> Request] /\ AllSound'
  BY DEF Safe, TypeOK, CallSound, AllSound, contacts, stored

LEMMA TakeReplyFits ==
  ASSUME Safe, client # "idle", NEW status \in Status, TakeReply(status)
  PROVE  /\ client' \in ClientPc \ {"idle"}
         /\ client' = "file" => status = 202
  <1>1. kind \in Kind BY DEF Safe, CallSound
  <1>2. client' \in {AskOutcome(status), RequestOutcome(status), CallOutcome(status)}
    BY <1>1 DEF TakeReply, Kind
  <1>3. /\ AskOutcome(status) \in {"file", "store", "done"}
        /\ AskOutcome(status) = "file" => status = 202
    BY DEF AskOutcome
  <1>4. /\ RequestOutcome(status) \in {"file", "done"}
        /\ RequestOutcome(status) = "file" => status = 202
    BY DEF RequestOutcome
  <1>5. /\ CallOutcome(status) \in {"file", "done"}
        /\ CallOutcome(status) = "file" => status = 202
    BY DEF CallOutcome
  <1> QED BY <1>2, <1>3, <1>4, <1>5 DEF ClientPc

LEMMA ForwardStep ==
  ASSUME Safe, LocalDies \/ Dial \/ ForwardReplies
  PROVE  Safe'
  <1> USE DEF OnlyAsker
  <1>0. /\ forward \in Forward /\ client \in ClientPc
        /\ req \in [Transport -> Request] /\ book \in BOOLEAN /\ AllSound
        /\ client = "idle" => forward.pc = "off"
    BY DEF Safe, TypeOK, CallSound, AllSound, Untouched
  <1>1. CASE LocalDies
    <2>1. /\ client = "iroh" /\ UNCHANGED <<client, filed, req>>
          /\ forward' = [pc |-> "off", status |-> 0]
      BY <1>1 DEF LocalDies
    <2>2. forward' \in Forward /\ forward'.status # 202
      BY <2>1 DEF Forward, Status
    <2>3. UNCHANGED <<install, kind, contacts, allowed, stored>>
      BY <1>1 DEF LocalDies
    <2>4. req' \in [Transport -> Request] /\ AllSound'
      BY <2>1, <2>3, ReqRests
    <2> QED BY <1>0, <2>1, <2>2, <2>3, <2>4, AskerStep DEF Safe, CallSound
  <1>2. CASE Dial
    <2>1. /\ client # "idle" /\ UNCHANGED <<client, filed>>
          /\ UNCHANGED <<install, kind, contacts, allowed, stored>>
      BY <1>0, <1>2 DEF Dial
    <2>2. CASE forward' = [pc |-> "replied", status |-> 502] /\ UNCHANGED req
      <3>1. forward' \in Forward /\ forward'.status # 202
        BY <2>2 DEF Forward, Status
      <3>2. req' \in [Transport -> Request] /\ AllSound'
        BY <2>1, <2>2, ReqRests
      <3> QED BY <1>0, <2>1, <3>1, <3>2, AskerStep DEF Safe, CallSound
    <2>3. CASE \E p \in Process :
                 Deliver("iroh", p) /\ forward' = [forward EXCEPT !.pc = "wait"]
      <3>1. forward' \in Forward /\ forward'.status = forward.status
        BY <1>0, <2>3 DEF Forward
      <3>2. req' \in [Transport -> Request] /\ AllSound'
        BY <1>0, <2>1, <2>3, DeliverFits DEF Transport, contacts, stored
      <3> QED BY <1>0, <2>1, <3>1, <3>2, AskerStep DEF Safe, CallSound
    <2> QED BY <1>2, <2>2, <2>3 DEF Dial
  <1>3. CASE ForwardReplies
    <2>1. /\ client # "idle" /\ UNCHANGED <<client, filed, req>>
          /\ UNCHANGED <<install, kind, contacts, allowed, stored>>
      BY <1>0, <1>3 DEF ForwardReplies
    <2>2. req' \in [Transport -> Request] /\ AllSound'
      BY <2>1, ReqRests
    <2>3. PICK status \in Status :
            /\ forward' = [pc |-> "replied", status |-> status]
            /\ status \in {req["iroh"].status, 502}
      BY <1>0, <1>3 DEF ForwardReplies, Request, Status, Transport
    <2>4. forward' \in Forward /\ forward'.status = status
      BY <2>3 DEF Forward
    <2>5. status = 202 => held # None
      BY <1>0, <2>3 DEF AllSound, Sound, Transport
    <2> QED BY <1>0, <2>1, <2>2, <2>4, <2>5, AskerStep DEF Safe, CallSound
  <1> QED BY <1>1, <1>2, <1>3

(* The steps of the command itself, but the call. *)
CommandStep ==
  FromIroh \/ Connect \/ FromEndpoint \/ GiveUp \/ FileAsk \/ StoreInline \/ CommandDies

LEMMA CommandFits ==
  ASSUME Safe, CommandStep
  PROVE  Safe'
  <1> USE DEF OnlyAsker, Exit
  <1>0. /\ forward \in Forward /\ client \in ClientPc
        /\ req \in [Transport -> Request] /\ book \in BOOLEAN /\ AllSound
        /\ forward.status = 202 \/ client = "file" \/ filed # None => held # None
        /\ kind \in Kind \union {None}
    BY DEF Safe, TypeOK, CallSound, AllSound
  <1>1. /\ UNCHANGED <<install, kind, contacts, allowed, stored, forward>>
        /\ client # "idle"
    BY DEF CommandStep, FromIroh, Connect, FromEndpoint, GiveUp, FileAsk,
           StoreInline, CommandDies
  <1>2. ASSUME UNCHANGED <<filed, req>>, client' \in ClientPc \ {"idle"},
               client' = "file" => held # None
        PROVE  Safe'
    <2>1. req' \in [Transport -> Request] /\ AllSound' BY <1>1, <1>2, ReqRests
    <2> QED BY <1>0, <1>1, <1>2, <2>1, AskerStep
  <1>3. CASE FromIroh
    <2>1. UNCHANGED <<filed, req>> BY <1>3 DEF FromIroh
    <2>2. CASE forward.status = 502
      BY <1>2, <1>3, <2>1, <2>2 DEF FromIroh, ClientPc
    <2>3. CASE forward.status # 502
      <3>1. TakeReply(forward.status) /\ forward.status \in Status
        BY <1>0, <1>3, <2>3 DEF FromIroh, Forward
      <3> QED BY <1>0, <1>1, <1>2, <2>1, <3>1, TakeReplyFits
    <2> QED BY <2>2, <2>3
  <1>4. CASE Connect
    <2>1. CASE Exit /\ UNCHANGED req
      BY <1>2, <1>4, <2>1 DEF Connect, ClientPc
    <2>2. CASE \E p \in Process : Deliver("tls", p) /\ client' = "tls"
      <3>1. req' \in [Transport -> Request] /\ AllSound'
        BY <1>0, <1>1, <2>2, DeliverFits DEF Transport, contacts, stored
      <3>2. client' = "tls" /\ filed' = filed BY <1>4, <2>2 DEF Connect
      <3> QED BY <1>0, <1>1, <3>1, <3>2, AskerStep DEF ClientPc
    <2> QED BY <1>4, <2>1, <2>2 DEF Connect
  <1>5. CASE FromEndpoint
    <2>1. /\ TakeReply(req["tls"].status) /\ UNCHANGED <<filed, req>>
      BY <1>5 DEF FromEndpoint
    <2>2. req["tls"].status \in Status BY <1>0 DEF Request, Transport
    <2>3. req["tls"].status = 202 => held # None
      BY <1>0 DEF AllSound, Sound, Transport
    <2> QED BY <1>1, <1>2, <2>1, <2>2, <2>3, TakeReplyFits
  <1>6. CASE GiveUp BY <1>2, <1>6 DEF GiveUp, ClientPc
  <1>7. CASE FileAsk
    <2>1. /\ client' = "done" /\ filed' = Birth /\ held # None /\ UNCHANGED req
      BY <1>0, <1>7 DEF FileAsk
    <2>2. req' \in [Transport -> Request] /\ AllSound' BY <1>1, <2>1, ReqRests
    <2> QED BY <1>0, <1>1, <2>1, <2>2, AskerStep DEF ClientPc
  <1>8. CASE StoreInline BY <1>2, <1>8 DEF StoreInline, ClientPc
  <1>9. CASE CommandDies BY <1>2, <1>9 DEF CommandDies, ClientPc
  <1> QED BY <1>3, <1>4, <1>5, <1>6, <1>7, <1>8, <1>9 DEF CommandStep

LEMMA CallFits ==
  ASSUME Safe, Call
  PROVE  Safe'
  <1>1. /\ client = "idle" /\ Untouched /\ events' = events + 2
        /\ kind' \in Kind /\ client' \in {"iroh", "endpoint"}
        /\ UNCHANGED <<home, files, cmd, daemon, updated, missed>>
        /\ UNCHANGED <<filed, req, contacts, allowed, stored>>
        /\ \/ forward' = [pc |-> "dial", status |-> 0]
           \/ forward' = forward
    BY NodeAssumption DEF Call, Safe, CallSound, Kind
  <1>2. InstallTypeOK'
    BY <1>1 DEF Safe, TypeOK, InstallTypeOK, home, files
  <1>3. KeySound' BY <1>1, KeyStaysOutside DEF Safe
  <1>4. forward' \in Forward /\ forward'.status = 0
    BY <1>1 DEF Untouched, Forward, Status
  <1>5. req' \in [Transport -> Request] /\ AllSound' BY <1>1, ReqRests
  <1>6. held' = None /\ filed' = None BY <1>1 DEF Untouched, stored
  <1>7. CallTypes'
    BY <1>1, <1>4, <1>5, <1>6, Split
       DEF Safe, CallTypes, contacts, stored, ClientPc
  <1>8. CallSound'
    BY <1>1, <1>4, <1>5, <1>6 DEF CallSound, AllSound
  <1> QED BY <1>2, <1>3, <1>7, <1>8, Split DEF Safe

-----------------------------------------------------------------------------
(* The peer: its machine and its contact book.                              *)

LEMMA ChangeBookFits ==
  ASSUME Safe, ChangeBook
  PROVE  Safe'
  <1>0. /\ CallTypes /\ InstallTypeOK /\ KeySound BY Split DEF Safe
  <1>1. /\ client # "idle" /\ changes' = changes + 1 /\ book' = ~book
        /\ UNCHANGED <<install, asker, allowed, stored>>
    BY DEF ChangeBook
  <1>2. ASSUME NEW x \in Transport
        PROVE  req'[x] \in Request /\ Sound(req'[x], book', held)
    <2> DEFINE w == req[x].pc # "none" /\ (req[x].was \/ book')
    <2>1. req'[x] = [req[x] EXCEPT !.was = w] BY DEF ChangeBook
    <2>2. req[x] \in Request /\ Sound(req[x], book, held)
      BY <1>0 DEF CallTypes, Safe, CallSound
    <2>3. w \in BOOLEAN /\ (req[x].was /\ req[x].pc # "none" => w)
          /\ (book' /\ req[x].pc # "none" => w)
      OBVIOUS
    <2> HIDE DEF w
    <2>4. /\ req'[x] \in Request /\ req'[x].was = w /\ req'[x].pc = req[x].pc
          /\ req'[x].on = req[x].on /\ req'[x].status = req[x].status
      BY <2>1, <2>2, <2>3 DEF Request
    <2> QED BY <2>2, <2>3, <2>4 DEF Sound
  <1>3. req' = [x \in Transport |-> req'[x]]
    BY DEF ChangeBook
  <1>4. InstallTypeOK' /\ KeySound' BY <1>0, <1>1, MachineRests
  <1>5. CallTypes'
    <2>1. Birth' = Birth /\ Arrival' = Arrival BY <1>1 DEF asker, Birth, Arrival
    <2>2. req' \in [Transport -> Request] BY <1>2, <1>3
    <2> QED BY <1>0, <1>1, <2>1, <2>2 DEF CallTypes, asker, stored
  <1>6. CallSound'
    BY <1>1, <1>2 DEF Safe, CallSound, asker, stored
  <1> QED BY <1>4, <1>5, <1>6, Split DEF Safe

LEMMA BrokenFits ==
  ASSUME NEW r \in Request, Sound(r, book, held)
  PROVE  /\ Broken(r) \in Request /\ Sound(Broken(r), book, held)
         /\ r = NoReq => Broken(r) = NoReq
  <1>1. CASE r.on # None /\ daemon'[r.on].pc = "off" /\ r.pc # "replied"
    <2>1. Broken(r) = [r EXCEPT !.pc = "dead"] BY <1>1 DEF Broken
    <2>2. /\ Broken(r) \in Request /\ Broken(r).pc = "dead"
          /\ Broken(r).on = r.on /\ Broken(r).status = r.status
          /\ Broken(r).was = r.was
      BY <2>1 DEF Request
    <2>3. r # NoReq BY <1>1 DEF NoReq
    <2>4. r.pc # "none" /\ r.on \in Process BY <1>1 DEF Sound
    <2> HIDE DEF Broken
    <2>5. Sound(Broken(r), book, held) BY <2>2, <2>4 DEF Sound
    <2> QED BY <2>2, <2>3, <2>5
  <1>2. CASE ~(r.on # None /\ daemon'[r.on].pc = "off" /\ r.pc # "replied")
    BY <1>2 DEF Broken
  <1> QED BY <1>1, <1>2

LEMMA EffectsFit ==
  ASSUME Safe, InstallTypeOK', KeySound', Effects
  PROVE  Safe'
  <1>0. CallTypes BY Split DEF Safe
  <1>1. UNCHANGED <<asker, contacts, held>> BY DEF Effects
  <1>2. ASSUME NEW x \in Transport
        PROVE  /\ req'[x] \in Request /\ Sound(req'[x], book', held')
               /\ req[x] = NoReq => req'[x] = NoReq
    <2>1. req'[x] = Broken(req[x]) BY DEF Effects
    <2>2. req[x] \in Request /\ Sound(req[x], book, held)
      BY <1>0 DEF CallTypes, Safe, CallSound
    <2>3. book' = book /\ held' = held BY <1>1 DEF contacts
    <2> QED BY <2>1, <2>2, <2>3, BrokenFits
  <1>3. req' = [x \in Transport |-> req'[x]] BY DEF Effects
  <1>4. allowed' \in [Process -> BOOLEAN]
    BY <1>0 DEF Effects, CallTypes, AllowedKeys
  <1>5. CallTypes'
    <2>1. Birth' = Birth /\ Arrival' = Arrival BY <1>1 DEF asker, Birth, Arrival
    <2>2. req' \in [Transport -> Request] BY <1>2, <1>3
    <2>3. seen' \subseteq Process \union {"file"} BY DEF Effects
    <2> QED BY <1>0, <1>1, <1>4, <2>1, <2>2, <2>3 DEF CallTypes, asker, contacts
  <1>6. CallSound'
    BY <1>1, <1>2 DEF Safe, CallSound, Untouched, asker, contacts
  <1> QED BY <1>5, <1>6, Split DEF Safe

-----------------------------------------------------------------------------
(* The specification.                                                       *)

LEMMA InitSafe == Init => Safe
  <1> SUFFICES ASSUME Init PROVE Safe OBVIOUS
  <1> USE DEF Init, InstallInit
  <1>1. InstallTypeOK
    <2>1. CASE FreshInit
      BY <2>1, InstallAssumption
         DEF FreshInit, InstallTypeOK, KeyFile, CommandState, DaemonState, Idle, Off
    <2>2. CASE InstalledInit
      <3>1. daemon \in [Process -> DaemonState]
        BY <2>2, InstallAssumption DEF InstalledInit, DaemonState, Off
      <3> QED BY <2>2, <3>1, InstallAssumption
              DEF InstalledInit, InstallTypeOK, KeyFile, CommandState, Idle
    <2> QED BY <2>1, <2>2
  <1>2. KeySound BY DEF KeySound, PrintedIsKept, At, Idle
  <1>3. CallTypes
    <2>1. allowed \in [Process -> BOOLEAN] OBVIOUS
    <2> QED BY <2>1, NoReqFits DEF CallTypes, ClientPc, Forward, Status
  <1>4. CallSound
    <2>1. \A x \in Transport : req[x] = NoReq OBVIOUS
    <2>2. \A x \in Transport : Sound(req[x], book, held)
      BY <2>1 DEF Sound, NoReq
    <2> QED BY <2>1, <2>2 DEF CallSound, Untouched
  <1> QED BY <1>1, <1>2, <1>3, <1>4, Split DEF Safe

LEMMA NextSafe == Safe /\ [Next]_vars => Safe'
  <1> SUFFICES ASSUME Safe, [Next]_vars PROVE Safe' OBVIOUS
  <1>1. CASE Machine
    <2>1. InstallTypeOK' /\ KeySound'
      BY <1>1, MachineFits, Split DEF Machine, Safe
    <2> QED BY <1>1, <2>1, EffectsFit DEF Machine
  <1>2. CASE ChangeBook BY <1>2, ChangeBookFits
  <1>3. CASE LocalDies \/ Dial \/ ForwardReplies BY <1>3, ForwardStep
  <1>4. CASE Call BY <1>4, CallFits
  <1>5. CASE CommandStep BY <1>5, CommandFits
  <1>6. CASE \E x \in Transport : Handler(x) BY <1>6, HandlerStep
  <1>7. CASE UNCHANGED vars
    <2>1. UNCHANGED <<install, asker, contacts, allowed, stored, req>>
      BY <1>7 DEF vars
    <2>2. InstallTypeOK' /\ KeySound' BY <2>1, MachineRests, Split DEF Safe
    <2>3. CallTypes'
      BY <2>1, Split DEF Safe, CallTypes, asker, contacts, stored, Birth, Arrival
    <2>4. CallSound'
      BY <2>1 DEF Safe, CallSound, Untouched, asker, contacts, stored
    <2> QED BY <2>2, <2>3, <2>4, Split DEF Safe
  <1> QED BY <1>1, <1>2, <1>3, <1>4, <1>5, <1>6, <1>7
          DEF Next, Command, CommandStep

LEMMA AlwaysSafe == Spec => []Safe
  <1>1. Init => Safe BY InitSafe
  <1>2. Safe /\ [Next]_vars => Safe' BY NextSafe
  <1> QED BY <1>1, <1>2, PTL DEF Spec

(* The files, commands and daemons of the machine and every call to it keep *)
(* their types (setup.rs, install.rs, update.rs, client.rs, iroh.rs).       *)
THEOREM NodeTypes == Spec => []TypeOK
  <1>1. Safe => TypeOK BY DEF Safe
  <1> QED BY <1>1, AlwaysSafe, PTL

(* Whoever an init told a fingerprint keeps the key it names, however many  *)
(* inits run at once and wherever they die (setup.rs, identity.rs).         *)
THEOREM FingerprintsKept == Spec => []PrintedIsKept
  <1>1. Safe => PrintedIsKept BY DEF Safe, KeySound
  <1> QED BY <1>1, AlwaysSafe, PTL

(* An ask on file is one the peer holds, with the same first event for a    *)
(* content or tool request (ask.rs, request.rs, call.rs, post_question).    *)
THEOREM AcceptedHeld == Spec => []AcceptedIsHeld
  <1>1. Safe => AcceptedIsHeld
    <2> SUFFICES ASSUME Safe PROVE AcceptedIsHeld OBVIOUS
    <2>1. CASE filed = None
      BY <2>1 DEF Safe, CallSound, AcceptedIsHeld
    <2>2. CASE filed # None
      <3>1. held # None /\ kind \in Kind
        BY <2>2 DEF Safe, CallSound, Untouched
      <3>2. filed = Birth /\ held = Arrival
        BY <2>2, <3>1 DEF Safe, TypeOK
      <3> QED BY <3>1, <3>2, WordsFit DEF AcceptedIsHeld
    <2> QED BY <2>1, <2>2
  <1> QED BY <1>1, AlwaysSafe, PTL

(* A request is spooled only for a caller who was a contact at some moment  *)
(* of its delivery, over either transport (post_question, iroh serve).      *)
THEOREM ContactsOnly == Spec => []StoredFromContact
  <1>1. Safe => StoredFromContact
    BY DEF Safe, CallSound, Sound, StoredFromContact, AtReq
  <1> QED BY <1>1, AlwaysSafe, PTL

-----------------------------------------------------------------------------
(* Updates.  Once one update has put the new build in place the binary is   *)
(* never an older one again, and once it has stopped the service, so is     *)
(* what the service runs, unless some command missed the unit.              *)

Stopped == {"removeUnit", "writeUnit", "load", "plugin"}
Placed == {"unitThere", "unload"} \union Stopped

NewOnly == binary \in {NewBuild, Torn}
ServiceNew ==
  Running("service") /\ ~missed => daemon["service"].build = NewBuild

FilesNew ==
  /\ fresh \in {None, Torn, NewBuild}
  /\ Running("service") => loaded

(* What the command c promises when it is an update. *)
Promise(c, new, serviceNew) ==
  c.op = "update" => /\ c.pc \in Placed => new
                     /\ c.pc \in Stopped => serviceNew

UpdateSound ==
  /\ FilesNew
  /\ \A t \in Terminal : Promise(cmd[t], NewOnly, ServiceNew)
  /\ updated # {} => updated = {NewBuild} /\ NewOnly /\ ServiceNew

UpdateVars == <<files, cmd, daemon, updated, missed>>

(* No step of the machine brings an older build back. *)
LEMMA MachineGrows ==
  ASSUME InstallTypeOK, FilesNew, InstallNext
  PROVE  /\ FilesNew'
         /\ NewOnly => NewOnly'
         /\ NewOnly /\ ServiceNew => ServiceNew'
  <1> DEFINE Goal == /\ FilesNew'
                     /\ NewOnly => NewOnly'
                     /\ NewOnly /\ ServiceNew => ServiceNew'
  <1> USE DEF files, home, Quiet
  <1>1. ASSUME UNCHANGED <<fresh, binary, loaded, daemon, missed>> PROVE Goal
    BY <1>1 DEF FilesNew, NewOnly, ServiceNew, Running
  <1>2. ASSUME NEW t \in Terminal, Begin(t) \/ Dies(t) \/ InitStep(t)
        PROVE  Goal
    <2>1. UNCHANGED <<fresh, binary, loaded, daemon, missed>>
      BY <1>2 DEF Begin, Dies, InitStep, InitCheck, SaveConfig, CreateKey, WriteKey
    <2> QED BY <1>1, <2>1
  <1>3. ASSUME NEW t \in Terminal, UnitStep(t) PROVE Goal
    <2>1. CASE WriteUnit(t) \/ Plugin(t) \/ RemoveUnit(t)
      <3>1. UNCHANGED <<fresh, binary, loaded, daemon, missed>>
        BY <2>1 DEF WriteUnit, Plugin, RemoveUnit
      <3> QED BY <1>1, <3>1
    <2>2. CASE Load(t)
      BY <2>2 DEF Load, FilesNew, NewOnly, ServiceNew, Running
    <2>3. CASE UnitThere(t)
      <3>1. UNCHANGED <<fresh, binary, loaded, daemon>>
        BY <2>3 DEF UnitThere
      <3>2. missed => missed' BY <2>3 DEF UnitThere
      <3>3. FilesNew' /\ (NewOnly => NewOnly')
        BY <3>1 DEF FilesNew, NewOnly, Running
      <3>4. Running("service")' <=> Running("service") BY <3>1 DEF Running
      <3>5. ServiceNew => ServiceNew'
        BY <3>1, <3>2, <3>4 DEF ServiceNew
      <3> QED BY <3>3, <3>5
    <2>4. CASE Unload(t)
      <3>1. /\ UNCHANGED <<fresh, binary, missed>>
            /\ \/ daemon' = [daemon EXCEPT !["service"] = Off]
               \/ UNCHANGED <<loaded, daemon>>
        BY <2>4 DEF Unload, Stop
      <3> QED BY <3>1 DEF FilesNew, NewOnly, ServiceNew, Running, Off,
                          InstallTypeOK, Process
    <2> QED BY <1>3, <2>1, <2>2, <2>3, <2>4 DEF UnitStep
  <1>4. ASSUME NEW t \in Terminal, UpdateStep(t) PROVE Goal
    <2>1. /\ fresh' \in {None, Torn, NewBuild}
          /\ NewOnly => NewOnly'
          /\ UNCHANGED <<loaded, daemon, missed>>
      BY <1>4 DEF UpdateStep, MakeBuild, Copy, Rename, Verify, FilesNew, NewOnly
    <2> QED BY <2>1 DEF FilesNew, ServiceNew, Running
  <1>5. ASSUME DaemonAct PROVE Goal
    <2>1. UNCHANGED <<fresh, binary, loaded, missed>>
      BY <1>5 DEF DaemonAct, DaemonStep, StartService, StartManual, StopManual,
                  Starts, IrohUp, Bind, Crash
    <2>2. \/ daemon'["service"] = daemon["service"]
          \/ daemon'["service"].pc = "off"
          \/ /\ loaded /\ binary # Torn /\ daemon'["service"].build = binary
          \/ /\ Running("service")
             /\ daemon'["service"].build = daemon["service"].build
      <3> USE DEF InstallTypeOK, Process, Off
      <3>1. CASE StartService BY <3>1 DEF StartService, Starts, Startable
      <3>2. CASE StartManual BY <3>2 DEF StartManual, Starts
      <3>3. CASE StopManual BY <3>3 DEF StopManual, Stop
      <3>4. ASSUME NEW p \in Process, IrohUp(p)
            PROVE  \/ daemon'["service"] = daemon["service"]
                   \/ /\ Running("service")
                      /\ daemon'["service"].build = daemon["service"].build
        BY <3>4 DEF IrohUp, Running, DaemonState
      <3>5. ASSUME NEW p \in Process, Bind(p)
            PROVE  \/ daemon'["service"] = daemon["service"]
                   \/ daemon'["service"].pc = "off"
                   \/ /\ Running("service")
                      /\ daemon'["service"].build = daemon["service"].build
        <4>1. CASE Stop(p) BY <4>1 DEF Stop
        <4>2. CASE daemon' = [daemon EXCEPT ![p].pc = "up"]
          BY <3>5, <4>2 DEF Bind, Running, DaemonState
        <4> QED BY <3>5, <4>1, <4>2 DEF Bind
      <3>6. ASSUME NEW p \in Process, Crash(p)
            PROVE  \/ daemon'["service"] = daemon["service"]
                   \/ daemon'["service"].pc = "off"
        BY <3>6 DEF Crash, Stop
      <3> QED BY <1>5, <3>1, <3>2, <3>3, <3>4, <3>5, <3>6 DEF DaemonAct, DaemonStep
    <2> QED BY <2>1, <2>2 DEF FilesNew, NewOnly, ServiceNew, Running
  <1> HIDE DEF Goal
  <1>6. Goal
    BY <1>2, <1>3, <1>4, <1>5
       DEF InstallNext, InitStep, UnitStep, UpdateStep, DaemonAct
  <1> QED BY <1>6 DEF Goal

Update(c) == c.op = "update"

(* Where a command may be after a step, and why. *)
Moves(c, d) ==
  /\ Update(d) /\ d.pc \in Placed =>
       (Update(c) /\ c.pc \in Placed) \/ binary' = NewBuild
  /\ Update(d) /\ d.pc \in Stopped =>
       (Update(c) /\ c.pc \in Stopped) \/ ServiceNew'

CommandAct(t) == Begin(t) \/ Dies(t) \/ InitStep(t) \/ UnitStep(t) \/ UpdateStep(t)

LEMMA CommandMoves ==
  ASSUME InstallTypeOK, FilesNew, NEW t \in Terminal, CommandAct(t)
  PROVE  /\ Moves(cmd[t], cmd'[t])
         /\ \A u \in Terminal \ {t} : cmd'[u] = cmd[u]
         /\ \/ updated' = updated
            \/ /\ Update(cmd[t]) /\ cmd[t].pc = "plugin"
               /\ updated' = updated \union {NewBuild}
  <1> CommandsOK BY DEF CommandsOK, InstallTypeOK
  <1> USE DEF CommandPc, Quiet, At
  <1>1. CASE Begin(t)
    BY <1>1, BeginFits DEF Begin, Moves, Update, Placed, Stopped
  <1>2. CASE Dies(t)
    BY <1>2, EndsFits DEF Dies, Moves, Update
  <1>3. CASE InitStep(t)
    <2> USE DEF Moves, Update, Placed, Stopped
    <2>1. CASE InitCheck(t) BY <2>1, GotoFits, EndsFits DEF InitCheck
    <2>2. CASE SaveConfig(t) BY <2>2, GotoFits, EndsFits DEF SaveConfig
    <2>3. CASE CreateKey(t) BY <2>3, GotoFits, EndsFits DEF CreateKey
    <2>4. CASE WriteKey(t) BY <2>4, GotoFits, EndsFits DEF WriteKey
    <2> QED BY <1>3, <2>1, <2>2, <2>3, <2>4 DEF InitStep
  <1>4. CASE UnitStep(t)
    <2> USE DEF Moves, Update, Placed, Stopped
    <2>1. CASE WriteUnit(t) BY <2>1, GotoFits DEF WriteUnit
    <2>2. CASE Load(t) BY <2>2, GotoFits, EndsFits DEF Load
    <2>3. CASE Plugin(t) BY <2>3, EndsFits DEF Plugin
    <2>4. CASE UnitThere(t)
      <3>1. cmd[t].pc = "unitThere" /\ updated' = updated /\ daemon' = daemon
        BY <2>4 DEF UnitThere
      <3>2. CASE unit
        BY <2>4, <3>1, <3>2, GotoFits DEF UnitThere
      <3>3. CASE ~unit
        <4>1. ~loaded \/ missed' BY <2>4, <3>3 DEF UnitThere
        <4>2. Running("service")' <=> Running("service") BY <3>1 DEF Running
        <4>3. ServiceNew' BY <4>1, <4>2 DEF ServiceNew, FilesNew
        <4>4. Afterwards(t) BY <2>4, <3>3 DEF UnitThere
        <4> HIDE DEF Moves
        <4>5. CASE Update(cmd[t])
          <5>1. Goto(t, "writeUnit") BY <4>4, <4>5 DEF Afterwards
          <5> QED BY <3>1, <4>3, <4>5, <5>1, GotoFits DEF Moves
        <4>6. CASE ~Update(cmd[t])
          <5>1. Ends(t) BY <4>4, <4>6 DEF Afterwards
          <5> QED BY <3>1, <5>1, EndsFits DEF Moves
        <4> QED BY <4>5, <4>6
      <3> QED BY <3>2, <3>3
    <2>5. CASE Unload(t)
      <3>1. cmd[t].pc = "unload" /\ updated' = updated BY <2>5 DEF Unload
      <3>2. CASE Stop("service") /\ Goto(t, "removeUnit")
        <4>1. ~Running("service")'
          BY <3>2 DEF Stop, Running, Off, InstallTypeOK, Process
        <4>2. ServiceNew' BY <4>1 DEF ServiceNew
        <4> QED BY <3>1, <3>2, <4>2, GotoFits
      <3>3. CASE Ends(t) BY <3>1, <3>3, EndsFits
      <3> QED BY <2>5, <3>2, <3>3 DEF Unload
    <2>6. CASE RemoveUnit(t)
      BY <2>6, GotoFits, EndsFits DEF RemoveUnit, Afterwards
    <2> QED BY <1>4, <2>1, <2>2, <2>3, <2>4, <2>5, <2>6 DEF UnitStep
  <1>5. CASE UpdateStep(t)
    <2> USE DEF Moves, Update, Placed, Stopped
    <2>1. CASE MakeBuild(t) BY <2>1, GotoFits, EndsFits DEF MakeBuild
    <2>2. CASE Copy(t) BY <2>2, GotoFits, EndsFits DEF Copy
    <2>3. CASE Rename(t) BY <2>3, GotoFits, EndsFits DEF Rename
    <2>4. CASE Verify(t)
      BY <2>4, GotoFits, EndsFits DEF Verify, AfterVerify, files
    <2> QED BY <1>5, <2>1, <2>2, <2>3, <2>4 DEF UpdateStep
  <1> QED BY <1>1, <1>2, <1>3, <1>4, <1>5 DEF CommandAct

LEMMA UpdateInit == Init => UpdateSound
  <1> SUFFICES ASSUME Init PROVE UpdateSound OBVIOUS
  <1>1. /\ fresh = None /\ updated = {} /\ cmd = [t \in Terminal |-> Idle]
        /\ loaded \/ daemon["service"] = Off
    BY DEF Init, InstallInit, FreshInit, InstalledInit, Process
  <1>2. FilesNew BY <1>1 DEF FilesNew, Running, Off
  <1> QED BY <1>1, <1>2 DEF UpdateSound, Promise, Idle

LEMMA MachineUpdates ==
  ASSUME InstallTypeOK, UpdateSound, InstallNext
  PROVE  UpdateSound'
  <1>1. /\ FilesNew'
        /\ NewOnly => NewOnly'
        /\ NewOnly /\ ServiceNew => ServiceNew'
    BY MachineGrows DEF UpdateSound
  <1>2. ASSUME NEW u \in Terminal, cmd'[u] = cmd[u]
        PROVE  Promise(cmd'[u], NewOnly', ServiceNew')
    <2>1. Promise(cmd[u], NewOnly, ServiceNew) BY DEF UpdateSound
    <2> QED BY <1>1, <1>2, <2>1 DEF Promise, Placed
  <1>3. ASSUME updated' = updated
        PROVE  updated' # {} => updated' = {NewBuild} /\ NewOnly' /\ ServiceNew'
    BY <1>1, <1>3 DEF UpdateSound
  <1>4. ASSUME NEW t \in Terminal, CommandAct(t) PROVE UpdateSound'
    <2>1. /\ Moves(cmd[t], cmd'[t])
          /\ \A u \in Terminal \ {t} : cmd'[u] = cmd[u]
          /\ \/ updated' = updated
             \/ /\ Update(cmd[t]) /\ cmd[t].pc = "plugin"
                /\ updated' = updated \union {NewBuild}
      BY <1>4, CommandMoves DEF UpdateSound
    <2>2. Promise(cmd[t], NewOnly, ServiceNew) BY DEF UpdateSound
    <2>3. binary' = NewBuild => NewOnly' BY DEF NewOnly
    <2>4. Promise(cmd'[t], NewOnly', ServiceNew')
      BY <1>1, <2>1, <2>2, <2>3 DEF Promise, Moves, Update, Placed
    <2>5. updated' # {} => updated' = {NewBuild} /\ NewOnly' /\ ServiceNew'
      <3>1. CASE updated' = updated BY <1>3, <3>1
      <3>2. CASE /\ Update(cmd[t]) /\ cmd[t].pc = "plugin"
                 /\ updated' = updated \union {NewBuild}
        <4>1. NewOnly /\ ServiceNew
          BY <2>2, <3>2 DEF Promise, Update, Placed, Stopped
        <4>2. updated' = {NewBuild} BY <3>2 DEF UpdateSound
        <4> QED BY <1>1, <4>1, <4>2
      <3> QED BY <2>1, <3>1, <3>2
    <2>6. ASSUME NEW u \in Terminal PROVE Promise(cmd'[u], NewOnly', ServiceNew')
      BY <1>2, <2>1, <2>4
    <2> QED BY <1>1, <2>5, <2>6 DEF UpdateSound
  <1>5. ASSUME DaemonAct PROVE UpdateSound'
    <2>1. cmd' = cmd BY <1>5, DaemonTypes
    <2>2. updated' = updated
      BY <1>5 DEF DaemonAct, DaemonStep, StartService, StartManual, StopManual,
                  Starts, IrohUp, Bind, Crash
    <2>3. ASSUME NEW u \in Terminal PROVE Promise(cmd'[u], NewOnly', ServiceNew')
      BY <1>2, <2>1
    <2> QED BY <1>1, <1>3, <2>2, <2>3 DEF UpdateSound
  <1> QED BY <1>4, <1>5
          DEF InstallNext, CommandAct, InitStep, UnitStep, UpdateStep, DaemonAct

LEMMA UpdateRests ==
  ASSUME UpdateSound, UNCHANGED UpdateVars
  PROVE  UpdateSound'
  BY DEF UpdateSound, UpdateVars, files, FilesNew, Promise, NewOnly, ServiceNew, Running

LEMMA UpdateNext == TypeOK /\ UpdateSound /\ [Next]_vars => UpdateSound'
  <1> SUFFICES ASSUME TypeOK, UpdateSound, [Next]_vars PROVE UpdateSound'
    OBVIOUS
  <1>1. CASE Machine
    BY <1>1, MachineUpdates DEF Machine, TypeOK
  <1>2. CASE Call
    BY <1>2, UpdateRests DEF Call, UpdateVars
  <1>3. CASE ~Machine /\ ~Call
    <2>1. UNCHANGED install
      BY <1>3 DEF Next, vars, ChangeBook, LocalDies, Dial, ForwardReplies,
                  Command, CommandDies, FromIroh, Connect, FromEndpoint, GiveUp,
                  FileAsk, StoreInline, OnlyAsker, Handler, Accept, Caller,
                  Limits, Put, Remember, OnlyReq
    <2> QED BY <2>1, UpdateRests DEF install, UpdateVars
  <1> QED BY <1>1, <1>2, <1>3

(* Once an update said so, the service runs the new build, whatever was     *)
(* installed, removed, crashed or updated meanwhile, for any number of      *)
(* commands; except when one missed the unit (update.rs, install.rs).       *)
THEOREM UpdateHolds == Spec => []UpdatedRuns
  <1>1. Init => UpdateSound BY UpdateInit
  <1>2. TypeOK /\ UpdateSound /\ [Next]_vars => UpdateSound' BY UpdateNext
  <1>3. UpdateSound => UpdatedRuns
    BY DEF UpdateSound, UpdatedRuns, ServiceNew
  <1> QED BY <1>1, <1>2, <1>3, NodeTypes, PTL DEF Spec
===============================================================================
