-------------------------------- MODULE Install -------------------------------
(***************************************************************************)
(* One machine's installation: its key and config (setup.rs, identity.rs,  *)
(* config.rs), the owl binary and its replacement (update.rs), the service *)
(* unit (install.rs) and the daemon processes that run from them           *)
(* (daemon.rs).  The owner may give commands in several terminals at once; *)
(* a command can die, and an external program can fail, at any step.       *)
(*                                                                         *)
(* The service manager (launchd, systemd --user) is external: it runs the  *)
(* unit while the unit is loaded and starts it again when it ends.         *)
(***************************************************************************)
EXTENDS Naturals

CONSTANTS
  Terminal,     \* where the owner gives commands
  Build,        \* the builds of owl, numbered; 1 is there from the start
  MaxEvents,    \* bound: commands given, daemons started by hand and crashes
  None

ASSUME InstallAssumption ==
  /\ Build \subseteq Nat \ {0} /\ 1 \in Build /\ MaxEvents \in Nat
  /\ \E b \in Build : \A a \in Build : a <= b
  /\ None \notin Terminal /\ "empty" \notin Terminal /\ None # "empty"

VARIABLES
  config,    \* config.json: "none", "torn" while fs::write is at it, "whole"
  key,       \* the key file: None, "empty", or the terminal whose init made it
  binary,    \* the file the unit names: a build, or Torn
  fresh,     \* `<active>.new`: None, Torn or a build
  unit,      \* the unit file is there
  loaded,    \* the service manager runs the unit
  cmd,       \* the command at work in each terminal
  daemon,    \* the two daemon processes there can be
  events,    \* how many of these
  printed,   \* history: the keys whose fingerprint an init printed
  updated,   \* history: the builds an `owl update` said it installed
  missed     \* history: a command found no unit of a service that was loaded

home == <<config, key, printed>>
files == <<binary, fresh, unit, loaded>>
install == <<home, files, cmd, daemon, events, updated, missed>>

Process == {"service", "manual"}
Torn == 0  \* a half-written copy of a build
Idle == [op |-> "none", pc |-> "idle"]
Off == [pc |-> "off", build |-> None]

KeyFile == {None, "empty", "setup"} \union Terminal
CommandState == [op : {"none", "setup", "init", "install", "uninstall", "update"},
             pc : {"idle", "initCheck", "config", "configEnd", "createKey", "writeKey",
                   "writeUnit", "load", "plugin", "unitThere", "unload", "removeUnit",
                   "build", "copy", "copying", "rename", "verify"}]
DaemonState == [pc : {"off", "started", "iroh", "up"},
                build : Build \union {None}]

At(t, pc) == cmd[t].pc = pc
Become(t, c) == cmd' = [cmd EXCEPT ![t] = c]
Goto(t, pc) == Become(t, [cmd[t] EXCEPT !.pc = pc])
Ends(t) == Become(t, Idle)

Running(p) == daemon[p].pc # "off"
Listens(p) == daemon[p].pc = "up"

Startable == config = "whole" /\ key \notin {None, "empty"} /\ binary # Torn

FreshInit ==
  /\ config = "none" /\ key = None /\ unit = FALSE /\ loaded = FALSE
  /\ daemon = [p \in Process |-> Off]

InstalledInit ==
  /\ config = "whole" /\ key = "setup" /\ unit = TRUE /\ loaded = TRUE
  /\ daemon = [p \in Process |->
       IF p = "service" THEN [pc |-> "up", build |-> 1] ELSE Off]

InstallInit ==
  /\ FreshInit \/ InstalledInit
  /\ binary = 1 /\ fresh = None
  /\ cmd = [t \in Terminal |-> Idle]
  /\ events = 0 /\ printed = {} /\ updated = {} /\ missed = FALSE

-----------------------------------------------------------------------------
(* Commands.  `owl setup` is init unless there is a key, then install;      *)
(* `owl update` is build, replace, uninstall, install.                      *)

FirstStep(op) ==
  CASE op = "setup" -> IF key = None THEN "initCheck" ELSE "writeUnit"
    [] op = "init" -> "initCheck"
    [] op = "install" -> "writeUnit"
    [] op = "uninstall" -> "unitThere"
    [] op = "update" -> "build"

Begin(t) ==
  \E op \in {"setup", "init", "install", "uninstall", "update"} :
    /\ At(t, "idle") /\ events < MaxEvents
    /\ Become(t, [op |-> op, pc |-> FirstStep(op)])
    /\ events' = events + 1
    /\ UNCHANGED <<home, files, daemon, updated, missed>>

Dies(t) ==
  /\ ~At(t, "idle") /\ Ends(t)
  /\ UNCHANGED <<home, files, daemon, events, updated, missed>>

Quiet == UNCHANGED <<daemon, events, updated, missed>>

InitCheck(t) ==
  /\ At(t, "initCheck")
  /\ IF key = None THEN Goto(t, "config") ELSE Ends(t)
  /\ UNCHANGED <<home, files>> /\ Quiet

\* Config::save is one fs::write: the file is empty before it is whole.
SaveConfig(t) ==
  /\ \/ /\ At(t, "config") /\ config = "torn"
        /\ Ends(t) /\ UNCHANGED config
     \/ /\ At(t, "config") /\ config # "torn"
        /\ config' = "torn" /\ Goto(t, "configEnd")
     \/ /\ At(t, "configEnd")
        /\ config' = "whole" /\ Goto(t, "createKey")
  /\ UNCHANGED <<key, printed, files>> /\ Quiet

CreateKeyAnyway(t) ==
  /\ At(t, "createKey")
  /\ key' = "empty" /\ Goto(t, "writeKey")
  /\ UNCHANGED <<config, printed, files>> /\ Quiet
CreateKey(t) ==
  /\ At(t, "createKey")
  /\ IF key = None THEN key' = "empty" /\ Goto(t, "writeKey")
     ELSE UNCHANGED key /\ Ends(t)
  /\ UNCHANGED <<config, printed, files>> /\ Quiet

WriteKey(t) ==
  /\ At(t, "writeKey")
  /\ key' = t /\ printed' = printed \union {t}
  /\ IF cmd[t].op = "setup" THEN Goto(t, "writeUnit") ELSE Ends(t)
  /\ UNCHANGED <<config, files>> /\ Quiet

-----------------------------------------------------------------------------
(* Install and uninstall.                                                   *)

WriteUnit(t) ==
  /\ At(t, "writeUnit")
  /\ unit' = TRUE /\ Goto(t, "load")
  /\ UNCHANGED <<home, binary, fresh, loaded>> /\ Quiet

NewBuild == CHOOSE b \in Build : \A a \in Build : a <= b

\* The service manager takes the unit, which may be gone, or refuses it.
Load(t) ==
  /\ At(t, "load")
  /\ \/ /\ unit \/ loaded
        /\ loaded' = TRUE
        /\ IF cmd[t].op = "install" THEN Ends(t) ELSE Goto(t, "plugin")
     \/ UNCHANGED loaded /\ Ends(t)
  /\ UNCHANGED <<home, binary, fresh, unit>> /\ Quiet

\* The last step of a setup and an update: the Claude Code plugin, if any.
Plugin(t) ==
  /\ At(t, "plugin") /\ Ends(t)
  /\ \/ cmd[t].op = "update" /\ updated' = updated \union {NewBuild}
     \/ UNCHANGED updated
  /\ UNCHANGED <<home, files, daemon, events, missed>>

Afterwards(t) ==
  IF cmd[t].op = "update" THEN Goto(t, "writeUnit") ELSE Ends(t)

UnitThere(t) ==
  /\ At(t, "unitThere")
  /\ IF unit THEN Goto(t, "unload") ELSE Afterwards(t)
  /\ missed' = (missed \/ (loaded /\ ~unit))
  /\ UNCHANGED <<home, files, daemon, events, updated>>

Stop(p) == daemon' = [daemon EXCEPT ![p] = Off]

Unload(t) ==
  /\ At(t, "unload")
  /\ \/ loaded' = FALSE /\ Stop("service") /\ Goto(t, "removeUnit")
     \/ UNCHANGED <<loaded, daemon>> /\ Ends(t)
  /\ UNCHANGED <<home, binary, fresh, unit, events, updated, missed>>

RemoveUnit(t) ==
  /\ At(t, "removeUnit")
  /\ unit' = FALSE
  /\ IF unit THEN Afterwards(t) ELSE Ends(t)
  /\ UNCHANGED <<home, binary, fresh, loaded>> /\ Quiet

-----------------------------------------------------------------------------
(* Update: the build runs in a directory of its own, so it is one step.     *)

MakeBuild(t) ==
  /\ At(t, "build")
  /\ Goto(t, "copy") \/ Ends(t)
  /\ UNCHANGED <<home, files>> /\ Quiet

\* Two updates share `<active>.new`: one can rename the file the other is
\* still writing, whose last bytes then go to the binary.
Copy(t) ==
  /\ \/ At(t, "copy") /\ fresh' = Torn /\ Goto(t, "copying") /\ UNCHANGED binary
     \/ /\ At(t, "copying") /\ fresh # None
        /\ fresh' = NewBuild /\ Goto(t, "rename") /\ UNCHANGED binary
     \/ /\ At(t, "copying") /\ fresh = None
        /\ binary' \in {binary, NewBuild} /\ Goto(t, "rename") /\ UNCHANGED fresh
     \/ At(t, "copying") /\ UNCHANGED <<fresh, binary>> /\ Ends(t)
  /\ UNCHANGED <<home, unit, loaded>> /\ Quiet

Rename(t) ==
  /\ At(t, "rename")
  /\ fresh' = None
  /\ \/ fresh # None /\ binary' = fresh /\ Goto(t, "verify")
     \/ UNCHANGED binary /\ Ends(t)
  /\ UNCHANGED <<home, unit, loaded>> /\ Quiet

AfterVerifyNoStop(t) == Goto(t, "writeUnit")
AfterVerify(t) == Goto(t, "unitThere")
Verify(t) ==
  /\ At(t, "verify")
  /\ IF binary = NewBuild THEN AfterVerify(t) ELSE Ends(t)
  /\ UNCHANGED <<home, files>> /\ Quiet

-----------------------------------------------------------------------------
(* Daemon processes: load key, config and contacts, accept over iroh, bind  *)
(* the listener, write daemon.addr.                                         *)

Starts(p) ==
  /\ ~Running(p) /\ Startable
  /\ daemon' = [daemon EXCEPT ![p] = [pc |-> "started", build |-> binary]]
  /\ UNCHANGED <<home, files, cmd, updated, missed>>

StartService == loaded /\ Starts("service") /\ UNCHANGED events

StartManual ==
  /\ events < MaxEvents
  /\ Starts("manual") /\ events' = events + 1

IrohUp(p) ==
  /\ daemon[p].pc = "started"
  /\ daemon' = [daemon EXCEPT ![p].pc = "iroh"]
  /\ UNCHANGED <<home, files, cmd, events, updated, missed>>

BindLingering(p) ==
  /\ daemon[p].pc = "iroh"
  /\ IF \E q \in Process : Listens(q)
     THEN daemon' = [daemon EXCEPT ![p].pc = "unbound"]
     ELSE daemon' = [daemon EXCEPT ![p].pc = "up"]
  /\ UNCHANGED <<home, files, cmd, events, updated, missed>>
\* The port is the config's: a second daemon cannot bind it, and ends.
Bind(p) ==
  /\ daemon[p].pc = "iroh"
  /\ IF \E q \in Process : Listens(q) THEN Stop(p)
     ELSE daemon' = [daemon EXCEPT ![p].pc = "up"]
  /\ UNCHANGED <<home, files, cmd, events, updated, missed>>

Crash(p) ==
  /\ Running(p) /\ events < MaxEvents
  /\ Stop(p) /\ events' = events + 1
  /\ UNCHANGED <<home, files, cmd, updated, missed>>

StopManual ==
  /\ Running("manual") /\ Stop("manual")
  /\ UNCHANGED <<home, files, cmd, events, updated, missed>>

DaemonStep ==
  StartService \/ \E p \in Process : IrohUp(p) \/ Bind(p)

InstallNext ==
  \/ \E t \in Terminal :
       \/ Begin(t) \/ Dies(t) \/ InitCheck(t) \/ SaveConfig(t) \/ CreateKey(t)
       \/ WriteKey(t) \/ WriteUnit(t) \/ Load(t) \/ Plugin(t) \/ UnitThere(t) \/ Unload(t)
       \/ RemoveUnit(t) \/ MakeBuild(t) \/ Copy(t) \/ Rename(t) \/ Verify(t)
  \/ DaemonStep \/ StartManual \/ StopManual
  \/ \E p \in Process : Crash(p)

-----------------------------------------------------------------------------
(* The files of a machine, its commands and its daemons keep their types.   *)
InstallTypeOK ==
  /\ config \in {"none", "torn", "whole"} /\ key \in KeyFile /\ printed \subseteq Terminal
  /\ binary \in Build \union {Torn} /\ fresh \in Build \union {Torn, None}
  /\ unit \in BOOLEAN /\ loaded \in BOOLEAN
  /\ cmd \in [Terminal -> CommandState] /\ daemon \in [Process -> DaemonState]
  /\ events \in Nat /\ updated \subseteq Build /\ missed \in BOOLEAN

(* Two inits may both find no key: whoever is told a fingerprint keeps the  *)
(* key it names, for peers have it in their contact books (setup.rs,        *)
(* identity.rs).                                                            *)
PrintedIsKept == \A t \in printed : key = t

(* Once an update said so, the service runs the new build, whatever another *)
(* terminal installs or removes meanwhile; except when an uninstall took    *)
(* the unit file from under an install, which leaves a loaded service that  *)
(* no later update or uninstall finds to stop (update.rs, install.rs).      *)
UpdatedRuns ==
  \A b \in updated :
    Running("service") /\ ~missed => daemon["service"].build = b

(* While the unit stays loaded and home and binary are whole, a daemon      *)
(* listens again and again: one that lost the port to another ends, so that *)
(* the service manager tries again when the other is gone (daemon.rs).      *)
ServiceListens ==
  <>[](loaded /\ Startable) => []<>(\E p \in Process : Listens(p))
===============================================================================
