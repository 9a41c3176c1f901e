--------------------------------- MODULE Node ---------------------------------
(***************************************************************************)
(* One `owl ask`, `owl request` or `owl call` on its way to a peer: from   *)
(* the command over its own daemon and iroh, then over the peer's endpoint *)
(* (client.rs, iroh.rs, the forward route and the TLS listener of          *)
(* server.rs, tls.rs), to the daemon that checks and spools it             *)
(* (post_question).  The peer's machine                                    *)
(* is that of Install: its daemon is installed, updated, crashes and       *)
(* starts again while calls are on their way, and its owner adds and       *)
(* removes the asker as a contact.                                         *)
(*                                                                         *)
(* Any connection can break and any reply be late: the caller then goes on *)
(* to the next transport, while the handler it left may still be at work.  *)
(***************************************************************************)
EXTENDS Install

CONSTANTS
  Kinds,   \* what may be sent
  MaxBook  \* bound: changes to the peer's contact book

ASSUME NodeAssumption ==
  /\ Kinds \subseteq {"question", "content", "tool-call"} /\ MaxBook \in Nat
  /\ None \notin {"asked", "received", "content-requested", "tool-requested"}

VARIABLES
  kind,     \* what the command sends
  client,   \* where the command is
  forward,  \* the request it handed to the daemon of its own machine
  filed,    \* the first event of asks/<id>.json, once written
  req,      \* the delivery over each transport, and its handler
  book,     \* the asker is in the peer's contact book
  changes,  \* how often that changed
  allowed,  \* the asker's key is among those a daemon's listener lets in
  held,     \* the first event of inbox/<id>.json, once written
  seen      \* the daemons that hold the id as seen; "file" for seen-ids.txt

asker == <<kind, client, forward, filed>>
contacts == <<book, changes>>
stored == <<held, seen>>
vars == <<install, asker, req, contacts, allowed, stored>>

Transport == {"iroh", "tls"}
Kind == {"question", "content", "tool-call"}
Status == {0, 200, 202, 403, 409, 429, 500, 502}  \* 0: none yet
ClientPc == {"idle", "iroh", "endpoint", "tls", "file", "store", "done"}
Forward == [pc : {"off", "dial", "wait", "replied"}, status : Status]
Request == [pc : {"none", "accept", "caller", "limits", "put", "hit", "remember",
                  "replied", "dead"},
            on : Process \union {None}, status : Status, was : BOOLEAN]
NoReq == [pc |-> "none", on |-> None, status |-> 0, was |-> FALSE]

Init ==
  /\ InstallInit
  /\ client = "idle" /\ kind = None
  /\ forward = [pc |-> "off", status |-> 0]
  /\ filed = None
  /\ req = [x \in Transport |-> NoReq]
  /\ book \in BOOLEAN /\ changes = 0
  /\ allowed = [p \in Process |-> book /\ Running(p)]
  /\ held = None /\ seen = {}

-----------------------------------------------------------------------------
(* The peer's machine: a daemon that ends takes its handlers with it; one   *)
(* that starts reads the keys it will allow and seen-ids.txt.               *)

Broken(r) ==
  IF r.on # None /\ daemon'[r.on].pc = "off" /\ r.pc # "replied"
  THEN [r EXCEPT !.pc = "dead"] ELSE r

Started(p) == ~Running(p) /\ daemon'[p].pc = "started"
AllowedKeys == book

Effects ==
  /\ req' = [x \in Transport |-> Broken(req[x])]
  /\ allowed' = [p \in Process |-> IF Started(p) THEN AllowedKeys ELSE allowed[p]]
  /\ seen' = {s \in Process \union {"file"} :
                IF s \in Process /\ Started(s) THEN "file" \in seen ELSE s \in seen}
  /\ UNCHANGED <<asker, contacts, held>>

Machine == InstallNext /\ Effects

ChangeBook ==
  /\ client # "idle"  \* bound: until the call nothing reads the book but a start
  /\ changes < MaxBook /\ changes' = changes + 1
  /\ book' = ~book
  /\ req' = [x \in Transport |->
       [req[x] EXCEPT !.was = req[x].pc # "none" /\ (@ \/ book')]]
  /\ UNCHANGED <<install, asker, allowed, stored>>

-----------------------------------------------------------------------------
(* The command (client.rs: send_question, reach, via_iroh).                 *)

Exit == client' = "done"
OnlyAsker == UNCHANGED <<install, kind, contacts, allowed, stored>>

\* daemon.addr names a daemon that answers, or is absent or stale.  A call
\* counts for two of the MaxEvents.
Call ==
  /\ client = "idle" /\ events + 1 < MaxEvents
  /\ events' = events + 2 /\ kind' \in Kinds
  /\ \/ client' = "iroh" /\ forward' = [pc |-> "dial", status |-> 0]
     \/ client' = "endpoint" /\ UNCHANGED forward
  /\ UNCHANGED <<home, files, cmd, daemon, updated, missed>>
  /\ UNCHANGED <<filed, req, contacts, allowed, stored>>

\* Deliver a request to the daemon p over x: its handler starts.
Deliver(x, p) ==
  req' = [req EXCEPT ![x] = [pc |-> "accept", on |-> p, status |-> 0, was |-> book]]

\* The forward route: 502 when the peer was not reached over iroh.
Dial ==
  /\ forward.pc = "dial"
  /\ \/ \E p \in Process :
          /\ daemon[p].pc \in {"iroh", "up"} /\ Deliver("iroh", p)
          /\ forward' = [forward EXCEPT !.pc = "wait"]
     \/ forward' = [pc |-> "replied", status |-> 502] /\ UNCHANGED req
  /\ UNCHANGED <<client, filed>> /\ OnlyAsker

ForwardReplies ==
  /\ forward.pc = "wait"
  /\ \/ /\ req["iroh"].pc = "replied"
        /\ forward' = [pc |-> "replied", status |-> req["iroh"].status]
     \/ forward' = [pc |-> "replied", status |-> 502]
  /\ UNCHANGED <<client, filed, req>> /\ OnlyAsker

LocalDies ==
  /\ forward.pc # "off" /\ client = "iroh"
  /\ forward' = [pc |-> "off", status |-> 0]
  /\ UNCHANGED <<client, filed, req>> /\ OnlyAsker

\* 403, 429 and the rest end the command, each its way; so does a 200 to a
\* request that nobody answers inline.
AskOutcome(status) ==
  CASE status = 202 -> "file" [] status = 200 -> "store" [] OTHER -> "done"
RequestOutcome(status) == IF status = 202 THEN "file" ELSE "done"
CallOutcome(status) == IF status = 202 THEN "file" ELSE "done"

TakeReply(status) ==
  client' = CASE kind = "question" -> AskOutcome(status)
              [] kind = "content" -> RequestOutcome(status)
              [] kind = "tool-call" -> CallOutcome(status)

FromIroh ==
  /\ client = "iroh" /\ forward.pc = "replied"
  /\ IF forward.status = 502 THEN client' = "endpoint"
     ELSE TakeReply(forward.status)
  /\ UNCHANGED <<forward, filed, req>> /\ OnlyAsker

\* The listener lets the asker's certificate in; the pinned client finds the
\* peer's key at the endpoint.
LetIn(p) == allowed[p]
Connects(p) == Listens(p) /\ LetIn(p)

Connect ==
  /\ client = "endpoint"
  /\ \/ \E p \in Process :
          Connects(p) /\ Deliver("tls", p) /\ client' = "tls"
     \/ Exit /\ UNCHANGED req
  /\ UNCHANGED <<forward, filed>> /\ OnlyAsker

FromEndpoint ==
  /\ client = "tls" /\ req["tls"].pc = "replied"
  /\ TakeReply(req["tls"].status)
  /\ UNCHANGED <<forward, filed, req>> /\ OnlyAsker

GiveUpIfBroken ==
  /\ \/ client = "iroh" /\ forward.pc = "off" /\ client' = "endpoint"
     \/ client = "tls" /\ req["tls"].pc = "dead" /\ Exit
  /\ UNCHANGED <<forward, filed, req>> /\ OnlyAsker
\* A timeout, a broken connection or a reply cut short.
GiveUp ==
  /\ \/ client = "iroh" /\ client' = "endpoint"
     \/ client = "tls" /\ Exit
  /\ UNCHANGED <<forward, filed, req>> /\ OnlyAsker

\* The word both sides open the thread of a content or tool request with.
Birth == CASE kind = "question" -> "asked" [] kind = "content" -> "content-requested"
           [] kind = "tool-call" -> "tool-requested"

FileAsk ==
  /\ client = "file"
  /\ Exit /\ filed' = Birth
  /\ UNCHANGED <<forward, req>> /\ OnlyAsker

\* pull::store_answer and done/, as in Asker.
StoreInline ==
  /\ client = "store" /\ Exit
  /\ UNCHANGED <<forward, filed, req>> /\ OnlyAsker

CommandDies ==
  /\ client \notin {"idle", "done"} /\ Exit
  /\ UNCHANGED <<forward, filed, req>> /\ OnlyAsker

-----------------------------------------------------------------------------
(* The handler (iroh.rs: serve; server.rs: post_question).                  *)

AtReq(x, pc) == req[x].pc = pc
GoReq(x, pc) == req' = [req EXCEPT ![x].pc = pc]
Reply(x, status) == req' = [req EXCEPT ![x].pc = "replied", ![x].status = status]
OnlyReq == UNCHANGED <<install, asker, contacts, allowed>>

\* Over iroh the book is read for each connection; TLS checked its keys.
Accept(x) ==
  /\ AtReq(x, "accept")
  /\ GoReq(x, IF x = "iroh" /\ ~book THEN "dead" ELSE "caller")
  /\ UNCHANGED stored /\ OnlyReq

InBookAtStart(x) == allowed[req[x].on] \/ x = "iroh"
InBook(x) == book
Caller(x) ==
  /\ AtReq(x, "caller")
  /\ IF InBook(x) THEN GoReq(x, "limits") ELSE Reply(x, 403)
  /\ UNCHANGED stored /\ OnlyReq

\* Stale, duplicate, rate, policy, cache: in this order; the last three are
\* those of Admission and Responder, here any of their outcomes.
Limits(x) ==
  /\ AtReq(x, "limits")
  /\ IF req[x].on \in seen THEN Reply(x, 409)
     ELSE \/ \E status \in {429, 403} : Reply(x, status)
          \/ GoReq(x, "put")
          \/ kind = "question" /\ GoReq(x, "hit")
  /\ UNCHANGED stored /\ OnlyReq

Arrival == CASE kind = "question" -> "received" [] kind = "content" -> "content-requested"
             [] kind = "tool-call" -> "tool-requested"

PutUnchecked(x) ==
  /\ AtReq(x, "put")
  /\ held' \in {held, Arrival} /\ GoReq(x, "remember")
  /\ UNCHANGED seen /\ OnlyReq
Put(x) ==
  /\ AtReq(x, "put")
  /\ \/ held' = Arrival /\ GoReq(x, "remember")
     \/ UNCHANGED held /\ Reply(x, 500)
  /\ UNCHANGED seen /\ OnlyReq

Remember(x) ==
  /\ AtReq(x, "remember") \/ AtReq(x, "hit")
  /\ \/ /\ seen' = seen \union {req[x].on, "file"}
        /\ Reply(x, IF AtReq(x, "hit") THEN 200 ELSE 202)
     \/ seen' = seen \union {req[x].on} /\ Reply(x, 500)
  /\ UNCHANGED held /\ OnlyReq

Handler(x) == Accept(x) \/ Caller(x) \/ Limits(x) \/ Put(x) \/ Remember(x)
Command == Call \/ FromIroh \/ Connect \/ FromEndpoint \/ GiveUp
           \/ FileAsk \/ StoreInline

Next ==
  \/ Machine \/ ChangeBook \/ LocalDies \/ Dial \/ ForwardReplies
  \/ Command \/ CommandDies
  \/ \E x \in Transport : Handler(x)

Called == client # "idle"
Fairness ==
  /\ WF_vars(DaemonStep /\ Effects)
  /\ WF_vars(Command /\ Called)

Spec == Init /\ [][Next]_vars /\ Fairness

-----------------------------------------------------------------------------
(* The call, its deliveries and what either side keeps of it have their types. *)
TypeOK ==
  /\ InstallTypeOK
  /\ kind \in Kind \union {None} /\ client \in ClientPc /\ forward \in Forward
  /\ filed # None => filed = Birth
  /\ held # None => held = Arrival
  /\ req \in [Transport -> Request]
  /\ book \in BOOLEAN /\ changes \in Nat /\ allowed \in [Process -> BOOLEAN]
  /\ seen \subseteq Process \union {"file"}

(* An ask on file is one the peer holds, whichever transport brought the    *)
(* 202 and whatever its daemon did since; a content or tool request opens   *)
(* the thread with the same word on both sides (ask.rs, request.rs,         *)
(* call.rs, post_question).                                                 *)
AcceptedIsHeld ==
  /\ filed # None \/ client = "file" => held # None
  /\ filed # None /\ kind # "question" => held = filed

(* A question is spooled only for a caller who was a contact at some moment *)
(* of its delivery: removing a contact counts without a restart, although   *)
(* the listener keeps the keys it started with (post_question, iroh serve). *)
StoredFromContact ==
  \A x \in Transport :
    AtReq(x, "remember") \/ req[x].status = 202 => req[x].was

(* Every command ends: each wait has a timeout of its own, so no lost reply *)
(* and no dead daemon on either machine holds it for ever (client.rs).      *)
CallEnds == Called ~> client = "done"
===============================================================================
