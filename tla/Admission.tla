------------------------------ MODULE Admission ------------------------------
(***************************************************************************)
(* Who gets a request in: post_question up to the write to inbox/, with the *)
(* contact book it reads, the rate limiter and the replay window it goes    *)
(* through, and the commands that change the book while requests arrive     *)
(* (owl add, owl contact remove, owl allow, owl deny, a hand-edited rate).  *)
(* What the replay window says of a request is a choice here (ReplayWindow  *)
(* is its module).                                                          *)
(*                                                                         *)
(* A bucket counts in units of 1/Hour of a token: a rate of r gives r units *)
(* a tick, a token is Hour units.                                           *)
(*                                                                         *)
(* An operator right before a definition, with the same parameters, is a   *)
(* faulty variant of it that the properties are tried against.             *)
(***************************************************************************)
EXTENDS Integers, Sequences

CONSTANTS
  Peer, Handler,
  Shared,       \* peers whose contact file is the repository's (.agents/peers/)
  OverlayFirst, \* peers whose overlay file sorts before their contact file
  Cli,          \* the owner's command processes
  Hour,         \* ticks in an hour
  DefaultRate,  \* config.rate_limit_per_peer_per_hour
  HandRate,     \* rates the owner may write into an overlay by hand
  NoPeer,
  Metered,      \* peers whose grants are counted
  MaxTime,      \* bound: the clock
  MaxOwner      \* bound: commands and hand edits of the owner

ASSUME AdmissionAssumption ==
  /\ Shared \subseteq Peer /\ OverlayFirst \subseteq Peer
  /\ Hour \in Nat \ {0} /\ DefaultRate \in Nat /\ HandRate \subseteq Nat /\ Metered \subseteq Peer
  /\ NoPeer \notin Peer
  /\ MaxTime \in Nat /\ MaxOwner \in Nat

VARIABLES
  now,      \* AppState::clock
  entry,    \* peers with a contact file (owl add writes it by rename)
  overlay,  \* contacts/<fingerprint>.json: the policy of each peer
  bucket,   \* AppState.buckets
  req,      \* post_question in each handler
  cmd,      \* allow, deny and contact remove
  used,     \* actions of the owner so far
  barred,   \* history: peers denied, and no policy command since
  breached, \* history: a request whose book was read under that was let in
  meter,    \* history: what the limiter granted since some moment
  promise   \* history: the first Retry-After since the last grant at this rate

vars == <<now, entry, overlay, bucket, req, cmd, used, barred, breached, meter, promise>>

Mode == {"none", "allowed", "never"}   \* allowed: manual or auto
Rate == HandRate \union {DefaultRate}
Policy == [mode : Mode \ {"none"}, rate : HandRate \union {-1}]  \* -1: not in the file
NoPolicy == [mode |-> "none", rate |-> -1]
Absent == [is |-> "absent", named |-> FALSE, policy |-> NoPolicy]
Torn == [is |-> "torn", named |-> FALSE, policy |-> NoPolicy]
Full(named, policy) == [is |-> "full", named |-> named, policy |-> policy]
Bucket == [tokens : Nat, last : Nat]
NoBucket == [tokens |-> 0, last |-> -1]
NoReq == [pc |-> "idle", peer |-> NoPeer, policy |-> NoPolicy, clock |-> 0, late |-> FALSE]
NoCmd == [pc |-> "idle", peer |-> NoPeer, mode |-> "none", named |-> FALSE, files |-> {}]
NoMeter == [on |-> FALSE, since |-> 0, granted |-> 0, top |-> 0, lag |-> 0]
NoPromise == [rate |-> 0, at |-> -1]

At(h, pc) == req[h].pc = pc
Step(h, from, to) == At(h, from) /\ req' = [req EXCEPT ![h].pc = to]
Over(h) == req' = [req EXCEPT ![h] = NoReq]

Init ==
  /\ now = 0 /\ entry \in SUBSET Peer /\ overlay \in [Peer -> {Absent, Full(TRUE, [mode |-> "allowed", rate |-> -1])}]
  /\ bucket = [p \in Peer |-> NoBucket]
  /\ req = [h \in Handler |-> NoReq] /\ cmd = [c \in Cli |-> NoCmd]
  /\ used = 0
  /\ barred = {} /\ breached = FALSE
  /\ meter = [p \in Peer |-> NoMeter] /\ promise = [p \in Peer |-> NoPromise]

-----------------------------------------------------------------------------
(* The contact book: the files of a key in the order they are read (the      *)
(* repository's first, then the home's by name), folded by merge. A file is a *)
(* [named, policy]; a malformed one is skipped.                               *)
ContactFile == [named |-> TRUE, policy |-> NoPolicy]
Files(p) ==
  LET own == IF p \in entry THEN <<ContactFile>> ELSE <<>>
      ovl == IF overlay[p].is = "full"
             THEN <<[named |-> overlay[p].named, policy |-> overlay[p].policy]>> ELSE <<>>
  IN IF p \in OverlayFirst /\ p \notin Shared THEN ovl \o own ELSE own \o ovl

MergeLast(into, other) == [named |-> into.named \/ other.named, policy |-> other.policy]
Merge(into, other) ==
  [named |-> into.named \/ other.named,
   policy |-> IF other.policy # NoPolicy THEN other.policy ELSE into.policy]

(* Two files at most; Known says there is a contact at all.                   *)
Known(p) == Files(p) # <<>>
Book(p) ==
  LET f == Files(p) IN IF Len(f) = 1 THEN f[1] ELSE Merge(f[1], f[2])

-----------------------------------------------------------------------------
(* The request handler.                                                      *)
(* A peer the book does not know is refused, and a request that is stale or     *)
(* was seen before (400, 409); nothing is kept of it here.                      *)
Receive(h, p) ==
  /\ At(h, "idle") /\ Known(p)
  /\ req' = [req EXCEPT ![h] = [pc |-> "clock", peer |-> p, policy |-> Book(p).policy,
                                clock |-> 0, late |-> p \in barred]]
  /\ UNCHANGED <<now, used, entry, overlay, bucket, cmd, barred, breached, meter, promise>>

(* The clock is read before the lock of the buckets is taken.                  *)
ReadClock(h) ==
  /\ At(h, "clock")
  /\ req' = [req EXCEPT ![h].pc = "take", ![h].clock = now]
  /\ UNCHANGED <<now, used, entry, overlay, bucket, cmd, barred, breached, meter, promise>>

RateOf(policy) == IF policy.rate = -1 THEN DefaultRate ELSE policy.rate
Least(a, b) == IF a <= b THEN a ELSE b
Most(a, b) == IF a >= b THEN a ELSE b

FullBucket(rate, clock) == [tokens |-> rate * Hour, last |-> clock]
RefillUncapped(b, rate, clock) == b.tokens + Most(0, clock - b.last) * rate
Refill(b, rate, clock) == Least(b.tokens + Most(0, clock - b.last) * rate, rate * Hour)

(* Seconds until the missing part of a token is there, rounded up.             *)
WaitDown(missing, rate) == Most(1, missing \div rate)
Wait(missing, rate) == Most(1, (missing + rate - 1) \div rate)

(* What a meter makes of a take at `clock` from a bucket last used at `last`.    *)
Counted(m, granted, rate, last, clock) ==
  [m EXCEPT !.granted = @ + (IF granted THEN 1 ELSE 0),
            !.top = Most(@, rate),
            !.lag = @ + Most(0, Most(last, m.since) - clock)]

Take(h) ==
  /\ At(h, "take")
  /\ LET p == req[h].peer
         rate == RateOf(req[h].policy)
         clock == req[h].clock
         b == IF bucket[p] = NoBucket THEN FullBucket(rate, clock) ELSE bucket[p]
         units == Refill(b, rate, clock)
         granted == rate > 0 /\ units >= Hour
     IN /\ bucket' = [bucket EXCEPT ![p] =
             IF rate = 0 THEN b
             ELSE [tokens |-> IF granted THEN units - Hour ELSE units, last |-> clock]]
        /\ meter' = IF rate > 0 /\ meter[p].on
                    THEN [meter EXCEPT ![p] = Counted(meter[p], granted, rate, b.last, clock)]
                    ELSE meter
        /\ IF granted
           THEN /\ Step(h, "take", "decide")
                /\ promise' = [promise EXCEPT ![p] = NoPromise]
           ELSE /\ Over(h)
                /\ promise' = [promise EXCEPT ![p] =
                     IF rate = 0 THEN NoPromise
                     ELSE IF promise[p].rate = rate THEN promise[p]
                     ELSE [rate |-> rate, at |-> clock + Wait(Hour - units, rate)]]
  /\ UNCHANGED <<now, used, entry, overlay, cmd, barred, breached>>

(* A peer the policy of the request's book denies: 403, the token is spent.      *)
(* (A responder switched off refuses everybody here; it is taken to be on.)      *)
Decide(h) ==
  /\ At(h, "decide")
  /\ Over(h)
  /\ breached' = (breached \/ (req[h].policy.mode # "never" /\ req[h].late))
  /\ UNCHANGED <<now, used, entry, overlay, bucket, cmd, barred, meter, promise>>

-----------------------------------------------------------------------------
(* The owner's side.                                                          *)
Spend == used < MaxOwner /\ used' = used + 1

(* owl add refuses a key that is a contact already.                            *)
Add(p) ==
  /\ ~Known(p)
  /\ entry' = entry \union {p}
  /\ Spend
  /\ UNCHANGED <<now, overlay, bucket, req, cmd, barred, breached, meter, promise>>

(* owl contact remove lists the files of the key it can read, then unlinks them *)
(* one by one in the order they are read; a file gone meanwhile ends it.       *)
RemoveContact(c, p) ==
  /\ cmd[c] = NoCmd /\ Known(p)
  /\ cmd' = [cmd EXCEPT ![c] =
       [NoCmd EXCEPT !.pc = "unlink", !.peer = p,
                     !.files = {f \in {"entry", "overlay"} :
                                  IF f = "entry" THEN p \in entry ELSE overlay[p].is = "full"}]]
  /\ Spend
  /\ UNCHANGED <<now, entry, overlay, bucket, req, barred, breached, meter, promise>>

Unlink(c) ==
  /\ cmd[c].pc = "unlink"
  /\ LET p == cmd[c].peer
         first == IF p \in OverlayFirst \ Shared THEN "overlay" ELSE "entry"
         f == IF first \in cmd[c].files THEN first ELSE CHOOSE g \in cmd[c].files : TRUE
         gone == IF f = "entry" THEN p \notin entry ELSE overlay[p] = Absent
     IN /\ cmd' = [cmd EXCEPT ![c] = IF gone \/ cmd[c].files = {f} THEN NoCmd
                                     ELSE [cmd[c] EXCEPT !.files = @ \ {f}]]
        /\ entry' = IF f = "entry" THEN entry \ {p} ELSE entry
        /\ overlay' = IF f = "overlay" THEN [overlay EXCEPT ![p] = Absent] ELSE overlay
        /\ barred' = IF f = "overlay" THEN barred \ {p} ELSE barred
  /\ UNCHANGED <<now, used, bucket, req, breached, meter, promise>>

HandEdit(p, rate) ==
  /\ overlay[p].is = "full"
  /\ overlay' = [overlay EXCEPT ![p].policy.rate = rate]
  /\ Spend
  /\ UNCHANGED <<now, entry, bucket, req, cmd, barred, breached, meter, promise>>

(* allow and deny: resolve the contact, read its overlay (a torn one ends the  *)
(* command), rewrite it in place. A new overlay of a shared contact has no     *)
(* name, one of a contact of this machine is a copy of it.                     *)
Resolve(c, p, mode) ==
  /\ cmd[c] = NoCmd /\ Known(p)
  /\ cmd' = [cmd EXCEPT ![c] = [pc |-> "read", peer |-> p, mode |-> mode, files |-> {},
                                named |-> Book(p).named /\ ~(p \in Shared /\ p \in entry)]]
  /\ Spend
  /\ UNCHANGED <<now, entry, overlay, bucket, req, barred, breached, meter, promise>>

ReadOverlay(c) ==
  /\ cmd[c].pc = "read"
  /\ LET o == overlay[cmd[c].peer]
     IN cmd' = [cmd EXCEPT ![c] =
          IF o.is = "torn" THEN NoCmd
          ELSE [cmd[c] EXCEPT !.pc = "truncate",
                              !.named = IF o.is = "full" THEN o.named ELSE cmd[c].named]]
  /\ UNCHANGED <<now, used, entry, overlay, bucket, req, barred, breached, meter, promise>>

TruncateOverlay(c) ==
  /\ cmd[c].pc = "truncate"
  /\ cmd' = [cmd EXCEPT ![c].pc = "write"]
  /\ overlay' = [overlay EXCEPT ![cmd[c].peer] = Torn]
  /\ barred' = barred \ {cmd[c].peer}
  /\ UNCHANGED <<now, used, entry, bucket, req, breached, meter, promise>>

(* The policy replaces the old one, a hand-set rate with it.                    *)
WriteOverlay(c) ==
  /\ cmd[c].pc = "write"
  /\ overlay' = [overlay EXCEPT ![cmd[c].peer] =
       Full(cmd[c].named, [mode |-> cmd[c].mode, rate |-> -1])]
  /\ barred' = IF cmd[c].mode = "never" THEN barred \union {cmd[c].peer} ELSE barred \ {cmd[c].peer}
  /\ cmd' = [cmd EXCEPT ![c] = NoCmd]
  /\ UNCHANGED <<now, used, entry, bucket, req, breached, meter, promise>>

(* A command is interrupted, or its write fails.                                *)
CliDies(c) ==
  /\ cmd[c] # NoCmd
  /\ cmd' = [cmd EXCEPT ![c] = NoCmd]
  /\ UNCHANGED <<now, used, entry, overlay, bucket, req, barred, breached, meter, promise>>

-----------------------------------------------------------------------------
(* The daemon restarts: buckets live in memory only.                            *)
Restart ==
  /\ bucket' = [p \in Peer |-> NoBucket]
  /\ req' = [h \in Handler |-> NoReq]
  /\ meter' = [p \in Peer |-> NoMeter] /\ promise' = [p \in Peer |-> NoPromise]
  /\ UNCHANGED <<now, used, entry, overlay, cmd, barred, breached>>

Tick ==
  /\ now < MaxTime
  /\ now' = now + 1
  /\ UNCHANGED <<used, entry, overlay, bucket, req, cmd, barred, breached, meter, promise>>

(* Somebody starts counting what the limiter grants a peer.                      *)
StartMeter(p) ==
  /\ p \in Metered /\ ~meter[p].on
  /\ meter' = [meter EXCEPT ![p] = [NoMeter EXCEPT !.on = TRUE, !.since = now]]
  /\ UNCHANGED <<now, used, entry, overlay, bucket, req, cmd, barred, breached, promise>>

HandlerStep(h) ==
  \/ \E p \in Peer : Receive(h, p)
  \/ ReadClock(h) \/ Take(h) \/ Decide(h)

OwnerStep ==
  \/ \E p \in Peer :
       \/ Add(p) \/ \E rate \in HandRate : HandEdit(p, rate)
       \/ \E c \in Cli : RemoveContact(c, p)
  \/ \E c \in Cli :
       \/ \E p \in Peer, mode \in {"allowed", "never"} : Resolve(c, p, mode)
       \/ Unlink(c) \/ ReadOverlay(c) \/ TruncateOverlay(c) \/ WriteOverlay(c) \/ CliDies(c)

Next ==
  \/ \E h \in Handler : HandlerStep(h)
  \/ OwnerStep \/ Restart \/ Tick
  \/ \E p \in Peer : StartMeter(p)

Spec == Init /\ [][Next]_vars

-----------------------------------------------------------------------------
TypeOK ==
  /\ now \in Nat
  /\ entry \subseteq Peer /\ barred \subseteq Peer /\ breached \in BOOLEAN
  /\ overlay \in [Peer -> {Absent, Torn} \union
                    [is : {"full"}, named : BOOLEAN, policy : Policy]]
  /\ bucket \in [Peer -> {NoBucket} \union Bucket]
  /\ req \in [Handler -> {NoReq} \union
                [pc : {"clock", "take", "decide"}, peer : Peer,
                 policy : Policy \union {NoPolicy}, clock : Nat, late : BOOLEAN]]
  /\ cmd \in [Cli -> {NoCmd}
       \union [pc : {"read", "truncate", "write"}, peer : Peer, mode : Mode \ {"none"},
               named : BOOLEAN, files : {{}}]
       \union [pc : {"unlink"}, peer : Peer, mode : {"none"},
               named : {FALSE}, files : SUBSET {"entry", "overlay"}]]
  /\ used \in Nat
  /\ meter \in [Peer -> [on : BOOLEAN, since : Nat, granted : Nat, top : Nat, lag : Nat]]
  /\ promise \in [Peer -> {NoPromise} \union [rate : Nat, at : Nat]]

(* From whatever moment one counts, a peer is granted no more requests than one  *)
(* full bucket and the refill of the time since, at the highest rate it had:     *)
(* policy changes, hand edits, concurrent handlers and long idle times add       *)
(* nothing. Time a handler sets the bucket's clock back by (`lag`: it read the   *)
(* clock before another, and takes after it) is the one thing that counts twice. *)
RateHolds ==
  \A p \in Peer : meter[p].on =>
    Hour * meter[p].granted <= meter[p].top * (Hour + (now - meter[p].since) + meter[p].lag)

(* A peer that was told when to come back finds a token then, however often it   *)
(* tried and was refused in between, as long as its rate is the same.            *)
RetryHonoured ==
  \A p \in Peer : promise[p] # NoPromise =>
    Refill(bucket[p], promise[p].rate, promise[p].at) >= Hour

(* Once `owl deny` has written its policy, no request that arrives later gets     *)
(* in, whatever other files the book has of the peer and in whatever order they   *)
(* are read, until the next command rewrites or removes the policy.               *)
DenyHolds == ~breached

=============================================================================
