--------------------------- MODULE AdmissionProofs ----------------------------
(***************************************************************************)
(* Theorems about Admission, for any peers, handlers and commands, any     *)
(* rates, any length of the hour and any clock: types, the rate, the wait  *)
(* a refused peer is told, and that a deny holds.                          *)
(*                                                                         *)
(* The rate: what the limiter granted and what is left in the bucket never *)
(* exceed one full bucket and the refill up to the bucket's own clock      *)
(* (Metering).  The wait: a refusal moves the bucket's clock and its       *)
(* tokens along the same line (Promised).                                  *)
(***************************************************************************)
EXTENDS Admission, SequenceTheorems, TLAPS

Entry == [is : {"full"}, named : BOOLEAN, policy : Policy]
Overlay == {Absent, Torn} \union Entry
Busy == [pc : {"clock", "take", "decide"}, peer : Peer,
         policy : Policy \union {NoPolicy}, clock : Nat, late : BOOLEAN]
SetsPolicy == [pc : {"read", "truncate", "write"}, peer : Peer, mode : Mode \ {"none"},
               named : BOOLEAN, files : {{}}]
Removes == [pc : {"unlink"}, peer : Peer, mode : {"none"},
            named : {FALSE}, files : SUBSET {"entry", "overlay"}]
Meter == [on : BOOLEAN, since : Nat, granted : Nat, top : Nat, lag : Nat]
Promise == [rate : Nat, at : Nat]

Clocks ==
  /\ \A h \in Handler : req[h].clock <= now
  /\ \A p \in Peer : bucket[p] # NoBucket => bucket[p].last <= now

Metering(m, b) ==
  m.on =>
    /\ m.since <= now
    /\ m.top = 0 => m.granted = 0
    /\ m.top > 0 =>
         /\ b # NoBucket /\ 0 <= b.last - m.since + m.lag
         /\ Hour * m.granted + b.tokens <= m.top * (Hour + (b.last - m.since + m.lag))

Promised(o, b) ==
  o # NoPromise =>
    b # NoBucket /\ o.rate > 0 /\ Refill(b, o.rate, o.at) >= Hour

DenySound ==
  /\ \A p \in barred : overlay[p].is = "full" /\ overlay[p].policy.mode = "never"
  /\ \A h \in Handler : req[h].late => req[h].policy.mode = "never"
  /\ DenyHolds

LimiterSound ==
  /\ Clocks
  /\ \A p \in Peer : Metering(meter[p], bucket[p]) /\ Promised(promise[p], bucket[p])

Safe == TypeOK /\ DenySound /\ LimiterSound

-----------------------------------------------------------------------------
(* Arithmetic. *)

LEMMA TimesMono ==
  ASSUME NEW a \in Int, NEW b \in Int, NEW c \in Nat, a <= b
  PROVE  a * c <= b * c /\ c * a <= c * b
  OBVIOUS

LEMMA TimesPlus ==
  ASSUME NEW a \in Int, NEW b \in Int, NEW c \in Int
  PROVE  a * (b + c) = a * b + a * c /\ (b + c) * a = b * a + c * a
  OBVIOUS

LEMMA TimesNat ==
  ASSUME NEW a \in Nat, NEW b \in Nat
  PROVE  a * b \in Nat
  OBVIOUS

LEMMA TimesPos ==
  ASSUME NEW a \in Nat \ {0}, NEW b \in Nat
  PROVE  a * b \in Nat /\ b <= a * b
  <1>1. 1 * b <= a * b BY TimesMono
  <1> QED BY <1>1, TimesNat

(* Rounding up: r times the quotient covers m. *)
LEMMA RoundUp ==
  ASSUME NEW m \in Nat, NEW r \in Nat \ {0}
  PROVE  /\ (m + r - 1) \div r \in Nat
         /\ m <= ((m + r - 1) \div r) * r
  <1> DEFINE q == (m + r - 1) \div r
  <1>1. m + r - 1 \in Nat OBVIOUS
  <1>2. q \in Int /\ r * q <= m + r - 1 /\ m + r - 1 < r * q + r
    BY <1>1
  <1>3. q >= 0
    <2> SUFFICES ASSUME q < 0 PROVE FALSE BY <1>2
    <2>1. q + 1 <= 0 BY <1>2
    <2>2. r * (q + 1) <= r * 0 BY <1>2, <2>1, TimesMono
    <2>3. r * (q + 1) = r * q + r BY <1>2, TimesPlus
    <2> QED BY <1>1, <1>2, <2>2, <2>3
  <1>4. r * q = q * r BY <1>2
  <1> QED BY <1>2, <1>3, <1>4

-----------------------------------------------------------------------------
(* The bucket. *)

LEMMA RefillFits ==
  ASSUME NEW b \in Bucket, NEW rate \in Nat, NEW clock \in Nat
  PROVE  /\ Refill(b, rate, clock) \in Nat
         /\ Refill(b, rate, clock) <= rate * Hour
         /\ Refill(b, rate, clock) <= b.tokens + Most(0, clock - b.last) * rate
  <1>1. Most(0, clock - b.last) \in Nat BY DEF Most, Bucket
  <1>2. Most(0, clock - b.last) * rate \in Nat /\ rate * Hour \in Nat
    BY <1>1, TimesNat, AdmissionAssumption
  <1> QED BY <1>2 DEF Refill, Least, Bucket

(* A later look at the same bucket finds no less. *)
LEMMA RefillGrows ==
  ASSUME NEW b \in Bucket, NEW rate \in Nat, NEW at \in Nat, NEW clock \in Nat,
         at <= clock
  PROVE  Refill(b, rate, at) <= Refill(b, rate, clock)
  <1>1. /\ Most(0, at - b.last) \in Nat /\ Most(0, clock - b.last) \in Nat
        /\ Most(0, at - b.last) <= Most(0, clock - b.last)
    BY DEF Most, Bucket
  <1>2. Most(0, at - b.last) * rate <= Most(0, clock - b.last) * rate
    BY <1>1, TimesMono
  <1>3. /\ Most(0, at - b.last) * rate \in Nat /\ Most(0, clock - b.last) * rate \in Nat
        /\ rate * Hour \in Nat
    BY <1>1, TimesNat, AdmissionAssumption
  <1> QED BY <1>2, <1>3 DEF Refill, Least, Bucket

(* A refusal at `clock` takes nothing from what the bucket holds later. *)
LEMMA RefusalKeepsWait ==
  ASSUME NEW b \in Bucket, NEW rate \in Nat \ {0}, NEW at \in Nat, NEW clock \in Nat,
         Refill(b, rate, at) >= Hour, Refill(b, rate, clock) < Hour
  PROVE  Refill([tokens |-> Refill(b, rate, clock), last |-> clock], rate, at) >= Hour
  <1> DEFINE u == Refill(b, rate, clock)
             E == Most(0, clock - b.last)
             F == Most(0, at - b.last)
  <1>0. Hour \in Nat \ {0} /\ b.tokens \in Nat /\ b.last \in Nat
    BY AdmissionAssumption DEF Bucket
  <1>1. u \in Nat BY RefillFits
  <1>2. clock < at
    <2> SUFFICES ASSUME at <= clock PROVE FALSE BY <1>1
    <2>1. Refill(b, rate, at) <= u BY RefillGrows
    <2>2. Refill(b, rate, at) \in Nat BY RefillFits
    <2> QED BY <1>0, <1>1, <2>1, <2>2
  <1>3. /\ E \in Nat /\ F \in Nat /\ at - clock \in Nat
        /\ F <= E + (at - clock)
    BY <1>0, <1>2 DEF Most
  <1>4. /\ E * rate \in Nat /\ F * rate \in Nat /\ (at - clock) * rate \in Nat
        /\ rate * Hour \in Nat /\ Hour <= rate * Hour
    BY <1>0, <1>3, TimesNat, TimesPos
  <1>5. u = b.tokens + E * rate
    BY <1>0, <1>1, <1>4 DEF Refill, Least
  <1>6. Hour <= b.tokens + F * rate
    BY <1>0, <1>4 DEF Refill, Least
  <1>7. F * rate <= E * rate + (at - clock) * rate
    <2>1. F * rate <= (E + (at - clock)) * rate BY <1>3, TimesMono
    <2> QED BY <1>3, <2>1, TimesPlus
  <1>8. Hour <= u + (at - clock) * rate
    <2> HIDE DEF u, E, F
    <2> QED BY <1>0, <1>1, <1>3, <1>4, <1>5, <1>6, <1>7
  <1>9. Most(0, at - clock) = at - clock BY <1>2 DEF Most
  <1> HIDE DEF u
  <1>10. Refill([tokens |-> u, last |-> clock], rate, at)
           = Least(u + (at - clock) * rate, rate * Hour)
    BY <1>9 DEF Refill
  <1> QED BY <1>4, <1>8, <1>10 DEF Least, u

(* The wait told with a refusal is long enough. *)
LEMMA WaitIsEnough ==
  ASSUME NEW u \in Nat, NEW rate \in Nat \ {0}, NEW clock \in Nat, u < Hour
  PROVE  /\ clock + Wait(Hour - u, rate) \in Nat
         /\ Refill([tokens |-> u, last |-> clock], rate,
                   clock + Wait(Hour - u, rate)) >= Hour
  <1> DEFINE m == Hour - u
             q == (m + rate - 1) \div rate
             w == Wait(Hour - u, rate)
  <1>0. Hour \in Nat \ {0} /\ m \in Nat BY AdmissionAssumption
  <1>1. q \in Nat /\ m <= q * rate BY <1>0, RoundUp
  <1>2. w = Most(1, q) BY DEF Wait
  <1> HIDE DEF q
  <1>3. w \in Nat /\ q <= w BY <1>1, <1>2 DEF Most
  <1>4. q * rate <= w * rate /\ w * rate \in Nat /\ q * rate \in Nat
    BY <1>1, <1>3, TimesMono, TimesNat
  <1> HIDE DEF w
  <1>5. Hour <= u + w * rate BY <1>0, <1>1, <1>4
  <1>6. Hour <= rate * Hour /\ rate * Hour \in Nat BY <1>0, TimesPos
  <1>7. Most(0, (clock + w) - clock) = w BY <1>3 DEF Most
  <1>8. Refill([tokens |-> u, last |-> clock], rate, clock + w)
          = Least(u + w * rate, rate * Hour)
    BY <1>7 DEF Refill
  <1>9. Least(u + w * rate, rate * Hour) >= Hour BY <1>0, <1>4, <1>5, <1>6 DEF Least
  <1> QED BY <1>3, <1>8, <1>9 DEF w

(* What a take at `clock` makes of the balance, granted or not. *)
LEMMA TakeBalances ==
  ASSUME NEW b \in Bucket, NEW rate \in Nat \ {0}, NEW clock \in Nat,
         NEW since \in Nat, NEW granted \in Nat, NEW top \in Nat, NEW lag \in Nat,
         top = 0 => granted = 0,
         top > 0 => /\ 0 <= b.last - since + lag
                    /\ Hour * granted + b.tokens <= top * (Hour + (b.last - since + lag))
  PROVE  LET more == lag + Most(0, Most(b.last, since) - clock)
             high == Most(top, rate)
             left == clock - since + more
         IN /\ more \in Nat /\ high \in Nat /\ high > 0 /\ 0 <= left
            /\ Hour * granted + Refill(b, rate, clock) <= high * (Hour + left)
  <1> DEFINE more == lag + Most(0, Most(b.last, since) - clock)
             high == Most(top, rate)
             left == clock - since + more
             D == b.last - since + lag
             E == Most(0, clock - b.last)
             u == Refill(b, rate, clock)
  <1>0. Hour \in Nat \ {0} /\ b.tokens \in Nat /\ b.last \in Nat
    BY AdmissionAssumption DEF Bucket
  <1>1. more \in Nat /\ left \in Nat BY <1>0 DEF Most
  <1>2. high \in Nat /\ high > 0 /\ top <= high /\ rate <= high BY DEF Most
  <1>3. E \in Nat /\ D \in Int /\ D + E <= left BY <1>0 DEF Most
  <1>4. u \in Nat /\ u <= rate * Hour /\ u <= b.tokens + E * rate BY RefillFits
  <1>5. Hour * granted + u <= high * (Hour + left)
    <2> HIDE DEF more, high, left, D, E, u
    <2>1. CASE top = 0
      <3>1. Hour * granted = 0 BY <1>0, <2>1
      <3>2. rate * Hour <= high * Hour BY <1>0, <1>2, TimesMono
      <3>3. high * Hour <= high * (Hour + left) BY <1>0, <1>1, <1>2, TimesMono
      <3>4. rate * Hour \in Nat /\ high * Hour \in Nat /\ high * (Hour + left) \in Nat
        BY <1>0, <1>1, <1>2, TimesNat
      <3> QED BY <1>4, <3>1, <3>2, <3>3, <3>4
    <2>2. CASE top > 0
      <3>1. 0 <= D /\ Hour * granted + b.tokens <= top * (Hour + D)
        BY <2>2 DEF D
      <3>2. D \in Nat /\ Hour + D \in Nat BY <1>0, <1>3, <3>1
      <3>3. top * (Hour + D) <= high * (Hour + D) BY <1>2, <3>2, TimesMono
      <3>4. E * rate <= E * high BY <1>2, <1>3, TimesMono
      <3>5. high * ((Hour + D) + E) = high * (Hour + D) + high * E
        BY <1>2, <1>3, <3>2, TimesPlus
      <3>6. high * ((Hour + D) + E) <= high * (Hour + left)
        BY <1>0, <1>1, <1>2, <1>3, <3>2, TimesMono
      <3>7. E * high = high * E BY <1>2, <1>3
      <3>8. /\ Hour * granted \in Nat /\ top * (Hour + D) \in Nat
            /\ high * (Hour + D) \in Nat /\ E * rate \in Nat /\ high * E \in Nat
            /\ high * (Hour + left) \in Nat
        BY <1>0, <1>1, <1>2, <1>3, <3>2, TimesNat
      <3> QED BY <1>0, <1>4, <3>1, <3>3, <3>4, <3>5, <3>6, <3>7, <3>8
    <2> QED BY <2>1, <2>2
  <1> QED BY <1>1, <1>2, <1>5

-----------------------------------------------------------------------------
(* The contact book. *)

LEMMA PairFits ==
  ASSUME NEW a, NEW b
  PROVE  /\ Len(<<a>> \o <<b>>) = 2
         /\ (<<a>> \o <<b>>)[1] = a /\ (<<a>> \o <<b>>)[2] = b
  <1> DEFINE S == {a, b}
  <1>1. <<a>> \in Seq(S) /\ <<b>> \in Seq(S) OBVIOUS
  <1>2. Len(<<a>>) = 1 /\ Len(<<b>>) = 1 /\ <<a>>[1] = a /\ <<b>>[1] = b OBVIOUS
  <1>3. /\ Len(<<a>> \o <<b>>) = Len(<<a>>) + Len(<<b>>)
        /\ \A i \in 1 .. Len(<<a>>) + Len(<<b>>) :
             (<<a>> \o <<b>>)[i] = IF i <= Len(<<a>>) THEN <<a>>[i] ELSE <<b>>[i - Len(<<a>>)]
    BY <1>1, ConcatProperties
  <1> QED BY <1>2, <1>3

LEMMA NoFile ==
  ASSUME NEW a
  PROVE  /\ <<a>> \o <<>> = <<a>> /\ <<>> \o <<a>> = <<a>>
         /\ <<>> \o <<>> = <<>> /\ <<a>> # <<>>
         /\ Len(<<a>>) = 1 /\ <<a>>[1] = a
  <1> DEFINE S == {a}
  <1>1. <<a>> \in Seq(S) /\ <<>> \in Seq(S) OBVIOUS
  <1> QED BY <1>1, ConcatEmptySeq

(* The book of a peer with a policy overlay has that policy, in whatever    *)
(* order the files are read.                                                *)
LEMMA BookFits ==
  ASSUME TypeOK, NEW p \in Peer, Known(p)
  PROVE  /\ Book(p).named \in BOOLEAN
         /\ Book(p).policy \in Policy \union {NoPolicy}
         /\ overlay[p].is = "full" => Book(p).policy = overlay[p].policy
  <1> DEFINE f == [named |-> overlay[p].named, policy |-> overlay[p].policy]
  <1>1. CASE overlay[p].is = "full"
    <2>1. /\ overlay[p].named \in BOOLEAN /\ overlay[p].policy \in Policy
          /\ overlay[p].policy # NoPolicy
      BY <1>1 DEF TypeOK, Absent, Torn, Policy, NoPolicy
    <2>2. f.named \in BOOLEAN /\ f.policy = overlay[p].policy BY <2>1
    <2>3. /\ ContactFile.named \in BOOLEAN /\ ContactFile.policy = NoPolicy
      BY DEF ContactFile
    <2> HIDE DEF f
    <2>4. \/ Files(p) = <<f>>
          \/ Files(p) = <<f>> \o <<ContactFile>>
          \/ Files(p) = <<ContactFile>> \o <<f>>
      <3>1. CASE p \in entry
        BY <1>1, <3>1 DEF Files, f
      <3>2. CASE p \notin entry
        BY <1>1, <3>2, NoFile DEF Files, f
      <3> QED BY <3>1, <3>2
    <2>5. CASE Files(p) = <<f>>
      BY <2>1, <2>2, <2>5, NoFile DEF Book
    <2>6. CASE Files(p) = <<f>> \o <<ContactFile>>
      <3>1. Book(p) = Merge(f, ContactFile) BY <2>6, PairFits DEF Book
      <3> QED BY <2>1, <2>2, <2>3, <3>1 DEF Merge
    <2>7. CASE Files(p) = <<ContactFile>> \o <<f>>
      <3>1. Book(p) = Merge(ContactFile, f) BY <2>7, PairFits DEF Book
      <3> QED BY <2>1, <2>2, <2>3, <3>1 DEF Merge
    <2> QED BY <2>4, <2>5, <2>6, <2>7
  <1>2. CASE overlay[p].is # "full"
    <2>1. Files(p) = <<ContactFile>>
      <3>1. p \in entry BY <1>2, NoFile DEF Known, Files
      <3> QED BY <1>2, <3>1, NoFile DEF Files
    <2>2. Book(p) = ContactFile BY <2>1, NoFile DEF Book
    <2> QED BY <1>2, <2>2 DEF ContactFile
  <1> QED BY <1>1, <1>2

-----------------------------------------------------------------------------
(* Types.                                                                   *)

ReqType == {NoReq} \union Busy
CmdType == {NoCmd} \union SetsPolicy \union Removes
BucketType == {NoBucket} \union Bucket
PromiseType == {NoPromise} \union Promise

TypesOK ==
  /\ now \in Nat
  /\ entry \subseteq Peer /\ barred \subseteq Peer /\ breached \in BOOLEAN
  /\ overlay \in [Peer -> Overlay]
  /\ bucket \in [Peer -> BucketType]
  /\ req \in [Handler -> ReqType]
  /\ cmd \in [Cli -> CmdType]
  /\ used \in Nat
  /\ meter \in [Peer -> Meter]
  /\ promise \in [Peer -> PromiseType]

LEMMA Types ==
  /\ TypeOK <=> TypesOK
  /\ TypeOK' <=> TypesOK'
  BY DEF TypeOK, TypesOK, Overlay, Entry, BucketType, ReqType, Busy, CmdType, SetsPolicy, Removes,
         Meter, PromiseType, Promise

(* A request that is not idle is Busy.                                      *)
LEMMA AtBusy ==
  ASSUME TypeOK, NEW h \in Handler, NEW pc \in {"clock", "take", "decide"},
         At(h, pc)
  PROVE  req[h] \in Busy
  BY Types DEF TypesOK, At, ReqType, NoReq

LEMMA StepFits ==
  ASSUME TypeOK, NEW h \in Handler,
         NEW from \in {"clock", "take", "decide"},
         NEW to \in {"clock", "take", "decide"}, Step(h, from, to)
  PROVE  req' \in [Handler -> ReqType]
  <1>1. req[h] \in Busy BY AtBusy DEF Step
  <1>2. [req[h] EXCEPT !.pc = to] \in Busy BY <1>1 DEF Busy
  <1> QED BY <1>2, Types DEF TypesOK, Step, ReqType

LEMMA OverFits ==
  ASSUME TypeOK, NEW h \in Handler, Over(h)
  PROVE  req' \in [Handler -> ReqType]
  BY Types DEF TypesOK, Over, ReqType

(* What a take looks at and leaves. *)
TakeBucket(h) ==
  IF bucket[req[h].peer] = NoBucket
  THEN FullBucket(RateOf(req[h].policy), req[h].clock) ELSE bucket[req[h].peer]
TakeUnits(h) == Refill(TakeBucket(h), RateOf(req[h].policy), req[h].clock)
TakeGrants(h) == RateOf(req[h].policy) > 0 /\ TakeUnits(h) >= Hour

MeterAfter(h) ==
  Counted(meter[req[h].peer], TakeGrants(h), RateOf(req[h].policy),
          TakeBucket(h).last, req[h].clock)

LEMMA TakeFits ==
  ASSUME TypeOK, NEW h \in Handler, Take(h)
  PROVE  /\ req[h] \in Busy /\ req[h].peer \in Peer /\ req[h].clock \in Nat
         /\ RateOf(req[h].policy) \in Nat
         /\ TakeBucket(h) \in Bucket /\ TakeUnits(h) \in Nat
  <1>1. req[h] \in Busy BY AtBusy DEF Take
  <1>2. req[h].peer \in Peer /\ req[h].clock \in Nat
        /\ req[h].policy \in Policy \union {NoPolicy}
    BY <1>1 DEF Busy
  <1>3. RateOf(req[h].policy) \in Nat
    <2>1. req[h].policy.rate \in HandRate \union {-1}
      BY <1>2 DEF Policy, NoPolicy
    <2> QED BY <2>1, AdmissionAssumption DEF RateOf
  <1>4. RateOf(req[h].policy) * Hour \in Nat
    BY <1>3, TimesNat, AdmissionAssumption
  <1>5. TakeBucket(h) \in Bucket
    <2>1. CASE bucket[req[h].peer] = NoBucket
      BY <1>2, <1>4, <2>1 DEF TakeBucket, FullBucket, Bucket
    <2>2. CASE bucket[req[h].peer] # NoBucket
      BY <1>2, <2>2, Types DEF TypesOK, TakeBucket, BucketType
    <2> QED BY <2>1, <2>2
  <1>6. TakeUnits(h) \in Nat BY <1>2, <1>3, <1>5, RefillFits DEF TakeUnits
  <1> QED BY <1>1, <1>2, <1>3, <1>5, <1>6

(* Take, said with these. *)
LEMMA TakeSays ==
  ASSUME NEW h \in Handler, Take(h)
  PROVE  LET p == req[h].peer
             rate == RateOf(req[h].policy)
             clock == req[h].clock
             b == TakeBucket(h)
             left == [tokens |-> IF TakeGrants(h) THEN TakeUnits(h) - Hour
                                 ELSE TakeUnits(h), last |-> clock]
             again == promise[p].rate = rate
         IN /\ bucket' = [bucket EXCEPT ![p] = IF rate = 0 THEN b ELSE left]
            /\ meter' = IF rate > 0 /\ meter[p].on
                        THEN [meter EXCEPT ![p] = MeterAfter(h)] ELSE meter
            /\ promise' = [promise EXCEPT ![p] =
                 IF TakeGrants(h) \/ rate = 0 THEN NoPromise
                 ELSE IF again THEN promise[p]
                 ELSE [rate |-> rate, at |-> clock + Wait(Hour - TakeUnits(h), rate)]]
            /\ IF TakeGrants(h) THEN Step(h, "take", "decide") ELSE Over(h)
            /\ UNCHANGED <<now, used, entry, overlay, cmd, barred, breached>>
  <1> USE DEF TakeBucket, TakeUnits, TakeGrants
  <1>1. UNCHANGED <<now, used, entry, overlay, cmd, barred, breached>>
    BY DEF Take
  <1>2. IF TakeGrants(h) THEN Step(h, "take", "decide") ELSE Over(h)
    BY DEF Take
  <1>3. bucket' = [bucket EXCEPT ![req[h].peer] =
          IF RateOf(req[h].policy) = 0 THEN TakeBucket(h)
          ELSE [tokens |-> IF TakeGrants(h) THEN TakeUnits(h) - Hour ELSE TakeUnits(h),
                last |-> req[h].clock]]
    BY DEF Take
  <1>4. meter' = IF RateOf(req[h].policy) > 0 /\ meter[req[h].peer].on
                 THEN [meter EXCEPT ![req[h].peer] = MeterAfter(h)] ELSE meter
    BY DEF Take, MeterAfter
  <1>5. promise' = [promise EXCEPT ![req[h].peer] =
          IF TakeGrants(h) \/ RateOf(req[h].policy) = 0 THEN NoPromise
          ELSE IF promise[req[h].peer].rate = RateOf(req[h].policy) THEN promise[req[h].peer]
          ELSE [rate |-> RateOf(req[h].policy),
                at |-> req[h].clock + Wait(Hour - TakeUnits(h), RateOf(req[h].policy))]]
    BY DEF Take
  <1> QED BY <1>1, <1>2, <1>3, <1>4, <1>5

LEMMA TakeTypes ==
  ASSUME TypeOK, NEW h \in Handler, Take(h)
  PROVE  TypeOK'
  <1> DEFINE p == req[h].peer
             rate == RateOf(req[h].policy)
             clock == req[h].clock
  <1>1. /\ p \in Peer /\ clock \in Nat /\ rate \in Nat
        /\ TakeBucket(h) \in Bucket /\ TakeUnits(h) \in Nat
    BY TakeFits
  <1>2. Hour \in Nat \ {0} BY AdmissionAssumption
  <1>3. TakeGrants(h) => TakeUnits(h) - Hour \in Nat
    BY <1>1, <1>2 DEF TakeGrants
  <1>4. bucket' \in [Peer -> BucketType]
    <2> DEFINE left == [tokens |-> IF TakeGrants(h) THEN TakeUnits(h) - Hour
                                   ELSE TakeUnits(h), last |-> clock]
               c == IF rate = 0 THEN TakeBucket(h) ELSE left
    <2>1. left \in Bucket BY <1>1, <1>3 DEF Bucket
    <2>2. c \in BucketType BY <1>1, <2>1 DEF BucketType
    <2>3. bucket' = [bucket EXCEPT ![p] = c] BY TakeSays
    <2> HIDE DEF c, p
    <2> QED BY <1>1, <2>2, <2>3, Types DEF TypesOK
  <1>5. meter' \in [Peer -> Meter]
    <2>1. CASE rate > 0 /\ meter[p].on
      <3> DEFINE g == IF TakeGrants(h) THEN 1 ELSE 0
                 t == Most(meter[p].top, rate)
                 l == meter[p].lag + Most(0, Most(TakeBucket(h).last, meter[p].since) - clock)
      <3>1. meter[p] \in Meter BY <1>1, Types DEF TypesOK
      <3>2. meter[p].granted + g \in Nat BY <3>1 DEF Meter
      <3>3. t \in Nat BY <1>1, <3>1 DEF Meter, Most
      <3>4. l \in Nat BY <1>1, <3>1 DEF Meter, Most, Bucket
      <3>5. /\ meter' = [meter EXCEPT ![p] = MeterAfter(h)]
            /\ MeterAfter(h) = [meter[p] EXCEPT !.granted = meter[p].granted + g,
                                                !.top = t, !.lag = l]
        BY <2>1, TakeSays DEF MeterAfter, Counted
      <3> HIDE DEF g, t, l, p
      <3>6. [meter[p] EXCEPT !.granted = meter[p].granted + g, !.top = t, !.lag = l] \in Meter
        BY <3>1, <3>2, <3>3, <3>4 DEF Meter
      <3> QED BY <1>1, <3>5, <3>6, Types DEF TypesOK
    <2>2. CASE ~(rate > 0 /\ meter[p].on)
      BY <2>2, TakeSays, Types DEF TypesOK
    <2> QED BY <2>1, <2>2
  <1>6. promise' \in [Peer -> PromiseType]
    <2> DEFINE o == IF TakeGrants(h) \/ rate = 0 THEN NoPromise
                    ELSE IF promise[p].rate = rate THEN promise[p]
                    ELSE [rate |-> rate, at |-> clock + Wait(Hour - TakeUnits(h), rate)]
    <2>1. o \in PromiseType
      <3>1. CASE TakeGrants(h) \/ rate = 0 BY <3>1 DEF PromiseType
      <3>2. CASE ~(TakeGrants(h) \/ rate = 0)
        <4>1. rate \in Nat \ {0} /\ TakeUnits(h) < Hour
          BY <1>1, <1>2, <3>2 DEF TakeGrants
        <4>2. clock + Wait(Hour - TakeUnits(h), rate) \in Nat
          BY <1>1, <4>1, WaitIsEnough
        <4> HIDE DEF p, rate, clock
        <4> QED BY <1>1, <3>2, <4>2, Types DEF TypesOK, PromiseType, Promise
      <3> QED BY <3>1, <3>2
    <2>2. promise' = [promise EXCEPT ![p] = o] BY TakeSays
    <2> HIDE DEF o, p
    <2> QED BY <1>1, <2>1, <2>2, Types DEF TypesOK
  <1>7. req' \in [Handler -> ReqType]
    <2>1. CASE TakeGrants(h) BY <2>1, TakeSays, StepFits
    <2>2. CASE ~TakeGrants(h) BY <2>2, TakeSays, OverFits
    <2> QED BY <2>1, <2>2
  <1>8. UNCHANGED <<now, used, entry, overlay, cmd, barred, breached>>
    BY TakeSays
  <1> QED BY <1>4, <1>5, <1>6, <1>7, <1>8, Types DEF TypesOK

LEMMA HandlerTypes ==
  ASSUME TypeOK, NEW h \in Handler, HandlerStep(h)
  PROVE  TypeOK'
  <1>1. ASSUME NEW p \in Peer, Receive(h, p) PROVE TypeOK'
    <2> DEFINE r == [pc |-> "clock", peer |-> p, policy |-> Book(p).policy,
                     clock |-> 0, late |-> p \in barred]
    <2>1. Book(p).policy \in Policy \union {NoPolicy}
      BY <1>1, BookFits DEF Receive
    <2>2. r \in ReqType BY <2>1 DEF ReqType, Busy
    <2>3. req' = [req EXCEPT ![h] = r] BY <1>1 DEF Receive
    <2>4. UNCHANGED <<now, used, entry, overlay, bucket, cmd, barred, breached, meter, promise>>
      BY <1>1 DEF Receive
    <2> HIDE DEF r
    <2> QED BY <2>2, <2>3, <2>4, Types DEF TypesOK
  <1>2. CASE ReadClock(h)
    <2>1. req[h] \in Busy BY <1>2, AtBusy DEF ReadClock
    <2>2. now \in Nat BY Types DEF TypesOK
    <2>3. [req[h] EXCEPT !.pc = "take", !.clock = now] \in Busy
      BY <2>1, <2>2 DEF Busy
    <2>4. req' = [req EXCEPT ![h] = [req[h] EXCEPT !.pc = "take", !.clock = now]]
      BY <1>2 DEF ReadClock
    <2>5. req' \in [Handler -> ReqType]
      BY <2>3, <2>4, Types DEF TypesOK, ReqType
    <2> QED BY <1>2, <2>5, Types DEF TypesOK, ReadClock
  <1>3. CASE Take(h) BY <1>3, TakeTypes
  <1>4. CASE Decide(h)
    <2>1. req' \in [Handler -> ReqType] BY <1>4, OverFits DEF Decide
    <2>2. breached' \in BOOLEAN BY <1>4 DEF Decide
    <2> QED BY <1>4, <2>1, <2>2, Types DEF TypesOK, Decide
  <1> QED BY <1>1, <1>2, <1>3, <1>4 DEF HandlerStep

(* A step of the owner touches the book and the commands only. *)
OwnerRest == <<now, bucket, req, breached, meter, promise>>

LEMMA OwnerTypes ==
  ASSUME TypeOK, OwnerStep
  PROVE  TypeOK' /\ UNCHANGED OwnerRest
  <1> DEFINE Goal == TypeOK' /\ UNCHANGED OwnerRest
  <1> USE DEF OwnerRest
  <1>0. /\ entry \subseteq Peer /\ barred \subseteq Peer /\ used \in Nat
        /\ overlay \in [Peer -> Overlay] /\ cmd \in [Cli -> CmdType]
    BY Types DEF TypesOK
  <1>1. ASSUME entry' \subseteq Peer, barred' \subseteq Peer, used' \in Nat,
               overlay' \in [Peer -> Overlay], cmd' \in [Cli -> CmdType],
               UNCHANGED OwnerRest
        PROVE  Goal
    BY <1>1, Types DEF TypesOK
  <1> HIDE DEF Goal
  <1>2. ASSUME NEW c \in Cli
        PROVE  /\ cmd[c].pc \in {"read", "truncate", "write"} => cmd[c] \in SetsPolicy
               /\ cmd[c].pc = "unlink" => cmd[c] \in Removes
    <2>1. cmd[c] \in CmdType BY <1>0
    <2>2. CASE cmd[c] = NoCmd BY <2>2 DEF NoCmd
    <2>3. CASE cmd[c] \in SetsPolicy BY <2>3 DEF SetsPolicy
    <2>4. CASE cmd[c] \in Removes BY <2>4 DEF Removes
    <2> QED BY <2>1, <2>2, <2>3, <2>4 DEF CmdType
  <1>3. ASSUME NEW c \in Cli, NEW d \in CmdType, cmd' = [cmd EXCEPT ![c] = d]
        PROVE  cmd' \in [Cli -> CmdType]
    BY <1>0, <1>3
  <1>4. ASSUME NEW p \in Peer, Add(p) PROVE Goal
    BY <1>0, <1>1, <1>4 DEF Add, Spend
  <1>5. ASSUME NEW p \in Peer, NEW rate \in HandRate, HandEdit(p, rate) PROVE Goal
    <2>1. overlay[p] \in Entry
      BY <1>0, <1>5 DEF HandEdit, Overlay, Absent, Torn
    <2>2. [overlay[p] EXCEPT !.policy.rate = rate] \in Entry
      BY <2>1 DEF Entry, Policy
    <2>3. overlay' \in [Peer -> Overlay] BY <1>0, <1>5, <2>2 DEF HandEdit, Overlay
    <2> QED BY <1>0, <1>1, <1>5, <2>3 DEF HandEdit, Spend
  <1>6. ASSUME NEW p \in Peer, NEW c \in Cli, RemoveContact(c, p) PROVE Goal
    <2> DEFINE files == {f \in {"entry", "overlay"} :
                           IF f = "entry" THEN p \in entry ELSE overlay[p].is = "full"}
               d == [NoCmd EXCEPT !.pc = "unlink", !.peer = p, !.files = files]
    <2>1. files \subseteq {"entry", "overlay"} OBVIOUS
    <2>2. cmd' = [cmd EXCEPT ![c] = d] BY <1>6 DEF RemoveContact
    <2> HIDE DEF files
    <2>3. d \in CmdType BY <2>1 DEF CmdType, Removes, NoCmd
    <2> HIDE DEF d
    <2>4. cmd' \in [Cli -> CmdType] BY <1>3, <2>2, <2>3
    <2> QED BY <1>0, <1>1, <1>6, <2>4 DEF RemoveContact, Spend
  <1>7. ASSUME NEW c \in Cli, Unlink(c) PROVE Goal
    <2>1. cmd[c] \in Removes BY <1>2, <1>7 DEF Unlink
    <2>2. PICK f : /\ cmd' = [cmd EXCEPT ![c] = NoCmd]
                      \/ cmd' = [cmd EXCEPT ![c] = [cmd[c] EXCEPT !.files = cmd[c].files \ {f}]]
      BY <1>7 DEF Unlink
    <2>3. [cmd[c] EXCEPT !.files = cmd[c].files \ {f}] \in CmdType
      BY <2>1 DEF Removes, CmdType
    <2>4. cmd' \in [Cli -> CmdType] BY <1>3, <2>2, <2>3 DEF CmdType
    <2>5. /\ entry' \in {entry, entry \ {cmd[c].peer}}
          /\ overlay' \in {overlay, [overlay EXCEPT ![cmd[c].peer] = Absent]}
          /\ barred' \in {barred, barred \ {cmd[c].peer}}
          /\ used' = used /\ UNCHANGED OwnerRest
      BY <1>7 DEF Unlink
    <2> QED BY <1>0, <1>1, <2>4, <2>5 DEF Overlay
  <1>8. ASSUME NEW p \in Peer, NEW c \in Cli, NEW mode \in {"allowed", "never"},
               Resolve(c, p, mode)
        PROVE  Goal
    <2> DEFINE n == Book(p).named /\ ~(p \in Shared /\ p \in entry)
               d == [pc |-> "read", peer |-> p, mode |-> mode, files |-> {}, named |-> n]
    <2>1. n \in BOOLEAN BY <1>8, BookFits DEF Resolve
    <2>2. cmd' = [cmd EXCEPT ![c] = d] BY <1>8 DEF Resolve
    <2> HIDE DEF n
    <2>3. d \in CmdType BY <2>1 DEF CmdType, SetsPolicy, Mode
    <2> HIDE DEF d
    <2>4. cmd' \in [Cli -> CmdType] BY <1>3, <2>2, <2>3
    <2> QED BY <1>0, <1>1, <1>8, <2>4 DEF Resolve, Spend
  <1>9. ASSUME NEW c \in Cli, ReadOverlay(c) PROVE Goal
    <2>1. cmd[c] \in SetsPolicy BY <1>2, <1>9 DEF ReadOverlay
    <2>2. overlay[cmd[c].peer] \in Overlay BY <1>0, <2>1 DEF SetsPolicy
    <2> DEFINE o == overlay[cmd[c].peer]
               d == IF o.is = "torn" THEN NoCmd
                    ELSE [cmd[c] EXCEPT !.pc = "truncate",
                            !.named = IF o.is = "full" THEN o.named ELSE cmd[c].named]
    <2>3. cmd' = [cmd EXCEPT ![c] = d] BY <1>9 DEF ReadOverlay
    <2>4. o.is = "full" => o.named \in BOOLEAN
      BY <2>2 DEF Overlay, Entry, Absent, Torn
    <2> HIDE DEF o
    <2>5. d \in CmdType BY <2>1, <2>4 DEF CmdType, SetsPolicy
    <2> HIDE DEF d
    <2>6. cmd' \in [Cli -> CmdType] BY <1>3, <2>3, <2>5
    <2> QED BY <1>0, <1>1, <1>9, <2>6 DEF ReadOverlay
  <1>10. ASSUME NEW c \in Cli, TruncateOverlay(c) PROVE Goal
    <2>1. cmd[c] \in SetsPolicy BY <1>2, <1>10 DEF TruncateOverlay
    <2>2. [cmd[c] EXCEPT !.pc = "write"] \in CmdType BY <2>1 DEF CmdType, SetsPolicy
    <2>3. cmd' = [cmd EXCEPT ![c] = [cmd[c] EXCEPT !.pc = "write"]]
      BY <1>10 DEF TruncateOverlay
    <2>4. cmd' \in [Cli -> CmdType] BY <1>3, <2>2, <2>3
    <2>5. overlay' \in [Peer -> Overlay] BY <1>0, <1>10 DEF TruncateOverlay, Overlay
    <2> QED BY <1>0, <1>1, <1>10, <2>4, <2>5 DEF TruncateOverlay
  <1>11. ASSUME NEW c \in Cli, WriteOverlay(c) PROVE Goal
    <2>1. cmd[c] \in SetsPolicy BY <1>2, <1>11 DEF WriteOverlay
    <2>2. Full(cmd[c].named, [mode |-> cmd[c].mode, rate |-> -1]) \in Entry
      BY <2>1 DEF Full, Entry, Policy, SetsPolicy
    <2>3. overlay' \in [Peer -> Overlay]
      BY <1>0, <1>11, <2>2 DEF WriteOverlay, Overlay
    <2>4. cmd[c].peer \in Peer BY <2>1 DEF SetsPolicy
    <2>5. barred' \subseteq Peer BY <1>0, <1>11, <2>4 DEF WriteOverlay
    <2>6. cmd' \in [Cli -> CmdType] BY <1>0, <1>11 DEF WriteOverlay, CmdType
    <2> QED BY <1>0, <1>1, <1>11, <2>3, <2>5, <2>6 DEF WriteOverlay
  <1>12. ASSUME NEW c \in Cli, CliDies(c) PROVE Goal
    <2>1. cmd' \in [Cli -> CmdType] BY <1>0, <1>12 DEF CliDies, CmdType
    <2> QED BY <1>0, <1>1, <1>12, <2>1 DEF CliDies
  <1>13. Goal
    BY <1>4, <1>5, <1>6, <1>7, <1>8, <1>9, <1>10, <1>11, <1>12 DEF OwnerStep
  <1> QED BY <1>13 DEF Goal

LEMMA RestTypes ==
  ASSUME TypeOK, Restart \/ Tick \/ \E p \in Peer : StartMeter(p)
  PROVE  TypeOK'
  <1>1. CASE Restart
    <2>1. NoMeter \in Meter BY DEF NoMeter, Meter
    <2> QED BY <1>1, <2>1, Types
            DEF Restart, TypesOK, BucketType, ReqType, PromiseType
  <1>2. CASE Tick BY <1>2, Types DEF Tick, TypesOK
  <1>3. ASSUME NEW p \in Peer, StartMeter(p) PROVE TypeOK'
    <2>1. [NoMeter EXCEPT !.on = TRUE, !.since = now] \in Meter
      BY Types DEF TypesOK, NoMeter, Meter
    <2>2. meter' = [meter EXCEPT ![p] = [NoMeter EXCEPT !.on = TRUE, !.since = now]]
      BY <1>3 DEF StartMeter
    <2>3. meter' \in [Peer -> Meter] BY <2>1, <2>2, Types DEF TypesOK
    <2> QED BY <1>3, <2>3, Types DEF StartMeter, TypesOK
  <1> QED BY <1>1, <1>2, <1>3

LEMMA NextTypes == TypeOK /\ [Next]_vars => TypeOK'
  <1> SUFFICES ASSUME TypeOK, [Next]_vars PROVE TypeOK' OBVIOUS
  <1>1. CASE Next BY <1>1, HandlerTypes, OwnerTypes, RestTypes DEF Next
  <1>2. CASE UNCHANGED vars BY <1>2, Types DEF vars, TypesOK
  <1> QED BY <1>1, <1>2

LEMMA InitTypes == Init => TypeOK
  <1> SUFFICES ASSUME Init PROVE TypeOK OBVIOUS
  <1>1. NoMeter \in Meter BY DEF NoMeter, Meter
  <1>2. overlay \in [Peer -> Overlay]
    <2>1. Full(TRUE, [mode |-> "allowed", rate |-> -1]) \in Entry
      BY DEF Full, Entry, Policy, Mode
    <2> QED BY <2>1 DEF Init, Overlay
  <1> QED BY <1>1, <1>2, Types
          DEF Init, TypesOK, BucketType, ReqType, CmdType, PromiseType

-----------------------------------------------------------------------------
(* A deny.                                                                  *)

(* A request whose policy and lateness stay, or one that is over.           *)
LateFits(r) == r.late => r.policy.mode = "never"

LEMMA NextDenies == TypeOK /\ DenySound /\ [Next]_vars => DenySound'
  <1> SUFFICES ASSUME TypeOK, DenySound, [Next]_vars PROVE DenySound' OBVIOUS
  <1> DEFINE BarredOK == \A p \in barred : /\ overlay[p].is = "full"
                                           /\ overlay[p].policy.mode = "never"
             LateOK == \A h \in Handler : LateFits(req[h])
  <1>0. /\ BarredOK /\ LateOK /\ breached = FALSE /\ TypesOK
        /\ LateFits(NoReq)
    BY Types DEF DenySound, DenyHolds, TypesOK, LateFits, NoReq
  <1>1. ASSUME UNCHANGED <<overlay, barred, breached>>, LateOK' PROVE DenySound'
    BY <1>0, <1>1 DEF DenySound, DenyHolds, LateFits
  <1>2. ASSUME UNCHANGED <<req, breached>>, BarredOK' PROVE DenySound'
    BY <1>0, <1>2 DEF DenySound, DenyHolds, LateFits
  <1>3. ASSUME NEW h \in Handler, NEW r, req' = [req EXCEPT ![h] = r], LateFits(r)
        PROVE  LateOK'
    BY <1>0, <1>3 DEF TypesOK
  <1>4. ASSUME NEW h \in Handler, Over(h) PROVE LateOK'
    BY <1>0, <1>3, <1>4 DEF Over
  <1>5. ASSUME NEW h \in Handler, NEW from, NEW to, Step(h, from, to)
        PROVE  LateOK'
    <2>1. LateFits([req[h] EXCEPT !.pc = to])
      <3>1. LateFits(req[h]) BY <1>0
      <3>2. req[h] \in ReqType BY <1>0 DEF TypesOK
      <3> QED BY <3>1, <3>2 DEF LateFits, ReqType, NoReq, Busy
    <2> QED BY <1>3, <1>5, <2>1 DEF Step
  <1>6. ASSUME NEW h \in Handler, HandlerStep(h) PROVE DenySound'
    <2>1. ASSUME NEW p \in Peer, Receive(h, p) PROVE DenySound'
      <3> DEFINE r == [pc |-> "clock", peer |-> p, policy |-> Book(p).policy,
                       clock |-> 0, late |-> p \in barred]
      <3>1. p \in barred => Book(p).policy.mode = "never"
        BY <1>0, <2>1, BookFits DEF Receive
      <3>2. LateFits(r) BY <3>1 DEF LateFits
      <3>3. req' = [req EXCEPT ![h] = r] /\ UNCHANGED <<overlay, barred, breached>>
        BY <2>1 DEF Receive
      <3> HIDE DEF r, LateOK
      <3> QED BY <1>1, <1>3, <3>2, <3>3
    <2> HIDE DEF LateOK
    <2>2. CASE ReadClock(h)
      <3>1. LateFits([req[h] EXCEPT !.pc = "take", !.clock = now])
        <4>1. LateFits(req[h]) BY <1>0 DEF LateOK
        <4>2. req[h] \in ReqType BY <1>0 DEF TypesOK
        <4> QED BY <4>1, <4>2 DEF LateFits, ReqType, NoReq, Busy
      <3>2. /\ req' = [req EXCEPT ![h] = [req[h] EXCEPT !.pc = "take", !.clock = now]]
            /\ UNCHANGED <<overlay, barred, breached>>
        BY <2>2 DEF ReadClock
      <3> QED BY <1>1, <1>3, <3>1, <3>2
    <2>3. CASE Take(h)
      <3>1. /\ Over(h) \/ Step(h, "take", "decide")
            /\ UNCHANGED <<overlay, barred, breached>>
        BY <2>3, TakeSays
      <3> QED BY <1>1, <1>4, <1>5, <3>1
    <2>4. CASE Decide(h)
      <3>1. Over(h) /\ UNCHANGED <<overlay, barred>> BY <2>4 DEF Decide
      <3>2. LateFits(req[h]) BY <1>0 DEF LateOK
      <3>3. breached' = breached BY <1>0, <2>4, <3>2 DEF Decide, LateFits
      <3> QED BY <1>1, <1>4, <3>1, <3>3
    <2> QED BY <1>6, <2>1, <2>2, <2>3, <2>4 DEF HandlerStep
  <1>7. CASE OwnerStep
    <2>0. UNCHANGED <<req, breached>> BY <1>7, OwnerTypes DEF OwnerRest
    <2>1. ASSUME NEW p \in Peer,
                 \A q \in Peer \ {p} : overlay'[q] = overlay[q],
                 barred' \subseteq barred,
                 overlay'[p] = overlay[p] \/ p \notin barred'
          PROVE  BarredOK'
      BY <1>0, <2>1 DEF TypesOK
    <2>2. ASSUME UNCHANGED <<overlay, barred>> PROVE BarredOK'
      BY <1>0, <2>2
    <2>3. ASSUME NEW p \in Peer, NEW rate \in HandRate, HandEdit(p, rate)
          PROVE  BarredOK'
      <3>1. overlay[p] \in Entry
        BY <1>0, <2>3 DEF HandEdit, TypesOK, Overlay, Absent, Torn
      <3>2. /\ overlay' = [overlay EXCEPT ![p] = [overlay[p] EXCEPT !.policy.rate = rate]]
            /\ barred' = barred
        BY <2>3 DEF HandEdit
      <3>3. /\ [overlay[p] EXCEPT !.policy.rate = rate].is = "full"
            /\ [overlay[p] EXCEPT !.policy.rate = rate].policy.mode = overlay[p].policy.mode
        BY <3>1 DEF Entry, Policy
      <3> QED BY <1>0, <3>2, <3>3 DEF TypesOK
    <2>4. ASSUME NEW c \in Cli PROVE cmd[c].pc # "idle" => cmd[c].peer \in Peer
      <3>1. cmd[c] \in CmdType BY <1>0 DEF TypesOK
      <3>2. CASE cmd[c] = NoCmd BY <3>2 DEF NoCmd
      <3>3. CASE cmd[c] \in SetsPolicy BY <3>3 DEF SetsPolicy
      <3>4. CASE cmd[c] \in Removes BY <3>4 DEF Removes
      <3> QED BY <3>1, <3>2, <3>3, <3>4 DEF CmdType
    <2>5. ASSUME NEW c \in Cli, Unlink(c) PROVE BarredOK'
      <3>1. /\ cmd[c].peer \in Peer
            /\ \/ UNCHANGED <<overlay, barred>>
               \/ /\ overlay' = [overlay EXCEPT ![cmd[c].peer] = Absent]
                  /\ barred' = barred \ {cmd[c].peer}
        BY <2>4, <2>5 DEF Unlink
      <3> QED BY <1>0, <2>1, <2>2, <3>1 DEF TypesOK
    <2>6. ASSUME NEW c \in Cli, TruncateOverlay(c) PROVE BarredOK'
      <3>1. /\ cmd[c].peer \in Peer
            /\ overlay' = [overlay EXCEPT ![cmd[c].peer] = Torn]
            /\ barred' = barred \ {cmd[c].peer}
        BY <2>4, <2>6 DEF TruncateOverlay
      <3> QED BY <1>0, <2>1, <3>1 DEF TypesOK
    <2>7. ASSUME NEW c \in Cli, WriteOverlay(c) PROVE BarredOK'
      <3> DEFINE p == cmd[c].peer
                 o == Full(cmd[c].named, [mode |-> cmd[c].mode, rate |-> -1])
      <3>1. p \in Peer BY <2>4, <2>7 DEF WriteOverlay
      <3>2. /\ overlay' = [overlay EXCEPT ![p] = o]
            /\ barred' = IF cmd[c].mode = "never" THEN barred \union {p} ELSE barred \ {p}
        BY <2>7 DEF WriteOverlay
      <3>3. o.is = "full" /\ o.policy.mode = cmd[c].mode BY DEF Full
      <3> HIDE DEF o, p
      <3>4. CASE cmd[c].mode = "never"
        BY <1>0, <3>1, <3>2, <3>3, <3>4 DEF TypesOK
      <3>5. CASE cmd[c].mode # "never"
        BY <1>0, <2>1, <3>1, <3>2, <3>5 DEF TypesOK
      <3> QED BY <3>4, <3>5
    <2>8. BarredOK'
      <3> HIDE DEF BarredOK
      <3> QED BY <1>7, <2>2, <2>3, <2>5, <2>6, <2>7
              DEF OwnerStep, Add, RemoveContact, Resolve, ReadOverlay, CliDies
    <2> HIDE DEF BarredOK
    <2> QED BY <1>2, <2>0, <2>8
  <1>8. CASE Restart
    <2>1. LateOK' BY <1>0, <1>8 DEF Restart
    <2> QED BY <1>1, <1>8, <2>1 DEF Restart
  <1>9. CASE Tick \/ (\E p \in Peer : StartMeter(p)) \/ UNCHANGED vars
    <2>1. UNCHANGED <<req, overlay, barred, breached>>
      BY <1>9 DEF Tick, StartMeter, vars
    <2> QED BY <1>0, <1>1, <2>1
  <1> QED BY <1>6, <1>7, <1>8, <1>9 DEF Next

-----------------------------------------------------------------------------
(* The limiter.                                                             *)

Balanced == \A p \in Peer : Metering(meter[p], bucket[p]) /\ Promised(promise[p], bucket[p])

(* A bucket left alone, or one that is looked at later. *)
LEMMA BalanceRests ==
  ASSUME TypeOK, Balanced, now' \in Nat, now <= now', UNCHANGED <<bucket, meter, promise>>
  PROVE  Balanced'
  <1> SUFFICES ASSUME NEW p \in Peer
               PROVE  /\ Metering(meter[p], bucket[p])'
                      /\ Promised(promise[p], bucket[p])'
    BY DEF Balanced
  <1>1. meter[p] \in Meter /\ now \in Nat BY Types DEF TypesOK
  <1>2. Metering(meter[p], bucket[p]) /\ Promised(promise[p], bucket[p])
    BY DEF Balanced
  <1>3. Metering(meter[p], bucket[p])' BY <1>1, <1>2 DEF Metering, Meter
  <1>4. Promised(promise[p], bucket[p])' BY <1>2 DEF Promised
  <1> QED BY <1>3, <1>4

LEMMA ClocksRest ==
  ASSUME TypeOK, Clocks, now' \in Nat, now <= now', bucket' = bucket,
         \A h \in Handler : req'[h].clock \in {req[h].clock, 0, now}
  PROVE  Clocks'
  <1>1. ASSUME NEW h \in Handler PROVE req'[h].clock <= now'
    <2>1. req[h].clock \in Nat /\ now \in Nat
      BY Types DEF TypesOK, ReqType, NoReq, Busy
    <2>2. req[h].clock <= now BY DEF Clocks
    <2> QED BY <2>1, <2>2
  <1>2. ASSUME NEW p \in Peer, bucket'[p] # NoBucket PROVE bucket'[p].last <= now'
    <2>1. bucket[p] \in Bucket BY <1>2, Types DEF TypesOK, BucketType
    <2>2. bucket[p].last \in Nat /\ now \in Nat
      BY <2>1, Types DEF TypesOK, Bucket
    <2>3. bucket[p].last <= now BY <1>2 DEF Clocks
    <2> QED BY <2>2, <2>3
  <1> QED BY <1>1, <1>2 DEF Clocks

(* The bucket a take leaves. *)
TakeLeaves(h) ==
  IF RateOf(req[h].policy) = 0 THEN TakeBucket(h)
  ELSE [tokens |-> IF TakeGrants(h) THEN TakeUnits(h) - Hour ELSE TakeUnits(h),
        last |-> req[h].clock]

LEMMA TakeLeavesFits ==
  ASSUME TypeOK, Clocks, NEW h \in Handler, Take(h)
  PROVE  /\ TakeLeaves(h) \in Bucket /\ TakeLeaves(h).last <= now
         /\ TakeLeaves(h) # NoBucket
         /\ bucket' = [bucket EXCEPT ![req[h].peer] = TakeLeaves(h)]
  <1>1. /\ req[h].clock \in Nat /\ RateOf(req[h].policy) \in Nat
        /\ TakeBucket(h) \in Bucket /\ TakeUnits(h) \in Nat
        /\ req[h].peer \in Peer
    BY TakeFits
  <1>2. Hour \in Nat \ {0} /\ now \in Nat
    BY AdmissionAssumption, Types DEF TypesOK
  <1>3. req[h].clock <= now BY DEF Clocks
  <1>4. TakeBucket(h).last <= now
    BY <1>1, <1>3 DEF TakeBucket, FullBucket, Clocks
  <1>5. TakeGrants(h) => TakeUnits(h) - Hour \in Nat
    BY <1>1, <1>2 DEF TakeGrants
  <1>6. TakeLeaves(h) \in Bucket /\ TakeLeaves(h).last <= now
    BY <1>1, <1>3, <1>4, <1>5 DEF TakeLeaves, Bucket
  <1>7. TakeLeaves(h) # NoBucket
    BY <1>6 DEF Bucket, NoBucket
  <1>8. bucket' = [bucket EXCEPT ![req[h].peer] = TakeLeaves(h)]
    BY TakeSays DEF TakeLeaves
  <1> QED BY <1>6, <1>7, <1>8

LEMMA TakeMeters ==
  ASSUME TypeOK, Clocks, Balanced, NEW h \in Handler, Take(h)
  PROVE  Metering(meter'[req[h].peer], TakeLeaves(h))
  <1> DEFINE p == req[h].peer
             rate == RateOf(req[h].policy)
             clock == req[h].clock
             b == TakeBucket(h)
             m == meter[p]
             u == TakeUnits(h)
  <1>0. /\ p \in Peer /\ clock \in Nat /\ rate \in Nat /\ b \in Bucket /\ u \in Nat
        /\ now \in Nat /\ m \in Meter /\ Hour \in Nat \ {0}
        /\ meter \in [Peer -> Meter]
    BY TakeFits, AdmissionAssumption, Types DEF TypesOK
  <1>1. Metering(m, bucket[p]) BY <1>0 DEF Balanced
  <1>2. meter' = IF rate > 0 /\ m.on THEN [meter EXCEPT ![p] = MeterAfter(h)] ELSE meter
    BY TakeSays
  <1>3. m.on /\ m.top > 0 => bucket[p] # NoBucket /\ b = bucket[p]
    BY <1>1 DEF Metering, TakeBucket
  <1>4. CASE ~m.on
    BY <1>0, <1>2, <1>4 DEF Metering
  <1>5. CASE m.on /\ rate = 0
    <2>1. meter'[p] = m /\ TakeLeaves(h) = b BY <1>2, <1>5 DEF TakeLeaves
    <2>2. b # NoBucket BY <1>0 DEF Bucket, NoBucket
    <2> QED BY <1>1, <1>3, <1>5, <2>1, <2>2 DEF Metering
  <1>6. CASE m.on /\ rate > 0
    <2> DEFINE more == m.lag + Most(0, Most(b.last, m.since) - clock)
               high == Most(m.top, rate)
               left == clock - m.since + more
               g == IF TakeGrants(h) THEN 1 ELSE 0
               M == meter'[p]
               B == TakeLeaves(h)
    <2>1. /\ m.since \in Nat /\ m.granted \in Nat /\ m.top \in Nat /\ m.lag \in Nat
      BY <1>0 DEF Meter
    <2>2. /\ m.top = 0 => m.granted = 0
          /\ m.top > 0 => /\ 0 <= b.last - m.since + m.lag
                          /\ Hour * m.granted + b.tokens
                               <= m.top * (Hour + (b.last - m.since + m.lag))
          /\ m.since <= now
      BY <1>1, <1>3, <1>6 DEF Metering
    <2>3. rate \in Nat \ {0} BY <1>0, <1>6
    <2>4. /\ more \in Nat /\ high \in Nat /\ high > 0 /\ 0 <= left
          /\ Hour * m.granted + u <= high * (Hour + left)
      <3> HIDE DEF p, rate, clock, b, m, u
      <3> QED BY <1>0, <2>1, <2>2, <2>3, TakeBalances
              DEF TakeUnits, p, rate, clock, b, m, u
    <2>5. M = [m EXCEPT !.granted = m.granted + g, !.top = high, !.lag = more]
      BY <1>0, <1>2, <1>6 DEF MeterAfter, Counted
    <2>6. B = [tokens |-> IF TakeGrants(h) THEN u - Hour ELSE u, last |-> clock]
      BY <1>6 DEF TakeLeaves
    <2>7. /\ M.on = m.on /\ M.since = m.since /\ M.granted = m.granted + g
          /\ M.top = high /\ M.lag = more
      <3> HIDE DEF M, g, high, more, m
      <3> QED BY <1>0, <2>5 DEF Meter
    <2>8. Hour * (m.granted + g) + B.tokens = Hour * m.granted + u
      <3>1. CASE TakeGrants(h)
        <4>1. Hour * (m.granted + 1) = Hour * m.granted + Hour * 1
          BY <1>0, <2>1, TimesPlus
        <4>2. Hour * m.granted \in Nat BY <1>0, <2>1, TimesNat
        <4> QED BY <1>0, <2>6, <3>1, <4>1, <4>2
      <3>2. CASE ~TakeGrants(h)
        BY <1>0, <2>1, <2>6, <3>2
      <3> QED BY <3>1, <3>2
    <2>9. B # NoBucket BY TakeLeavesFits
    <2>10. B.last - M.since + M.lag = left BY <2>6, <2>7
    <2> HIDE DEF M, B, high, left, more, g, m, u, b, clock, p
    <2>11. M.since <= now BY <2>2, <2>7
    <2>12. M.top # 0 BY <2>4, <2>7
    <2>13. 0 <= B.last - M.since + M.lag BY <2>4, <2>10
    <2>14. Hour * M.granted + B.tokens <= M.top * (Hour + (B.last - M.since + M.lag))
      <3>1. Hour * M.granted + B.tokens = Hour * m.granted + u BY <2>7, <2>8
      <3>2. M.top * (Hour + (B.last - M.since + M.lag)) = high * (Hour + left)
        BY <2>7, <2>10
      <3> QED BY <2>4, <3>1, <3>2
    <2> QED BY <2>9, <2>11, <2>12, <2>13, <2>14 DEF Metering, M, B, p
  <1> QED BY <1>0, <1>4, <1>5, <1>6

LEMMA TakePromises ==
  ASSUME TypeOK, Clocks, Balanced, NEW h \in Handler, Take(h)
  PROVE  Promised(promise'[req[h].peer], TakeLeaves(h))
  <1> DEFINE p == req[h].peer
             rate == RateOf(req[h].policy)
             clock == req[h].clock
             b == TakeBucket(h)
             u == TakeUnits(h)
             new == [rate |-> rate, at |-> clock + Wait(Hour - u, rate)]
  <1>0. /\ p \in Peer /\ clock \in Nat /\ rate \in Nat /\ b \in Bucket /\ u \in Nat
        /\ Hour \in Nat \ {0} /\ promise \in [Peer -> PromiseType]
    BY TakeFits, AdmissionAssumption, Types DEF TypesOK
  <1>1. Promised(promise[p], bucket[p]) BY <1>0 DEF Balanced
  <1>2. promise' = [promise EXCEPT ![p] =
          IF TakeGrants(h) \/ rate = 0 THEN NoPromise
          ELSE IF promise[p].rate = rate THEN promise[p] ELSE new]
    BY TakeSays
  <1>3. CASE TakeGrants(h) \/ rate = 0
    <2>1. promise'[p] = NoPromise BY <1>0, <1>2, <1>3
    <2> QED BY <2>1 DEF Promised
  <1>4. CASE ~TakeGrants(h) /\ rate # 0
    <2>1. rate \in Nat \ {0} BY <1>0, <1>4
    <2>2. u < Hour BY <1>0, <1>4, <2>1 DEF TakeGrants
    <2>3. TakeLeaves(h) = [tokens |-> u, last |-> clock] BY <1>4 DEF TakeLeaves
    <2>4. TakeLeaves(h) # NoBucket BY TakeLeavesFits
    <2>5. CASE promise[p].rate = rate
      <3>1. promise'[p] = promise[p] BY <1>0, <1>2, <1>4, <2>5
      <3>2. promise[p] # NoPromise BY <2>1, <2>5 DEF NoPromise
      <3>3. promise[p] \in Promise BY <1>0, <3>2 DEF PromiseType
      <3>4. promise[p].at \in Nat BY <3>3 DEF Promise
      <3>5. b = bucket[p] /\ Refill(b, rate, promise[p].at) >= Hour
        BY <1>1, <2>5, <3>2 DEF Promised, TakeBucket
      <3>6. u = Refill(b, rate, clock) BY DEF TakeUnits
      <3> HIDE DEF p, rate, clock, b, u
      <3>7. Refill([tokens |-> u, last |-> clock], rate, promise[p].at) >= Hour
        BY <1>0, <2>1, <2>2, <3>4, <3>5, <3>6, RefusalKeepsWait
      <3>8. rate > 0 BY <2>1
      <3>9. Promised(promise[p], TakeLeaves(h))
        BY <2>3, <2>4, <2>5, <3>7, <3>8 DEF Promised
      <3> QED BY <3>1, <3>9 DEF p
    <2>6. CASE promise[p].rate # rate
      <3>1. promise'[p] = new BY <1>0, <1>2, <1>4, <2>6
      <3> HIDE DEF p, rate, clock, b, u
      <3>2. Refill([tokens |-> u, last |-> clock], rate, clock + Wait(Hour - u, rate)) >= Hour
        BY <1>0, <2>1, <2>2, WaitIsEnough
      <3>3. rate > 0 BY <2>1
      <3>4. Promised(new, TakeLeaves(h))
        BY <2>3, <2>4, <3>2, <3>3 DEF Promised
      <3> QED BY <3>1, <3>4 DEF p
    <2> QED BY <2>5, <2>6
  <1> QED BY <1>3, <1>4

LEMMA TakeLimits ==
  ASSUME TypeOK, Clocks, Balanced, NEW h \in Handler, Take(h)
  PROVE  Clocks' /\ Balanced'
  <1> DEFINE p == req[h].peer
  <1>0. /\ p \in Peer /\ now' = now /\ now \in Nat
        /\ bucket \in [Peer -> BucketType] /\ req \in [Handler -> ReqType]
        /\ meter \in [Peer -> Meter] /\ promise \in [Peer -> PromiseType]
    BY TakeFits, TakeSays, Types DEF TypesOK
  <1>1. /\ TakeLeaves(h).last <= now
        /\ bucket' = [bucket EXCEPT ![p] = TakeLeaves(h)]
    BY TakeLeavesFits
  <1>2. ASSUME NEW q \in Peer PROVE bucket'[q] # NoBucket => bucket'[q].last <= now'
    BY <1>0, <1>1 DEF Clocks
  <1>3. ASSUME NEW g \in Handler PROVE req'[g].clock <= now'
    <2>1. req[g].clock <= now BY DEF Clocks
    <2>2. req'[g].clock \in {req[g].clock, 0}
      <3>1. Over(h) \/ Step(h, "take", "decide") BY TakeSays
      <3>2. CASE Over(h) BY <1>0, <3>2 DEF Over, NoReq
      <3>3. CASE Step(h, "take", "decide")
        <4>1. req[h] \in Busy BY TakeFits
        <4>2. req' = [req EXCEPT ![h] = [req[h] EXCEPT !.pc = "decide"]]
          BY <3>3 DEF Step
        <4>3. [req[h] EXCEPT !.pc = "decide"].clock = req[h].clock BY <4>1 DEF Busy
        <4> QED BY <1>0, <4>2, <4>3
      <3> QED BY <3>1, <3>2, <3>3
    <2> QED BY <1>0, <2>1, <2>2
  <1>4. /\ meter' = IF RateOf(req[h].policy) > 0 /\ meter[p].on
                    THEN [meter EXCEPT ![p] = MeterAfter(h)] ELSE meter
        /\ \E o : promise' = [promise EXCEPT ![p] = o]
    BY TakeSays
  <1>5. ASSUME NEW q \in Peer
        PROVE  Metering(meter[q], bucket[q])' /\ Promised(promise[q], bucket[q])'
    <2>1. CASE q = p
      <3>1. Metering(meter'[p], TakeLeaves(h)) BY TakeMeters
      <3>2. Promised(promise'[p], TakeLeaves(h)) BY TakePromises
      <3>3. bucket'[p] = TakeLeaves(h) BY <1>0, <1>1
      <3>4. Metering(meter[q], bucket[q])' BY <1>0, <2>1, <3>1, <3>3 DEF Metering
      <3>5. Promised(promise[q], bucket[q])' BY <2>1, <3>2, <3>3 DEF Promised
      <3> QED BY <3>4, <3>5
    <2>2. CASE q # p
      <3>1. bucket'[q] = bucket[q] /\ meter'[q] = meter[q] /\ promise'[q] = promise[q]
        BY <1>0, <1>1, <1>4, <2>2
      <3>2. Metering(meter[q], bucket[q]) /\ Promised(promise[q], bucket[q])
        BY DEF Balanced
      <3>3. Metering(meter[q], bucket[q])' BY <1>0, <3>1, <3>2 DEF Metering
      <3>4. Promised(promise[q], bucket[q])' BY <3>1, <3>2 DEF Promised
      <3> QED BY <3>3, <3>4
    <2> QED BY <2>1, <2>2
  <1> QED BY <1>2, <1>3, <1>5 DEF Clocks, Balanced

LEMMA RestLimits ==
  ASSUME TypeOK, Clocks, Balanced, Restart \/ Tick \/ \E p \in Peer : StartMeter(p)
  PROVE  Clocks' /\ Balanced'
  <1>0. TypesOK BY Types
  <1>1. CASE Restart
    <2>1. Clocks' BY <1>0, <1>1 DEF Restart, Clocks, TypesOK, NoReq
    <2>2. Balanced' BY <1>1 DEF Restart, Balanced, Metering, Promised, NoMeter
    <2> QED BY <2>1, <2>2
  <1>2. CASE Tick
    <2>1. /\ now' = now + 1 /\ now' \in Nat /\ now <= now'
          /\ UNCHANGED <<bucket, meter, promise, req>>
      BY <1>0, <1>2 DEF Tick, TypesOK
    <2> QED BY <2>1, BalanceRests, ClocksRest
  <1>3. ASSUME NEW p \in Peer, StartMeter(p) PROVE Clocks' /\ Balanced'
    <2> DEFINE M == [NoMeter EXCEPT !.on = TRUE, !.since = now]
    <2>1. /\ meter' = [meter EXCEPT ![p] = M] /\ UNCHANGED <<now, bucket, req, promise>>
      BY <1>3 DEF StartMeter
    <2>2. Clocks' BY <2>1 DEF Clocks
    <2>3. ASSUME NEW b PROVE Metering(M, b)
      BY <1>0 DEF Metering, NoMeter, TypesOK
    <2> HIDE DEF M
    <2>4. ASSUME NEW q \in Peer
          PROVE  Metering(meter[q], bucket[q])' /\ Promised(promise[q], bucket[q])'
      <3>1. Metering(meter[q], bucket[q]) /\ Promised(promise[q], bucket[q])
        BY DEF Balanced
      <3>2. Promised(promise[q], bucket[q])' BY <2>1, <3>1 DEF Promised
      <3>3. Metering(meter'[q], bucket[q])
        BY <1>0, <2>1, <2>3, <3>1 DEF TypesOK
      <3>4. Metering(meter[q], bucket[q])' BY <2>1, <3>3 DEF Metering
      <3> QED BY <3>2, <3>4
    <2> QED BY <2>2, <2>4 DEF Balanced
  <1> QED BY <1>1, <1>2, <1>3

LEMMA NextLimits == TypeOK /\ LimiterSound /\ [Next]_vars => LimiterSound'
  <1> SUFFICES ASSUME TypeOK, Clocks, Balanced, [Next]_vars PROVE Clocks' /\ Balanced'
    BY DEF LimiterSound, Balanced
  <1>0. TypesOK /\ now \in Nat BY Types DEF TypesOK
  <1>1. ASSUME NEW h \in Handler, NEW r, req' = [req EXCEPT ![h] = r],
               r.clock \in {req[h].clock, 0, now},
               UNCHANGED <<now, bucket, meter, promise>>
        PROVE  Clocks' /\ Balanced'
    <2>1. \A g \in Handler : req'[g].clock \in {req[g].clock, 0, now}
      BY <1>0, <1>1 DEF TypesOK
    <2>2. now' \in Nat /\ now <= now' BY <1>0, <1>1
    <2> QED BY <1>1, <2>1, <2>2, BalanceRests, ClocksRest
  <1>2. ASSUME UNCHANGED <<now, bucket, req, meter, promise>>
        PROVE  Clocks' /\ Balanced'
    <2>1. now' \in Nat /\ now <= now' BY <1>0, <1>2
    <2> QED BY <1>2, <2>1, BalanceRests, ClocksRest
  <1>3. ASSUME NEW h \in Handler, Over(h), UNCHANGED <<now, bucket, meter, promise>>
        PROVE  Clocks' /\ Balanced'
    BY <1>1, <1>3 DEF Over, NoReq
  <1>4. ASSUME NEW h \in Handler, HandlerStep(h) PROVE Clocks' /\ Balanced'
    <2>1. ASSUME NEW p \in Peer, Receive(h, p) PROVE Clocks' /\ Balanced'
      <3> DEFINE r == [pc |-> "clock", peer |-> p, policy |-> Book(p).policy,
                       clock |-> 0, late |-> p \in barred]
      <3>1. /\ req' = [req EXCEPT ![h] = r] /\ r.clock = 0
            /\ UNCHANGED <<now, bucket, meter, promise>>
        BY <2>1 DEF Receive
      <3> HIDE DEF r
      <3> QED BY <1>1, <3>1
    <2>2. CASE ReadClock(h)
      <3>1. req[h] \in Busy BY <2>2, AtBusy DEF ReadClock
      <3>2. [req[h] EXCEPT !.pc = "take", !.clock = now].clock = now BY <3>1 DEF Busy
      <3>3. /\ req' = [req EXCEPT ![h] = [req[h] EXCEPT !.pc = "take", !.clock = now]]
            /\ UNCHANGED <<now, bucket, meter, promise>>
        BY <2>2 DEF ReadClock
      <3> QED BY <1>1, <3>2, <3>3
    <2>3. CASE Take(h) BY <2>3, TakeLimits
    <2>4. CASE Decide(h) BY <1>3, <2>4 DEF Decide
    <2> QED BY <1>4, <2>1, <2>2, <2>3, <2>4 DEF HandlerStep
  <1>5. CASE OwnerStep BY <1>2, <1>5, OwnerTypes DEF OwnerRest
  <1>6. CASE UNCHANGED vars BY <1>2, <1>6 DEF vars
  <1> QED BY <1>4, <1>5, <1>6, RestLimits DEF Next

-----------------------------------------------------------------------------
(* The specification.                                                       *)

LEMMA InitSafe == Init => Safe
  <1> SUFFICES ASSUME Init PROVE Safe OBVIOUS
  <1>1. TypeOK BY InitTypes
  <1>2. DenySound BY DEF Init, DenySound, DenyHolds, NoReq
  <1>3. LimiterSound
    BY DEF Init, LimiterSound, Clocks, Metering, Promised, NoReq, NoMeter
  <1> QED BY <1>1, <1>2, <1>3 DEF Safe

LEMMA AlwaysSafe == Spec => []Safe
  <1>1. Safe /\ [Next]_vars => Safe'
    BY NextTypes, NextDenies, NextLimits DEF Safe
  <1> QED BY <1>1, InitSafe, PTL DEF Spec

(* Every variable of the admission of requests keeps its type.              *)
THEOREM AdmissionTypes == Spec => []TypeOK
  <1>1. Safe => TypeOK BY DEF Safe
  <1> QED BY <1>1, AlwaysSafe, PTL

(* take_token grants a peer, from whatever moment one counts, no more than  *)
(* one full bucket and the refill of the time since at the highest rate it  *)
(* had, however the policy and the rate change and the handlers interleave. *)
THEOREM RateKept == Spec => []RateHolds
  <1>1. Safe => RateHolds
    <2> SUFFICES ASSUME Safe, NEW p \in Peer, meter[p].on
                 PROVE  Hour * meter[p].granted
                          <= meter[p].top * (Hour + (now - meter[p].since) + meter[p].lag)
      BY DEF RateHolds
    <2> DEFINE m == meter[p]
               b == bucket[p]
               D == b.last - m.since + m.lag
               T == now - m.since + m.lag
    <2>1. /\ m \in Meter /\ now \in Nat /\ Hour \in Nat /\ b \in BucketType
      BY Types, AdmissionAssumption DEF Safe, TypesOK
    <2>2. /\ m.since \in Nat /\ m.granted \in Nat /\ m.top \in Nat /\ m.lag \in Nat
      BY <2>1 DEF Meter
    <2>3. Metering(m, b) BY DEF Safe, LimiterSound
    <2>4. m.since <= now BY <2>3 DEF Metering
    <2>5. T \in Nat /\ Hour + T \in Nat BY <2>1, <2>2, <2>4
    <2>6. CASE m.top = 0
      <3>1. Hour * m.granted = 0 BY <2>1, <2>3, <2>6 DEF Metering
      <3>2. m.top * (Hour + T) \in Nat BY <2>2, <2>5, TimesNat
      <3>3. Hour + T = Hour + (now - m.since) + m.lag BY <2>1, <2>2
      <3> QED BY <3>1, <3>2, <3>3
    <2>7. CASE m.top > 0
      <3>1. /\ b # NoBucket /\ 0 <= D
            /\ Hour * m.granted + b.tokens <= m.top * (Hour + D)
        BY <2>3, <2>7 DEF Metering
      <3>2. b \in Bucket BY <2>1, <3>1 DEF BucketType
      <3>3. b.last \in Nat /\ b.tokens \in Nat BY <3>2 DEF Bucket
      <3>4. b.last <= now BY <3>1 DEF Safe, LimiterSound, Clocks
      <3>5. D <= T /\ D \in Nat BY <2>1, <2>2, <3>1, <3>3, <3>4
      <3>6. Hour + D \in Nat /\ Hour + D <= Hour + T BY <2>1, <2>5, <3>5
      <3>7. m.top * (Hour + D) <= m.top * (Hour + T)
        <4> HIDE DEF D, T, m
        <4> QED BY <2>2, <2>5, <3>6, TimesMono
      <3>8. /\ m.top * (Hour + D) \in Nat /\ m.top * (Hour + T) \in Nat
            /\ Hour * m.granted \in Nat
        <4> HIDE DEF D, T, m
        <4> QED BY <2>1, <2>2, <2>5, <3>6, TimesNat
      <3>9. Hour + T = Hour + (now - m.since) + m.lag BY <2>1, <2>2
      <3>10. Hour * m.granted <= m.top * (Hour + T)
        <4> HIDE DEF D, T, m, b
        <4> QED BY <3>1, <3>3, <3>7, <3>8
      <3> QED BY <3>9, <3>10
    <2> QED BY <2>2, <2>6, <2>7
  <1> QED BY <1>1, AlwaysSafe, PTL

(* The Retry-After of a 429 holds: at that moment the bucket has a token,   *)
(* however often the peer came back too early, at the same rate.            *)
THEOREM WaitsKept == Spec => []RetryHonoured
  <1>1. Safe => RetryHonoured
    BY DEF Safe, LimiterSound, Promised, RetryHonoured
  <1> QED BY <1>1, AlwaysSafe, PTL

(* After `owl deny` wrote its policy no request that arrives later gets in, *)
(* until a command rewrites or removes the policy file.                     *)
THEOREM DeniesHold == Spec => []DenyHolds
  <1>1. Safe => DenyHolds BY DEF Safe, DenySound
  <1> QED BY <1>1, AlwaysSafe, PTL

===============================================================================
