--------------------------- MODULE DraftingProofs ---------------------------
(***************************************************************************)
(* Theorems about Drafting: what becomes of a request on its way to a       *)
(* draft, for any requests, configurations, texts, outputs of a child and   *)
(* capacities of its pipes.                                                *)
(*                                                                         *)
(* First what the patterns make of a text: a mark or a token of the text    *)
(* that no match covers, and nothing else.  Then the three ways to a draft. *)
(***************************************************************************)
EXTENDS Drafting, TLAPS, WellFoundedInduction, NaturalsInduction, SequenceTheorems

-----------------------------------------------------------------------------
(* Numbers: a set of them has a least one. *)

LEMMA LeastElement ==
  ASSUME NEW S, S \subseteq Nat, S # {}
  PROVE  \E x \in S : \A y \in S : x <= y
<1>1. IsWellFoundedOn(OpToRel(<, Nat), Nat)
  BY NatLessThanWellFounded
<1>2. PICK x \in S : \A y \in S : ~(<<y, x>> \in OpToRel(<, Nat))
  BY <1>1, WFMin
<1>3. \A y \in S : ~(y < x)
  BY <1>2 DEF OpToRel
<1> QED BY <1>3

-----------------------------------------------------------------------------
(* The patterns. *)

\* What the marked text is extended by at position i.
Step(t, i, f) ==
  IF i = 0 THEN <<>>
  ELSE IF i \in Matches(t) THEN Append(f[i - 1], "x")
  ELSE IF {i - 1, i - 2} \cap Matches(t) # {} THEN f[i - 1]
  ELSE Append(f[i - 1], t[i])

\* A token no match covers.
Shown(t, i) == i \notin Matches(t) /\ i - 1 \notin Matches(t) /\ i - 2 \notin Matches(t)

\* The recursion of Redact has a solution, on every prefix of the text.
LEMMA MarkedExists ==
  ASSUME NEW t, Len(t) \in Nat
  PROVE  \E f : f = [i \in 0..Len(t) |-> Step(t, i, f)]
<1> DEFINE Solves(f, m) == f = [i \in 0..m |-> Step(t, i, f)]
           bad == {m \in 0..Len(t) : ~ \E f : Solves(f, m)}
<1>1. SUFFICES ASSUME bad # {} PROVE FALSE
  OBVIOUS
<1>2. PICK n \in bad : \A m \in bad : n <= m
  <2>1. bad \subseteq Nat
    OBVIOUS
  <2> HIDE DEF bad
  <2> QED BY <1>1, <2>1, LeastElement
<1>3. n \in 0..Len(t) /\ n \in Nat /\ ~ \E f : Solves(f, n)
  BY <1>2
<1>4. CASE n = 0
  <2> DEFINE f == [i \in 0..0 |-> <<>>]
  <2>1. Solves(f, 0)
    BY DEF Step
  <2> QED BY <1>3, <1>4, <2>1
<1>5. CASE n # 0
  <2>1. n - 1 \in 0..Len(t) /\ n - 1 \notin bad
    BY <1>2, <1>3, <1>5
  <2>2. PICK f : Solves(f, n - 1)
    BY <2>1
  <2> DEFINE g == [i \in 0..n |-> IF i = n THEN Step(t, n, f) ELSE f[i]]
  <2>3. \A i \in 0..n : g[i] = Step(t, i, g)
    <3> SUFFICES ASSUME NEW i \in 0..n PROVE g[i] = Step(t, i, g)
      OBVIOUS
    <3>1. CASE i = 0
      BY <1>3, <1>5, <2>2, <3>1 DEF Step
    <3>2. CASE i # 0
      <4>1. i - 1 \in 0..n /\ i - 1 # n
        BY <1>3, <3>2
      <4>2. g[i - 1] = f[i - 1]
        BY <4>1
      <4>3. Step(t, i, g) = Step(t, i, f)
        BY <3>2, <4>2 DEF Step
      <4>4. g[i] = Step(t, i, f)
        <5>1. CASE i = n
          BY <5>1
        <5>2. CASE i # n
          <6>1. i \in 0..n - 1
            BY <1>3, <5>2
          <6>2. f[i] = Step(t, i, f)
            BY <2>2, <6>1
          <6> QED BY <5>2, <6>2
        <5> QED BY <5>1, <5>2
      <4> QED BY <4>3, <4>4
    <3> QED BY <3>1, <3>2
  <2>4. Solves(g, n)
    <3> DEFINE h == [i \in 0..n |-> Step(t, i, g)]
    <3>1. g = h
      BY <2>3
    <3> QED BY <3>1
  <2> QED BY <1>3, <2>4
<1> QED BY <1>4, <1>5

LEMMA RedactIsMarked ==
  ASSUME NEW t, Len(t) \in Nat
  PROVE  \E f : Redact(t) = f[Len(t)] /\ \A i \in 0..Len(t) : f[i] = Step(t, i, f)
<1> DEFINE P(f) == f = [i \in 0..Len(t) |-> Step(t, i, f)]
<1>1. P(CHOOSE f : P(f))
  BY MarkedExists
<1>2. Redact(t) = (CHOOSE f : P(f))[Len(t)]
  BY DEF Redact, Step
<1> QED BY <1>1, <1>2

LEMMA SetOfAppend ==
  ASSUME NEW S, NEW s \in Seq(S), NEW y \in S
  PROVE  ToSet(Append(s, y)) = ToSet(s) \cup {y}
<1> DEFINE a == Append(s, y)
<1>1. /\ DOMAIN a = 1..Len(s) + 1 /\ DOMAIN s = 1..Len(s) /\ Len(s) \in Nat
      /\ a[Len(s) + 1] = y /\ \A i \in 1..Len(s) : a[i] = s[i]
  OBVIOUS
<1>2. \A z \in ToSet(a) : z \in ToSet(s) \cup {y}
  BY <1>1 DEF ToSet
<1>3. \A z \in ToSet(s) : z \in ToSet(a)
  BY <1>1 DEF ToSet
<1>4. y \in ToSet(a)
  BY <1>1 DEF ToSet
<1> QED BY <1>2, <1>3, <1>4

\* A redacted text holds marks and the tokens no match covers, and all of them.
LEMMA RedactShows ==
  ASSUME NEW S, "x" \in S, NEW t \in Seq(S)
  PROVE  /\ Redact(t) \in Seq(S)
         /\ \A y \in ToSet(Redact(t)) : y = "x" \/ \E i \in 1..Len(t) : Shown(t, i) /\ t[i] = y
         /\ \A i \in 1..Len(t) : Shown(t, i) => t[i] \in ToSet(Redact(t))
<1>0. Len(t) \in Nat /\ \A i \in 1..Len(t) : t[i] \in S
  OBVIOUS
<1>1. PICK f : Redact(t) = f[Len(t)] /\ \A i \in 0..Len(t) : f[i] = Step(t, i, f)
  BY <1>0, RedactIsMarked
<1> DEFINE Good(m) == /\ f[m] \in Seq(S)
                      /\ \A y \in ToSet(f[m]) : y = "x" \/ \E i \in 1..m : Shown(t, i) /\ t[i] = y
                      /\ \A i \in 1..m : Shown(t, i) => t[i] \in ToSet(f[m])
           bad == {m \in 0..Len(t) : ~ Good(m)}
<1>2. SUFFICES bad = {}
  <2>1. ASSUME bad = {} PROVE Good(Len(t))
    <3>1. Len(t) \in 0..Len(t)
      BY <1>0
    <3> HIDE DEF Good
    <3> QED BY <2>1, <3>1
  <2> QED BY <1>1, <2>1
<1>3. SUFFICES ASSUME bad # {} PROVE FALSE
  OBVIOUS
<1>4. PICK n \in bad : \A m \in bad : n <= m
  <2>1. bad \subseteq Nat
    BY <1>0
  <2> HIDE DEF bad
  <2> QED BY <1>3, <2>1, LeastElement
<1>5. n \in 0..Len(t) /\ n \in Nat /\ ~ Good(n) /\ f[n] = Step(t, n, f)
  BY <1>1, <1>4
<1>6. CASE n = 0
  <2>1. f[n] = <<>> /\ 1..n = {}
    BY <1>5, <1>6 DEF Step
  <2>2. ToSet(<<>>) = {}
    BY DEF ToSet
  <2> QED BY <1>5, <2>1, <2>2
<1>7. CASE n # 0
  <2>1. n - 1 \in 0..Len(t) /\ n - 1 \notin bad /\ n \in 1..Len(t)
    <3>1. n - 1 \in 0..Len(t) /\ n \in 1..Len(t)
      BY <1>0, <1>5, <1>7
    <3>2. \A m \in bad : m \in Nat
      BY <1>0
    <3> HIDE DEF bad
    <3>3. n - 1 \notin bad
      BY <1>4, <1>5, <3>2
    <3> QED BY <3>1, <3>3
  <2>2. Good(n - 1)
    <3> HIDE DEF Good
    <3> QED BY <2>1
  <2>3. 1..n = 1..(n - 1) \cup {n}
    BY <1>5, <1>7
  <2>4. CASE n \in Matches(t)
    <3>1. f[n] = Append(f[n - 1], "x") /\ ~ Shown(t, n)
      BY <1>5, <1>7, <2>4 DEF Step, Shown
    <3>2. ToSet(f[n]) = ToSet(f[n - 1]) \cup {"x"} /\ f[n] \in Seq(S)
      BY <2>2, <3>1, SetOfAppend
    <3> QED BY <1>5, <2>2, <2>3, <3>1, <3>2
  <2>5. CASE n \notin Matches(t) /\ {n - 1, n - 2} \cap Matches(t) # {}
    <3>1. f[n] = f[n - 1] /\ ~ Shown(t, n)
      BY <1>5, <1>7, <2>5 DEF Step, Shown
    <3> QED BY <1>5, <2>2, <2>3, <3>1
  <2>6. CASE n \notin Matches(t) /\ {n - 1, n - 2} \cap Matches(t) = {}
    <3>1. f[n] = Append(f[n - 1], t[n]) /\ Shown(t, n)
      BY <1>5, <1>7, <2>6 DEF Step, Shown
    <3>2. ToSet(f[n]) = ToSet(f[n - 1]) \cup {t[n]} /\ f[n] \in Seq(S)
      BY <1>0, <2>1, <2>2, <3>1, SetOfAppend
    <3> QED BY <1>5, <2>2, <2>3, <3>1, <3>2
  <2> QED BY <2>4, <2>5, <2>6
<1> QED BY <1>6, <1>7

-----------------------------------------------------------------------------
(* The cut. *)

LEMMA CutFacts ==
  ASSUME NEW S, NEW t \in Seq(S)
  PROVE  /\ Cut(t) \in Seq(S) /\ ToSet(Cut(t)) \subseteq ToSet(t)
         /\ IsPrefix(Cut(t), t) /\ (Len(t) <= Cap => Cut(t) = t)
<1> DEFINE n == IF Len(t) > Cap THEN Cap ELSE Len(t)
<1>1. n \in 0..Len(t) /\ Len(t) \in Nat /\ n \in Int
  BY DraftingAssumption
<1>2. Cut(t) = SubSeq(t, 1, n)
  BY DEF Cut
<1>3. \A i \in 1..n : t[i] \in S
  BY <1>1
<1>4. /\ Cut(t) \in Seq(S) /\ Len(Cut(t)) = n
      /\ \A i \in 1..n : Cut(t)[i] = t[i]
  <2> HIDE DEF n
  <2>1. /\ SubSeq(t, 1, n) \in Seq(S) /\ Len(SubSeq(t, 1, n)) = (IF 1 <= n THEN n - 1 + 1 ELSE 0)
        /\ \A i \in 1..n - 1 + 1 : SubSeq(t, 1, n)[i] = t[1 + i - 1]
    BY <1>1, <1>3, SubSeqProperties
  <2> QED BY <1>1, <1>2, <2>1
<1>5. DOMAIN t = 1..Len(t) /\ DOMAIN Cut(t) = 1..n
  BY <1>4
<1>6. ToSet(Cut(t)) \subseteq ToSet(t)
  <2>1. \A i \in DOMAIN Cut(t) : i \in DOMAIN t /\ Cut(t)[i] = t[i]
    BY <1>1, <1>4, <1>5
  <2> QED BY <2>1 DEF ToSet
<1>7. IsPrefix(Cut(t), t)
  BY <1>1, <1>4, <1>5 DEF IsPrefix
<1>8. Len(t) <= Cap => Cut(t) = t
  <2> SUFFICES ASSUME Len(t) <= Cap PROVE Cut(t) = t
    OBVIOUS
  <2>1. n = Len(t)
    BY <1>1, DraftingAssumption
  <2> QED BY <1>2, <2>1, SubSeqFull
<1> QED BY <1>4, <1>6, <1>7, <1>8

-----------------------------------------------------------------------------
(* What a capture becomes. *)

LEMMA RedactIsText ==
  ASSUME NEW t \in Texts
  PROVE  Redact(t) \in Texts
<1>1. "x" \in Text
  BY DEF Text
<1> QED BY <1>1, RedactShows DEF Texts

LEMMA CutRedactedIsText ==
  ASSUME NEW t \in Texts
  PROVE  CutRedacted(t) \in Texts
<1>1. Redact(t) \in Seq(Text)
  BY RedactIsText DEF Texts
<1> QED BY <1>1, CutFacts DEF CutRedacted, Texts

LEMMA CombinedIsText ==
  ASSUME NEW o \in Texts, NEW e \in Texts
  PROVE  Combined(o, e) \in Texts
<1>1. <<"s">> \in Seq(Text)
  BY DEF Text
<1>2. o \o <<"s">> \in Seq(Text)
  BY <1>1, ConcatProperties DEF Texts
<1>3. (o \o <<"s">>) \o e \in Seq(Text)
  BY <1>2, ConcatProperties DEF Texts
<1> QED BY <1>3 DEF Combined, Texts

LEMMA ExtractIsText ==
  ASSUME NEW path \in {"raw", "result", "last"}, NEW t \in Texts, Extract(path, t) # None
  PROVE  /\ Extract(path, t) \in Texts
         /\ Extract(path, t) = t \/ Extract(path, t) = <<"p">>
<1>1. <<"p">> \in Texts
  BY DEF Texts, Text
<1>2. Extract(path, t) = t \/ Extract(path, t) = <<"p">>
  <2>1. CASE t = <<>>
    BY <2>1 DEF Extract
  <2>2. CASE t # <<>> /\ path = "raw"
    BY <2>2 DEF Extract
  <2>3. CASE t # <<>> /\ path = "result"
    BY <2>3 DEF Extract
  <2>4. CASE t # <<>> /\ path = "last"
    BY <2>4 DEF Extract
  <2> QED BY <2>1, <2>2, <2>3, <2>4
<1> QED BY <1>1, <1>2

\* What a capture becomes: a text, with the status of the run.
IsMade(d) == d.text \in Texts /\ d.status \in {"ok", "timeout", "extract_failed"}

LEMMA QuestionMakes ==
  ASSUME NEW o \in Texts, NEW e \in Texts, cmd.conf \in Config, Question(o, e) # None
  PROVE  /\ IsMade(Question(o, e))
         /\ \/ Question(o, e).text = Redact(o)
            \/ ~ cmd.timedOut /\ Question(o, e).text = Redact(<<"p">>)
<1> DEFINE a == Extract(cmd.conf.path, o)
<1>1. cmd.conf.path \in {"raw", "result", "last"}
  BY DEF Config
<1>2. a # None => a \in Texts /\ (a = o \/ a = <<"p">>)
  BY <1>1, ExtractIsText
<1>3. CASE cmd.timedOut
  <2>1. Question(o, e) = [text |-> Redact(o), status |-> "timeout"]
    BY <1>3 DEF Question
  <2> QED BY <2>1, RedactIsText DEF IsMade
<1>4. CASE ~ cmd.timedOut /\ Empty(o) /\ child # "success"
  BY <1>4 DEF Question
<1>5. CASE ~ cmd.timedOut /\ (~ Empty(o) \/ child = "success") /\ a = None
  <2>1. Question(o, e) = [text |-> Redact(o), status |-> "extract_failed"]
    BY <1>5 DEF Question
  <2> QED BY <2>1, RedactIsText DEF IsMade
<1>6. CASE ~ cmd.timedOut /\ (~ Empty(o) \/ child = "success") /\ a # None
  <2>1. Question(o, e) = [text |-> Redact(a), status |-> "ok"]
    BY <1>6 DEF Question
  <2>2. Redact(a) \in Texts /\ (Redact(a) = Redact(o) \/ Redact(a) = Redact(<<"p">>))
    BY <1>2, <1>6, RedactIsText
  <2> QED BY <1>6, <2>1, <2>2 DEF IsMade
<1> QED BY <1>3, <1>4, <1>5, <1>6

LEMMA MadeIsText ==
  ASSUME NEW o \in Texts, NEW e \in Texts, cmd.conf \in Config, Made(o, e) # None
  PROVE  IsMade(Made(o, e))
<1>1. CASE rec.req.kind = "question"
  BY <1>1, QuestionMakes DEF Made
<1>2. CASE rec.req.kind # "question"
  <2>1. Made(o, e) = ToolRun(o, e)
    BY <1>2 DEF Made
  <2>2. ToolRun(o, e) = [text |-> CutRedacted(Combined(o, e)), status |-> "ok"]
    BY <2>1 DEF ToolRun
  <2> QED BY <2>1, <2>2, CombinedIsText, CutRedactedIsText DEF IsMade
<1> QED BY <1>1, <1>2

\* What has been read of a stream, and what has been written on it, is a text.
LEMMA StreamIsText ==
  ASSUME NEW t \in Texts, NEW n \in 0..Len(t)
  PROVE  SubSeq(t, 1, n) \in Texts
<1>1. n \in Int /\ \A i \in 1..n : t[i] \in Text
  BY DEF Texts
<1> QED BY <1>1, SubSeqProperties DEF Texts

-----------------------------------------------------------------------------
(* Types: the shape of every variable, and how far the command has come.    *)

States == {"none", "consent", "pending", "drafted"}
Results == {"none", "ok", "timeout", "extract_failed", "error", "unrendered"}
Before == {"idle", "render", "lookup", "spawn", "rev_parse", "cat_file", "memory"}
Joining == {"join out", "join err"}
Polling == {"wait", "check"}
Steps == Before \cup Polling \cup Joining \cup {"take", "done"}

RecordOK ==
  rec \in [state : States, req : Request \cup {None}, draft : StoredDraft \cup {None}]

CommandOK ==
  cmd \in [pc : Steps, conf : Config \cup {None}, commit : Nat \cup {None},
           timedOut : BOOLEAN, result : Results]

FilesOK ==
  /\ config \in Config /\ started \in Config /\ "tools_ok" \in started.on
  /\ edits \in 0..MaxEdits /\ head \in 1..Commits
  /\ stdin \in {"none", "writing", "done"} /\ expired \in BOOLEAN /\ prompt \in BOOLEAN

PipesOK ==
  /\ child \in {"none", "running"} \cup Outcome /\ orphan \in {"none", "holding", "gone"}
  /\ script \in [Stream -> Texts] /\ wrote \in [Stream -> Nat] /\ got \in [Stream -> Nat]
  /\ \A s \in Stream : got[s] <= wrote[s] /\ wrote[s] <= Len(script[s]) /\ wrote[s] - got[s] <= PipeCap
  /\ child = "none" => orphan = "none" /\ \A s \in Stream : wrote[s] = 0 /\ got[s] = 0

\* A command at work loaded a configuration, and has stored nothing yet; a child
\* is there once it was spawned, and runs only while it is polled.
CourseOK ==
  /\ cmd.pc # "idle" => cmd.conf \in Config /\ rec.state \in {"pending", "drafted"}
  /\ cmd.pc # "done" => rec.draft = None
  /\ cmd.pc \in Before => child = "none"
  /\ cmd.pc \in Polling => child # "none"
  /\ cmd.pc \in Joining \cup {"take"} => child \in Outcome
  /\ cmd.pc = "done" => child # "running"
  /\ cmd.pc \notin {"take", "done"} => ~ cmd.timedOut
  /\ cmd.pc = "cat_file" => cmd.commit \in 1..head

Sound == FilesOK /\ RecordOK /\ CommandOK /\ PipesOK /\ CourseOK

LEMMA SoundInit == Init => Sound
<1> SUFFICES ASSUME Init PROVE Sound
  OBVIOUS
<1> USE DEF Init, Idle
<1>1. FilesOK
  <2>1. config \in Config /\ "tools_ok" \in config.on
    BY DraftingAssumption
  <2>2. 1 \in 1..Commits /\ 0 \in 0..MaxEdits
    BY DraftingAssumption
  <2> QED BY <2>1, <2>2 DEF FilesOK
<1>2. RecordOK
  BY DEF RecordOK, States
<1>3. CommandOK
  BY DEF CommandOK, Steps, Before, Results
<1>4. PipesOK
  <2>1. <<>> \in Texts
    BY DEF Texts
  <2> QED BY <2>1, DraftingAssumption DEF PipesOK, Stream
<1>5. CourseOK
  BY DEF CourseOK, Before, Polling, Joining
<1> QED BY <1>1, <1>2, <1>3, <1>4, <1>5 DEF Sound

LEMMA SoundFiles ==
  ASSUME Sound, [Next]_vars
  PROVE  FilesOK'
<1> USE DEF Sound, FilesOK
<1>1. ASSUME NEW w \in Switches, EditConfig(w) PROVE FilesOK'
  BY <1>1, DraftingAssumption DEF EditConfig, Config, childVars
<1>2. CASE RestartDaemon
  BY <1>2 DEF RestartDaemon, Loads, childVars
<1>3. CASE MoveHead
  BY <1>3, DraftingAssumption DEF MoveHead, childVars
<1>4. CASE Render
  BY <1>4 DEF Render, ownerVars, childVars
<1>5. CASE Spawn
  BY <1>5 DEF Spawn, ownerVars, childVars, PromptLeft
<1>6. CASE Take
  BY <1>6 DEF Take, ownerVars, childVars, PromptLeft
<1>7. CASE FeedInput \/ Expire
  BY <1>7 DEF FeedInput, Expire, ownerVars, childVars
<1>8. CASE Allow \/ LookupTool \/ TryWait \/ CheckDeadline \/ RevParse \/ CatFile \/ ReadMemory
           \/ (\E s \in Stream : Join(s)) \/ (\E flag \in BOOLEAN : Draft(flag))
  BY <1>8 DEF Allow, LookupTool, TryWait, CheckDeadline, RevParse, CatFile, ReadMemory, StoreContent, Join,
     Draft, ThreadsLeftAlone, ownerVars, childVars
<1>9. CASE Child \/ (\E r \in Request : Arrive(r)) \/ (\E s \in Stream : ReadPipe(s))
  BY <1>9 DEF Child, Fork, OrphanEnds, Write, Exit, Arrive, ReadPipe, ownerVars, childVars
<1>10. CASE UNCHANGED vars
  BY <1>10 DEF vars, ownerVars, childVars
<1> QED BY <1>1, <1>2, <1>3, <1>4, <1>5, <1>6, <1>7, <1>8, <1>9, <1>10 DEF Next, Owner, Command

\* Everything but the command leaves cmd alone, and but for Arrive and Allow the record.
Aside ==
  \/ RestartDaemon \/ MoveHead \/ Fork \/ OrphanEnds \/ FeedInput \/ Expire
  \/ \E w \in Switches : EditConfig(w)
  \/ \E s \in Stream : Write(s) \/ ReadPipe(s)
  \/ \E how \in {"success", "failure"} : Exit(how)

LEMMA AsideFrame ==
  ASSUME Aside \/ UNCHANGED vars
  PROVE  UNCHANGED <<rec, cmd>>
  BY DEF Aside, RestartDaemon, MoveHead, Fork, OrphanEnds, FeedInput, Expire, EditConfig, Write, ReadPipe,
     Exit, vars

LEMMA NextParts ==
  ASSUME [Next]_vars
  PROVE  \/ Aside \/ UNCHANGED vars \/ Allow \/ (\E r \in Request : Arrive(r)) \/ Command
         \/ (\E flag \in BOOLEAN : Draft(flag))
  BY DEF Next, Owner, Child, Aside

\* What a content draft stores.
LEMMA StoreContentMakes ==
  ASSUME NEW t, t \in Blobs \cup {None}, cmd.commit \in Nat \cup {None}, CommandOK, RecordOK, StoreContent(t)
  PROVE  \/ cmd' = Fail /\ rec' = rec
         \/ /\ t \in Texts /\ ContentDraft(t) \in StoredDraft
            /\ cmd' = [cmd EXCEPT !.pc = "done", !.result = "ok"]
            /\ rec' = [rec EXCEPT !.state = "drafted", !.draft = ContentDraft(t)]
<1>1. CASE t = None \/ "redact_ok" \notin cmd.conf.on \/ "0" \in ToSet(t)
  BY <1>1 DEF StoreContent
<1>2. CASE ~ (t = None \/ "redact_ok" \notin cmd.conf.on \/ "0" \in ToSet(t))
  <2>1. /\ cmd' = [cmd EXCEPT !.pc = "done", !.result = "ok"]
        /\ rec' = [rec EXCEPT !.state = "drafted", !.draft = ContentDraft(t)]
    BY <1>2 DEF StoreContent
  <2>2. t \in Texts
    <3>1. t \in Seq(Text \cup {"0"}) /\ Len(t) \in Nat /\ DOMAIN t = 1..Len(t)
      BY <1>2 DEF Blobs
    <3>2. \A i \in 1..Len(t) : t[i] \in Text
      BY <1>2, <3>1 DEF ToSet
    <3>3. SubSeq(t, 1, Len(t)) \in Seq(Text)
      BY <3>1, <3>2, SubSeqProperties
    <3> QED BY <3>1, <3>3, SubSeqFull DEF Texts
  <2>3. ContentDraft(t) \in StoredDraft
    <3>1. Redact(t) \in Texts /\ CutRedacted(t) \in Texts
      BY <2>2, RedactIsText, CutRedactedIsText
    <3> QED BY <3>1 DEF ContentDraft, StoredDraft
  <2> QED BY <2>1, <2>2, <2>3
<1> QED BY <1>1, <1>2

LEMMA BlobIsBlob ==
  ASSUME Sound
  PROVE  /\ cmd.pc = "cat_file" => Blob[ReadAt] \in Blobs \cup {None} /\ cmd.commit \in 1..head
         /\ Memory \in Blobs \cup {None}
  BY DraftingAssumption DEF Sound, CourseOK, FilesOK, ReadAt

LEMMA GotIsText ==
  ASSUME PipesOK
  PROVE  \A s \in Stream : Got(s) \in Texts /\ Written(s) \in Texts
<1> SUFFICES ASSUME NEW s \in Stream PROVE Got(s) \in Texts /\ Written(s) \in Texts
  OBVIOUS
<1>1. /\ script[s] \in Texts /\ got[s] \in Nat /\ wrote[s] \in Nat
      /\ got[s] <= wrote[s] /\ wrote[s] <= Len(script[s])
  BY DEF PipesOK
<1>2. Len(script[s]) \in Nat
  BY <1>1 DEF Texts
<1>3. got[s] \in 0..Len(script[s]) /\ wrote[s] \in 0..Len(script[s])
  BY <1>1, <1>2
<1> QED BY <1>1, <1>3, StreamIsText DEF Got, Written

\* Take ends the command with an error, or with a draft of what was read.
LEMMA TakeMakes ==
  ASSUME Sound, Take
  PROVE  \/ cmd' = Fail /\ rec' = rec
         \/ \E d : /\ d = Made(Got("out"), Got("err")) /\ d # None /\ IsMade(d)
                   /\ cmd' = [cmd EXCEPT !.pc = "done", !.result = d.status]
                   /\ rec' = [rec EXCEPT !.state = "drafted",
                                         !.draft = [text |-> d.text, whole |-> <<>>,
                                                    truncated |-> FALSE, commit |-> None]]
<1> DEFINE d == Made(Got("out"), Got("err"))
<1>1. CASE d = None
  BY <1>1 DEF Take
<1>2. CASE d # None
  <2>1. Got("out") \in Texts /\ Got("err") \in Texts
    BY GotIsText DEF Sound, Stream
  <2>2. cmd.conf \in Config
    BY DEF Sound, CourseOK, Take
  <2>3. IsMade(d)
    BY <1>2, <2>1, <2>2, MadeIsText
  <2>4. /\ cmd' = [cmd EXCEPT !.pc = "done", !.result = d.status]
        /\ rec' = [rec EXCEPT !.state = "drafted",
                              !.draft = [text |-> d.text, whole |-> <<>>,
                                         truncated |-> FALSE, commit |-> None]]
    BY <1>2 DEF Take
  <2> HIDE DEF d
  <2> QED BY <1>2, <2>3, <2>4 DEF d
<1> QED BY <1>1, <1>2

LEMMA MadeIsStored ==
  ASSUME NEW d, IsMade(d)
  PROVE  [text |-> d.text, whole |-> <<>>, truncated |-> FALSE, commit |-> None] \in StoredDraft
  BY DEF IsMade, StoredDraft, Texts

LEMMA SoundRecord ==
  ASSUME Sound, [Next]_vars
  PROVE  RecordOK'
<1> USE DEF RecordOK
<1>0. RecordOK /\ CommandOK
  BY DEF Sound
<1>1. CASE Aside \/ UNCHANGED vars
  BY <1>0, <1>1, AsideFrame
<1>2. CASE Allow \/ \E flag \in BOOLEAN : Draft(flag)
  BY <1>0, <1>2 DEF Allow, Draft, States
<1>3. CASE \E r \in Request : Arrive(r)
  BY <1>0, <1>3 DEF Arrive, States
<1>4. CASE Take
  <2>1. CASE rec' = rec
    BY <1>0, <2>1
  <2>2. CASE rec' # rec
    <3>1. PICK d : /\ IsMade(d)
                   /\ rec' = [rec EXCEPT !.state = "drafted",
                                         !.draft = [text |-> d.text, whole |-> <<>>,
                                                    truncated |-> FALSE, commit |-> None]]
      BY <1>4, <2>2, TakeMakes
    <3> QED BY <1>0, <3>1, MadeIsStored DEF States
  <2> QED BY <2>1, <2>2
<1>5. ASSUME NEW t \in Blobs \cup {None}, StoreContent(t) PROVE RecordOK'
  <2>1. cmd.commit \in Nat \cup {None}
    BY <1>0 DEF CommandOK
  <2> QED BY <1>0, <1>5, <2>1, StoreContentMakes DEF States
<1>6. CASE CatFile \/ ReadMemory
  BY <1>5, <1>6, BlobIsBlob DEF CatFile, ReadMemory
<1>7. CASE Render \/ LookupTool \/ Spawn \/ TryWait \/ CheckDeadline \/ RevParse \/ \E s \in Stream : Join(s)
  BY <1>0, <1>7 DEF Render, LookupTool, Spawn, TryWait, CheckDeadline, RevParse, Join, ThreadsLeftAlone
<1> QED BY <1>1, <1>2, <1>3, <1>4, <1>6, <1>7, NextParts DEF Command

LEMMA SoundCommand ==
  ASSUME Sound, [Next]_vars
  PROVE  CommandOK'
<1> USE DEF CommandOK
<1>0. RecordOK /\ CommandOK /\ config \in Config /\ head \in Nat
  <2>1. head \in 1..Commits /\ Commits \in Nat
    BY DraftingAssumption DEF Sound, FilesOK
  <2>2. head \in Nat
    BY <2>1
  <2> QED BY <2>2 DEF Sound, FilesOK
<1> USE DEF Steps, Before, Polling, Joining, Results, Fail, Goto
<1>1. CASE Aside \/ UNCHANGED vars
  BY <1>0, <1>1, AsideFrame
<1>2. CASE Allow \/ \E r \in Request : Arrive(r)
  BY <1>0, <1>2 DEF Allow, Arrive
<1>3. ASSUME NEW flag \in BOOLEAN, Draft(flag) PROVE CommandOK'
  <2>1. FirstStep(rec.req) \in Before
    BY DEF FirstStep
  <2> QED BY <1>0, <1>3, <2>1 DEF Draft
<1>4. CASE Take
  <2>1. CASE cmd' = Fail
    BY <1>0, <2>1
  <2>2. CASE cmd' # Fail
    <3>1. PICK d : IsMade(d) /\ cmd' = [cmd EXCEPT !.pc = "done", !.result = d.status]
      BY <1>4, <2>2, TakeMakes
    <3> QED BY <1>0, <3>1 DEF IsMade
  <2> QED BY <2>1, <2>2
<1>5. ASSUME NEW t \in Blobs \cup {None}, StoreContent(t) PROVE CommandOK'
  <2>1. cmd.commit \in Nat \cup {None}
    BY <1>0
  <2>2. cmd' = Fail \/ cmd' = [cmd EXCEPT !.pc = "done", !.result = "ok"]
    BY <1>0, <1>5, <2>1, StoreContentMakes
  <2> QED BY <1>0, <2>2
<1>6. CASE CatFile \/ ReadMemory
  BY <1>5, <1>6, BlobIsBlob DEF CatFile, ReadMemory
<1>7. CASE Render \/ LookupTool \/ Spawn
  BY <1>0, <1>7 DEF Render, LookupTool, Spawn
<1>8. CASE TryWait \/ CheckDeadline
  BY <1>0, <1>8 DEF TryWait, CheckDeadline
<1>9. CASE RevParse
  BY <1>0, <1>9 DEF RevParse
<1>10. CASE \E s \in Stream : Join(s)
  BY <1>0, <1>10 DEF Join
<1> QED BY <1>1, <1>2, <1>3, <1>4, <1>6, <1>7, <1>8, <1>9, <1>10, NextParts DEF Command

LEMMA SoundPipes ==
  ASSUME Sound, [Next]_vars
  PROVE  PipesOK'
<1> USE DEF PipesOK
<1>0. PipesOK /\ PipeCap \in Nat
  BY DraftingAssumption DEF Sound
<1>1. ASSUME NEW s \in Stream, Write(s) PROVE PipesOK'
  <2>1. PICK n : n = wrote[s] + 1
    OBVIOUS
  <2>2. wrote' = [wrote EXCEPT ![s] = n] /\ UNCHANGED <<child, orphan, script, got>>
    BY <1>1, <2>1 DEF Write
  <2>3. script[s] \in Texts /\ Len(script[s]) \in Nat
    BY <1>0 DEF Texts
  <2>4. n \in Nat /\ n <= Len(script[s]) /\ got[s] <= n /\ n - got[s] <= PipeCap
    BY <1>0, <1>1, <2>1, <2>3, DraftingAssumption DEF Write
  <2>5. child # "none"
    BY <1>0, <1>1 DEF Write, Writer
  <2> QED BY <1>0, <2>2, <2>4, <2>5
<1>2. ASSUME NEW s \in Stream, ReadPipe(s) PROVE PipesOK'
  <2>1. PICK n : n = got[s] + 1
    OBVIOUS
  <2>2. got' = [got EXCEPT ![s] = n] /\ UNCHANGED <<child, orphan, script, wrote>>
    BY <1>2, <2>1 DEF ReadPipe
  <2>3. n \in Nat /\ n <= wrote[s] /\ wrote[s] - n <= PipeCap /\ child # "none"
    BY <1>0, <1>2, <2>1 DEF ReadPipe
  <2> QED BY <1>0, <2>2, <2>3
<1>3. CASE Fork \/ OrphanEnds \/ \E how \in {"success", "failure"} : Exit(how)
  BY <1>0, <1>3 DEF Fork, OrphanEnds, Exit, Outcome
<1>4. CASE Spawn /\ UNCHANGED childVars
  BY <1>0, <1>4 DEF childVars
<1>5. CASE Spawn /\ ~ UNCHANGED childVars
  <2>1. PICK o \in Output, e \in Errors :
          /\ script' = [s \in Stream |-> IF s = "out" THEN o ELSE e]
          /\ child' = "running" /\ UNCHANGED <<orphan, wrote, got>>
    BY <1>5 DEF Spawn
  <2>2. o \in Texts /\ e \in Texts
    BY DraftingAssumption
  <2>3. child = "none"
    BY <1>5 DEF Spawn, Sound, CourseOK, Before
  <2>4. script' \in [Stream -> Texts]
    BY <2>1, <2>2
  <2>5. \A s \in Stream : Len(script'[s]) >= 0
    BY <2>4 DEF Texts
  <2> QED BY <1>0, <2>1, <2>3, <2>4, <2>5
<1>6. CASE CheckDeadline
  BY <1>0, <1>6 DEF CheckDeadline, ThreadsLeftAlone, Outcome
<1>7. CASE RestartDaemon \/ MoveHead \/ FeedInput \/ Expire \/ Allow \/ LookupTool \/ TryWait \/ RevParse \/ CatFile
           \/ ReadMemory \/ Render \/ Take \/ UNCHANGED vars
           \/ (\E s \in Stream : Join(s)) \/ (\E flag \in BOOLEAN : Draft(flag)) \/ (\E r \in Request : Arrive(r))
           \/ (\E w \in Switches : EditConfig(w))
  <2>1. UNCHANGED <<child, orphan, script, wrote, got>>
    BY <1>7 DEF RestartDaemon, MoveHead, FeedInput, Expire, Allow, LookupTool, TryWait, RevParse, CatFile,
       ReadMemory, StoreContent, Render, Take, vars, Join, ThreadsLeftAlone, Draft, Arrive, EditConfig, childVars
  <2> QED BY <1>0, <2>1
<1> QED BY <1>1, <1>2, <1>3, <1>4, <1>5, <1>6, <1>7, NextParts DEF Command, Aside

LEMMA SoundCourse ==
  ASSUME Sound, [Next]_vars
  PROVE  CourseOK'
<1> USE DEF CourseOK
<1>0. CourseOK /\ RecordOK /\ CommandOK /\ config \in Config
  BY DEF Sound, FilesOK
<1>h. head \in Nat /\ head \in 1..head
  <2>1. head \in 1..Commits /\ Commits \in Nat
    BY DraftingAssumption DEF Sound, FilesOK
  <2> QED BY <2>1
<1> USE DEF Before, Polling, Joining, Outcome, Goto, Fail
<1>1. CASE Exit("success") \/ Exit("failure")
  BY <1>0, <1>1 DEF Exit
<1>2. CASE MoveHead
  <2>1. UNCHANGED <<cmd, rec, child>> /\ head' = head + 1
    BY <1>2 DEF MoveHead, childVars
  <2>2. cmd.commit \in 1..head => cmd.commit \in 1..head + 1
    BY <1>h
  <2> QED BY <1>0, <2>1, <2>2
<1>3. ASSUME UNCHANGED <<cmd, rec, child, head>> PROVE CourseOK'
  BY <1>0, <1>3
<1>4. CASE Aside \/ UNCHANGED vars
  <2>1. CASE RestartDaemon \/ Fork \/ OrphanEnds \/ FeedInput \/ Expire \/ (\E w \in Switches : EditConfig(w))
             \/ (\E s \in Stream : Write(s) \/ ReadPipe(s)) \/ UNCHANGED vars
    BY <1>3, <2>1 DEF RestartDaemon, Fork, OrphanEnds, FeedInput, Expire, EditConfig, Write, ReadPipe, vars,
       ownerVars, childVars
  <2> QED BY <1>1, <1>2, <1>4, <2>1 DEF Aside
<1>5. CASE Allow \/ \E r \in Request : Arrive(r)
  <2>1. UNCHANGED <<cmd, child, head>> /\ cmd.pc = "idle" /\ rec'.draft = rec.draft
    BY <1>0, <1>5 DEF Allow, Arrive, RecordOK, CommandOK, Steps, ownerVars, childVars
  <2> QED BY <1>0, <2>1
<1>6. ASSUME NEW flag \in BOOLEAN, Draft(flag) PROVE CourseOK'
  <2>1. FirstStep(rec.req) \in {"render", "lookup", "rev_parse", "memory"}
    BY DEF FirstStep
  <2>2. UNCHANGED <<rec, child, head>> /\ cmd.pc = "idle" /\ rec.state \in {"pending", "drafted"}
        /\ cmd' = [cmd EXCEPT !.pc = FirstStep(rec.req), !.conf = config]
    BY <1>6 DEF Draft, MayDraft, ownerVars, childVars
  <2> QED BY <1>0, <2>1, <2>2 DEF CommandOK
<1>7. CASE Take
  <2>1. UNCHANGED <<child, head>> /\ cmd.pc = "take"
    BY <1>7 DEF Take, ownerVars, childVars
  <2>2. \/ cmd' = Fail /\ rec' = rec
        \/ \E r : cmd' = [cmd EXCEPT !.pc = "done", !.result = r] /\ rec'.state = "drafted"
    <3>1. CASE cmd' = Fail /\ rec' = rec
      BY <3>1
    <3>2. CASE ~ (cmd' = Fail /\ rec' = rec)
      <4>1. PICK d : /\ cmd' = [cmd EXCEPT !.pc = "done", !.result = d.status]
                     /\ rec' = [rec EXCEPT !.state = "drafted",
                                           !.draft = [text |-> d.text, whole |-> <<>>,
                                                      truncated |-> FALSE, commit |-> None]]
        BY <1>7, <3>2, TakeMakes
      <4> QED BY <1>0, <4>1 DEF RecordOK
    <3> QED BY <3>1, <3>2
  <2> QED BY <1>0, <2>1, <2>2 DEF CommandOK
<1>8. ASSUME NEW t \in Blobs \cup {None}, StoreContent(t), cmd.pc \in {"cat_file", "memory"} PROVE CourseOK'
  <2>1. UNCHANGED <<child, head>> /\ cmd.commit \in Nat \cup {None}
    BY <1>0, <1>8 DEF StoreContent, CommandOK, ownerVars, childVars
  <2>2. \/ cmd' = Fail /\ rec' = rec
        \/ cmd' = [cmd EXCEPT !.pc = "done", !.result = "ok"] /\ rec'.state = "drafted"
    BY <1>0, <1>8, <2>1, StoreContentMakes DEF RecordOK
  <2> QED BY <1>0, <1>8, <2>1, <2>2 DEF CommandOK
<1>9. CASE CatFile \/ ReadMemory
  BY <1>8, <1>9, BlobIsBlob DEF CatFile, ReadMemory
<1>10. CASE Render \/ LookupTool
  <2>1. UNCHANGED <<rec, child, head>> /\ cmd.pc \in {"render", "lookup"}
    BY <1>10 DEF Render, LookupTool, ownerVars, childVars
  <2>2. cmd' = Goto("spawn") \/ cmd' = Fail \/ cmd' = [Fail EXCEPT !.result = "unrendered"]
    BY <1>10 DEF Render, LookupTool
  <2> QED BY <1>0, <2>1, <2>2 DEF CommandOK
<1>11. CASE Spawn
  <2>1. UNCHANGED <<rec, head>> /\ cmd.pc = "spawn"
        /\ \/ cmd' = Fail /\ child' = child
           \/ cmd' = Goto("wait") /\ child' = "running"
    <3> HIDE DEF Goto, Fail
    <3>1. UNCHANGED <<rec, head>> /\ cmd.pc = "spawn"
      BY <1>11 DEF Spawn, ownerVars
    <3>2. \/ cmd' = Fail /\ UNCHANGED childVars
          \/ cmd' = Goto("wait") /\ child' = "running"
      BY <1>11 DEF Spawn
    <3>3. UNCHANGED childVars => child' = child
      BY DEF childVars
    <3> QED BY <3>1, <3>2, <3>3
  <2> QED BY <1>0, <2>1 DEF CommandOK
<1>12. CASE TryWait
  <2>1. UNCHANGED <<rec, head, child>> /\ cmd.pc = "wait" /\ child \in {"running"} \cup Outcome
        /\ cmd' = Goto(IF child = "running" THEN "check" ELSE "join out")
    BY <1>0, <1>12 DEF TryWait, MayPoll, ThreadsLeftAlone, ownerVars, Sound, PipesOK
  <2> QED BY <1>0, <2>1 DEF CommandOK
<1>13. CASE CheckDeadline
  <2>1. UNCHANGED <<rec, head>> /\ cmd.pc = "check" /\ child \in {"running"} \cup Outcome
    BY <1>0, <1>13 DEF CheckDeadline, ThreadsLeftAlone, ownerVars, Sound, PipesOK
  <2>2. CASE expired
    <3>1. cmd' = [Goto("take") EXCEPT !.timedOut = TRUE] /\ child' \in Outcome
      BY <1>13, <2>1, <2>2 DEF CheckDeadline
    <3> QED BY <1>0, <2>1, <3>1 DEF CommandOK
  <2>3. CASE ~ expired
    <3>1. cmd' = Goto("wait") /\ child' = child
      BY <1>13, <2>3 DEF CheckDeadline
    <3> QED BY <1>0, <2>1, <3>1 DEF CommandOK
  <2> QED BY <2>2, <2>3
<1>14. ASSUME NEW s \in Stream, Join(s) PROVE CourseOK'
  <2>1. UNCHANGED <<rec, head, child>> /\ cmd.pc \in Joining
        /\ cmd' = Goto(IF s = "out" THEN "join err" ELSE "take")
    BY <1>14 DEF Join, ThreadsLeftAlone, ownerVars
  <2> QED BY <1>0, <2>1 DEF CommandOK
<1>15. CASE RevParse
  <2>1. UNCHANGED <<rec, head, child>> /\ cmd.pc = "rev_parse"
        /\ (cmd' = [Goto("cat_file") EXCEPT !.commit = head] \/ cmd' = Fail)
    BY <1>15 DEF RevParse, ownerVars, childVars
  <2> QED BY <1>0, <1>h, <2>1 DEF CommandOK
<1> QED BY <1>4, <1>5, <1>6, <1>7, <1>9, <1>10, <1>11, <1>12, <1>13, <1>14, <1>15, NextParts DEF Command

LEMMA SoundNext ==
  ASSUME Sound, [Next]_vars
  PROVE  Sound'
  BY SoundFiles, SoundRecord, SoundCommand, SoundPipes, SoundCourse DEF Sound

LEMMA SoundTypes == Sound => TypeOK
<1> SUFFICES ASSUME Sound PROVE TypeOK
  OBVIOUS
<1>1. /\ config \in Config /\ started \in Config /\ "tools_ok" \in started.on
      /\ edits \in 0..MaxEdits /\ head \in 1..Commits
      /\ stdin \in {"none", "writing", "done"} /\ expired \in BOOLEAN /\ prompt \in BOOLEAN
  BY DEF Sound, FilesOK
<1>2. /\ rec.state \in {"none", "consent", "pending", "drafted"}
      /\ rec.req \in Request \cup {None} /\ rec.draft \in StoredDraft \cup {None}
  BY DEF Sound, RecordOK, States
<1>3. /\ cmd.pc \in Steps
      /\ cmd.result \in {"none", "ok", "timeout", "extract_failed", "error", "unrendered"}
  BY DEF Sound, CommandOK, Results
<1>4. /\ child \in {"none", "running"} \cup Outcome /\ orphan \in {"none", "holding", "gone"}
      /\ \A s \in Stream : /\ got[s] \in 0 .. wrote[s] /\ wrote[s] \in 0 .. Len(script[s])
                           /\ wrote[s] - got[s] <= PipeCap
  <2>1. PipesOK
    BY DEF Sound
  <2>2. \A s \in Stream : script[s] \in Seq(Text) /\ Len(script[s]) \in Nat
    BY <2>1 DEF PipesOK, Texts
  <2> QED BY <2>1, <2>2 DEF PipesOK
<1> QED BY <1>1, <1>2, <1>3, <1>4 DEF TypeOK, Steps, Before, Polling, Joining

LEMMA AlwaysSound == Spec => []Sound
  BY SoundInit, SoundNext, PTL DEF Spec

\* Every variable keeps its type: the command is at one of its steps, no reader
\* thread is ahead of its pipe, and no pipe holds more than its capacity.
THEOREM DraftingTypes == Spec => []TypeOK
  BY AlwaysSound, SoundTypes, PTL

-----------------------------------------------------------------------------
(* Nobody writes once both pipes are at their end.                          *)

\* A run that ended by itself is taken once both reader threads have ended.
Ended ==
  /\ cmd.pc = "join err" => Eof("out")
  /\ cmd.pc = "take" /\ ~ cmd.timedOut => \A s \in Stream : Eof(s)
  /\ cmd.pc = "done" /\ child # "none" /\ ~ cmd.timedOut => \A s \in Stream : Eof(s)

LEMMA EofStays ==
  ASSUME Sound, [Next]_vars, child \in Outcome, NEW s \in Stream, Eof(s)
  PROVE  Eof(s)' /\ child' = child /\ script'[s] = script[s] /\ wrote'[s] = wrote[s]
<1>0. /\ child # "running" /\ orphan # "holding" /\ got[s] = wrote[s] /\ cmd.pc \notin Before /\ child # "none"
      /\ ~ Writer
  BY DEF Eof, Writer, Outcome, Sound, CourseOK
<1>1. SUFFICES ASSUME TRUE
      PROVE  /\ child' = child /\ orphan' # "holding" /\ script' = script
             /\ wrote'[s] = wrote[s] /\ got'[s] = got[s]
  BY <1>0 DEF Eof, Writer
<1>2. CASE Aside
  <2>1. ASSUME NEW r \in Stream, ReadPipe(r) PROVE got'[s] = got[s]
    <3>1. r # s
      BY <1>0, <2>1 DEF ReadPipe, Sound, PipesOK
    <3> QED BY <2>1, <3>1 DEF ReadPipe, Sound, PipesOK
  <2>2. \/ RestartDaemon \/ MoveHead \/ OrphanEnds \/ FeedInput \/ Expire \/ (\E w \in Switches : EditConfig(w))
        \/ \E r \in Stream : ReadPipe(r)
    BY <1>0, <1>2 DEF Aside, Fork, Write, Exit
  <2> QED BY <1>0, <2>1, <2>2 DEF RestartDaemon, MoveHead, OrphanEnds, FeedInput, Expire, EditConfig, ReadPipe,
          ownerVars, childVars
<1>3. CASE Allow \/ (\E r \in Request : Arrive(r)) \/ UNCHANGED vars
  BY <1>0, <1>3 DEF Allow, Arrive, vars, childVars
<1>4. CASE Command
  <2>1. ~ Spawn /\ ~ Render /\ ~ LookupTool /\ ~ RevParse /\ ~ CatFile /\ ~ ReadMemory
    BY <1>0 DEF Spawn, Render, LookupTool, RevParse, CatFile, ReadMemory, Before
  <2>2. TryWait \/ CheckDeadline \/ Take \/ \E r \in Stream : Join(r)
    BY <1>4, <2>1 DEF Command
  <2> QED BY <1>0, <2>2 DEF TryWait, CheckDeadline, Take, Join, ThreadsLeftAlone, childVars
<1>5. CASE \E flag \in BOOLEAN : Draft(flag)
  BY <1>0, <1>5 DEF Draft, childVars
<1> QED BY <1>2, <1>3, <1>4, <1>5, NextParts

\* A command that is done stays as it is, and so does the record.
LEMMA DoneStays ==
  ASSUME Sound, [Next]_vars, cmd.pc = "done"
  PROVE  /\ UNCHANGED <<cmd, rec, child>>
         /\ head' \in Nat /\ head' >= head
<1>0. /\ rec.state \in {"pending", "drafted"} /\ child # "running" /\ head \in Nat
  <2>1. head \in 1..Commits /\ Commits \in Nat
    BY DraftingAssumption DEF Sound, FilesOK
  <2> QED BY <2>1 DEF Sound, CourseOK
<1>1. ~ Command /\ ~ Allow /\ (~ \E r \in Request : Arrive(r)) /\ ~ \E flag \in BOOLEAN : Draft(flag)
  BY <1>0 DEF Command, Allow, Arrive, Draft, Render, LookupTool, Spawn, TryWait, MayPoll, CheckDeadline, Take, Join,
     RevParse, CatFile, ReadMemory
<1>2. Aside \/ UNCHANGED vars
  BY <1>1, NextParts
<1>3. UNCHANGED <<cmd, rec>>
  BY <1>2, AsideFrame
<1>4. child' = child
  BY <1>0, <1>2 DEF Aside, RestartDaemon, MoveHead, Fork, OrphanEnds, FeedInput, Expire, EditConfig, Write,
     ReadPipe, Exit, vars, childVars
<1>5. head' = head \/ head' = head + 1
  BY <1>2 DEF Aside, RestartDaemon, MoveHead, Fork, OrphanEnds, FeedInput, Expire, EditConfig, Write,
     ReadPipe, Exit, vars, ownerVars
<1> QED BY <1>0, <1>3, <1>4, <1>5

LEMMA EndedNext ==
  ASSUME Sound, Ended, [Next]_vars
  PROVE  Ended'
<1>0. CommandOK /\ CourseOK /\ Sound'
  BY SoundNext DEF Sound
<1>1. ASSUME UNCHANGED cmd, child \in Outcome PROVE Ended'
  <2>1. \A s \in Stream : Eof(s) => Eof(s)'
    BY <1>1, EofStays
  <2>2. Eof("out") => Eof("out")'
    BY <2>1 DEF Stream
  <2>3. child # "none"
    BY <1>1 DEF Outcome
  <2> QED BY <1>1, <2>1, <2>2, <2>3 DEF Ended
<1>2. CASE Aside \/ UNCHANGED vars
  <2>1. UNCHANGED cmd
    BY <1>2, AsideFrame
  <2>2. CASE child \in Outcome
    BY <1>1, <2>1, <2>2
  <2>3. CASE child \notin Outcome
    <3>1. cmd.pc \notin Joining \cup {"take"}
      BY <1>0, <2>3 DEF CourseOK
    <3>2. cmd.pc = "done" => child = "none" /\ child' = child
      BY <1>0, <2>3, DoneStays DEF CourseOK, Sound, PipesOK, Outcome
    <3> QED BY <2>1, <3>1, <3>2 DEF Ended, Joining
  <2> QED BY <2>2, <2>3
<1>3. ASSUME NEW flag \in BOOLEAN, Draft(flag) PROVE Ended'
  <2>1. FirstStep(rec.req) \in {"render", "lookup", "rev_parse", "memory"}
    BY DEF FirstStep
  <2>2. cmd'.pc = FirstStep(rec.req)
    BY <1>0, <1>3 DEF Draft, CommandOK
  <2> QED BY <2>1, <2>2 DEF Ended
<1>4. CASE Allow \/ \E r \in Request : Arrive(r)
  <2>1. UNCHANGED cmd /\ cmd.pc = "idle"
    BY <1>0, <1>4 DEF Allow, Arrive, CourseOK
  <2> QED BY <2>1 DEF Ended
<1>5. CASE Render \/ LookupTool \/ RevParse \/ CatFile \/ ReadMemory
  <2>1. cmd.pc \in Before /\ child' = child
    BY <1>5 DEF Render, LookupTool, RevParse, CatFile, ReadMemory, StoreContent, Before, childVars
  <2>2. child' = "none"
    BY <1>0, <2>1 DEF CourseOK
  <2>3. cmd'.pc \notin Joining \cup {"take"}
    BY <1>0, <2>2 DEF Sound, CourseOK, Outcome
  <2> QED BY <2>2, <2>3 DEF Ended, Joining
<1>6. CASE Spawn
  <2>0. child = "none"
    BY <1>0, <1>6 DEF Spawn, CourseOK, Before
  <2>1. cmd' = Goto("wait") \/ (cmd' = Fail /\ UNCHANGED childVars)
    BY <1>6 DEF Spawn
  <2>2. cmd'.pc = "wait" \/ (cmd'.pc = "done" /\ child' = "none")
    BY <1>0, <2>0, <2>1 DEF CommandOK, Goto, Fail, childVars
  <2> QED BY <2>2 DEF Ended
<1>7. CASE TryWait
  <2>1. cmd'.pc \in {"check", "join out"}
    BY <1>0, <1>7 DEF TryWait, CommandOK, Goto
  <2> QED BY <2>1 DEF Ended
<1>8. CASE CheckDeadline
  <2>1. cmd'.pc = "wait" \/ (cmd'.pc = "take" /\ cmd'.timedOut)
    BY <1>0, <1>8 DEF CheckDeadline, CommandOK, Goto
  <2> QED BY <2>1 DEF Ended
<1>9. ASSUME NEW s \in Stream, Join(s) PROVE Ended'
  <2>0. child \in Outcome /\ Eof(s)
    BY <1>0, <1>9 DEF Join, CourseOK, Joining
  <2>1. Eof(s)'
    BY <2>0, EofStays
  <2>2. CASE s = "out"
    <3>1. cmd'.pc = "join err"
      BY <1>0, <1>9, <2>2 DEF Join, CommandOK, Goto
    <3> QED BY <2>1, <2>2, <3>1 DEF Ended
  <2>3. CASE s # "out"
    <3>1. cmd'.pc = "take" /\ cmd.pc = "join err" /\ s = "err"
      BY <1>0, <1>9, <2>3 DEF Join, CommandOK, Goto, Stream
    <3>2. Eof("out")'
      BY <2>0, <3>1, EofStays DEF Ended, Stream
    <3> QED BY <2>1, <3>1, <3>2 DEF Ended, Stream
  <2> QED BY <2>2, <2>3
<1>10. CASE Take
  <2>0. child \in Outcome /\ cmd.pc = "take"
    BY <1>0, <1>10 DEF Take, CourseOK
  <2>1. cmd'.pc = "done" /\ cmd'.timedOut = cmd.timedOut
    <3>1. cmd' = Fail \/ \E r : cmd' = [cmd EXCEPT !.pc = "done", !.result = r]
      BY <1>10, TakeMakes
    <3> QED BY <1>0, <3>1 DEF CommandOK, Fail
  <2>2. ~ cmd.timedOut => \A s \in Stream : Eof(s)'
    BY <2>0, EofStays DEF Ended
  <2> QED BY <2>1, <2>2 DEF Ended
<1> QED BY <1>2, <1>3, <1>4, <1>5, <1>6, <1>7, <1>8, <1>9, <1>10, NextParts DEF Command

-----------------------------------------------------------------------------
(* Drafts.                                                                  *)

\* What an `owl draft` without a child may read.
Sources == {Blob[i] : i \in 1..Commits} \cup {Memory}

FromChild ==
  LET m == Made(Written("out"), Written("err")) IN m # None /\ rec.draft.text = m.text

FromFile == \E t \in Sources \cap Texts : rec.draft.text = CutRedacted(t)

AtRef ==
  /\ rec.draft.commit \in 1 .. head
  /\ rec.draft.whole = Redact(Blob[rec.draft.commit])
  /\ IsPrefix(rec.draft.text, rec.draft.whole) /\ VerifyLine(rec.draft)

\* A request for a file takes the way of a file.
Routed ==
  (cmd.pc # "idle" /\ rec.req.kind = "content" /\ rec.req.path # None) =>
     cmd.pc \in {"rev_parse", "cat_file", "done"}

Drafted ==
  rec.draft # None =>
    /\ child # "none" /\ ~ cmd.timedOut => FromChild
    /\ child = "none" => FromFile
    /\ rec.req.kind = "content" /\ rec.req.path # None => AtRef

DraftInv == Sound /\ Ended /\ Routed /\ Drafted

LEMMA DraftInvInit == Init => DraftInv
<1> SUFFICES ASSUME Init PROVE DraftInv
  OBVIOUS
<1>1. cmd.pc = "idle" /\ rec.draft = None
  BY DEF Init, Idle
<1>2. Ended /\ Routed /\ Drafted
  BY <1>1 DEF Ended, Routed, Drafted
<1> QED BY <1>2, SoundInit DEF DraftInv

LEMMA RoutedNext ==
  ASSUME Sound, Routed, [Next]_vars
  PROVE  Routed'
<1>0. CommandOK /\ RecordOK /\ CourseOK
  BY DEF Sound
<1>1. CASE Aside \/ UNCHANGED vars
  <2>1. UNCHANGED <<cmd, rec>>
    BY <1>1, AsideFrame
  <2> QED BY <2>1 DEF Routed
<1>2. CASE Allow \/ \E r \in Request : Arrive(r)
  <2>1. UNCHANGED cmd /\ cmd.pc = "idle"
    BY <1>0, <1>2 DEF Allow, Arrive, CourseOK
  <2> QED BY <2>1 DEF Routed
<1>3. ASSUME NEW flag \in BOOLEAN, Draft(flag) PROVE Routed'
  <2>1. rec' = rec /\ cmd'.pc = FirstStep(rec.req)
    BY <1>0, <1>3 DEF Draft, CommandOK
  <2>2. ASSUME rec.req.kind = "content", rec.req.path # None PROVE FirstStep(rec.req) = "rev_parse"
    BY <2>2 DEF FirstStep
  <2> QED BY <2>1, <2>2 DEF Routed
<1>4. CASE Take
  <2>1. cmd.pc = "take" /\ rec'.req = rec.req
    <3>1. rec' = rec \/ \E d : rec' = [rec EXCEPT !.state = "drafted", !.draft = d]
      BY <1>4, TakeMakes
    <3> QED BY <1>0, <1>4, <3>1 DEF RecordOK, Take
  <2> QED BY <2>1 DEF Routed
<1>5. ASSUME NEW t \in Blobs \cup {None}, StoreContent(t) PROVE Routed'
  <2>1. cmd.commit \in Nat \cup {None}
    BY <1>0 DEF CommandOK
  <2>2. cmd'.pc = "done"
    BY <1>0, <1>5, <2>1, StoreContentMakes DEF CommandOK, Fail
  <2> QED BY <2>2 DEF Routed
<1>6. CASE CatFile \/ ReadMemory
  BY <1>5, <1>6, BlobIsBlob DEF CatFile, ReadMemory
<1>7. CASE RevParse
  <2>1. cmd'.pc \in {"cat_file", "done"}
    BY <1>0, <1>7 DEF RevParse, CommandOK, Goto, Fail
  <2> QED BY <2>1 DEF Routed
<1>8. CASE Render \/ LookupTool \/ Spawn \/ TryWait \/ CheckDeadline \/ \E s \in Stream : Join(s)
  <2>1. rec' = rec /\ cmd.pc \notin {"idle", "rev_parse", "cat_file", "done"}
    BY <1>8 DEF Render, LookupTool, Spawn, TryWait, MayPoll, CheckDeadline, Join, ThreadsLeftAlone
  <2> QED BY <2>1 DEF Routed
<1> QED BY <1>1, <1>2, <1>3, <1>4, <1>6, <1>7, <1>8, NextParts DEF Command

\* What a capture becomes depends on what was written, and on nothing that moves
\* once the run is over.
LEMMA MadeStays ==
  ASSUME cmd'.conf = cmd.conf, cmd'.timedOut = cmd.timedOut, child' = child, rec'.req = rec.req,
         \A s \in Stream : script'[s] = script[s] /\ wrote'[s] = wrote[s]
  PROVE  Made(Written("out"), Written("err"))' = Made(Written("out"), Written("err"))
<1>1. Written("out")' = Written("out") /\ Written("err")' = Written("err")
  BY DEF Written, Stream
<1>2. \A o, e : Question(o, e)' = Question(o, e)
  BY DEF Question
<1>3. \A o, e : ToolRun(o, e)' = ToolRun(o, e)
  BY DEF ToolRun
<1>4. \A o, e : Made(o, e)' = Made(o, e)
  BY <1>2, <1>3 DEF Made
<1> QED BY <1>1, <1>4

LEMMA DraftedStays ==
  ASSUME Sound, Ended, Drafted, [Next]_vars, cmd.pc = "done"
  PROVE  Drafted'
<1>1. UNCHANGED <<cmd, rec, child>> /\ head' \in Nat /\ head' >= head /\ head \in Nat
  <2>1. head \in 1..Commits /\ Commits \in Nat
    BY DraftingAssumption DEF Sound, FilesOK
  <2> QED BY <2>1, DoneStays
<1> SUFFICES ASSUME rec'.draft # None PROVE Drafted'
  BY DEF Drafted
<1>2. rec.draft # None
  BY <1>1
<1>3. ASSUME child' # "none", ~ cmd'.timedOut PROVE FromChild'
  <2>1. child \in Outcome
    BY <1>1, <1>3 DEF Sound, PipesOK, CourseOK
  <2>2. \A s \in Stream : Eof(s)
    BY <1>1, <1>3 DEF Ended
  <2>3. \A s \in Stream : script'[s] = script[s] /\ wrote'[s] = wrote[s]
    BY <2>1, <2>2, EofStays
  <2>4. Made(Written("out"), Written("err"))' = Made(Written("out"), Written("err"))
    BY <1>1, <2>3, MadeStays
  <2>5. FromChild
    BY <1>1, <1>2, <1>3 DEF Drafted
  <2> QED BY <1>1, <2>4, <2>5 DEF FromChild
<1>4. ASSUME child' = "none" PROVE FromFile'
  BY <1>1, <1>2, <1>4 DEF Drafted, FromFile
<1>5. ASSUME rec'.req.kind = "content", rec'.req.path # None PROVE AtRef'
  <2>1. AtRef
    BY <1>1, <1>2, <1>5 DEF Drafted
  <2>2. rec.draft.commit \in 1..head'
    BY <1>1, <2>1 DEF AtRef
  <2> QED BY <1>1, <2>1, <2>2 DEF AtRef, VerifyLine
<1> QED BY <1>3, <1>4, <1>5 DEF Drafted

\* The draft of a child that ended by itself is made of all it wrote.
LEMMA DraftedByTake ==
  ASSUME Sound, Ended, Routed, Take
  PROVE  Drafted'
<1>0. /\ CommandOK /\ RecordOK /\ cmd.pc = "take" /\ child \in Outcome /\ child' = child
      /\ rec.draft = None /\ UNCHANGED childVars
  BY DEF Take, Sound, CourseOK, childVars
<1>1. CASE rec' = rec
  BY <1>0, <1>1 DEF Drafted
<1>2. CASE rec' # rec
  <2>1. PICK d : /\ d = Made(Got("out"), Got("err")) /\ d # None
                 /\ cmd' = [cmd EXCEPT !.pc = "done", !.result = d.status]
                 /\ rec' = [rec EXCEPT !.state = "drafted",
                                       !.draft = [text |-> d.text, whole |-> <<>>,
                                                  truncated |-> FALSE, commit |-> None]]
    BY <1>2, TakeMakes
  <2>2. /\ cmd'.conf = cmd.conf /\ cmd'.timedOut = cmd.timedOut /\ rec'.req = rec.req
        /\ rec'.draft.text = d.text
    BY <1>0, <2>1 DEF CommandOK, RecordOK
  <2>3. ~ (rec.req.kind = "content" /\ rec.req.path # None)
    BY <1>0 DEF Routed
  <2>4. ASSUME ~ cmd.timedOut PROVE FromChild'
    <3>1. \A s \in Stream : got[s] = wrote[s]
      BY <1>0, <2>4 DEF Ended, Eof
    <3>2. Got("out") = Written("out") /\ Got("err") = Written("err")
      BY <3>1 DEF Got, Written, Stream
    <3>3. Made(Written("out"), Written("err"))' = Made(Written("out"), Written("err"))
      BY <1>0, <2>2, MadeStays DEF childVars
    <3> QED BY <2>1, <2>2, <3>2, <3>3 DEF FromChild
  <2>5. child' # "none"
    BY <1>0 DEF Outcome
  <2> QED BY <2>2, <2>3, <2>4, <2>5 DEF Drafted
<1> QED BY <1>1, <1>2

\* A content draft is the redacted text, cut; and the reply knows the digest of the whole.
LEMMA ContentDraftIsPrefix ==
  ASSUME NEW t \in Texts
  PROVE  /\ IsPrefix(CutRedacted(t), Redact(t))
         /\ VerifyLine(ContentDraft(t))
<1>1. Redact(t) \in Seq(Text)
  BY RedactIsText DEF Texts
<1>2. IsPrefix(Cut(Redact(t)), Redact(t)) /\ (Len(Redact(t)) <= Cap => Cut(Redact(t)) = Redact(t))
  BY <1>1, CutFacts
<1>3. Len(Redact(t)) > Cap \/ Len(Redact(t)) <= Cap
  BY <1>1, DraftingAssumption
<1> QED BY <1>2, <1>3 DEF CutRedacted, VerifyLine, ContentDraft

LEMMA DraftedByFile ==
  ASSUME Sound, Routed, NEW t \in Sources, t \in Blobs \cup {None}, StoreContent(t), cmd.pc \in {"cat_file", "memory"},
         cmd.pc = "cat_file" => t = Blob[cmd.commit] /\ cmd.commit \in 1..head
  PROVE  Drafted'
<1>0. /\ CommandOK /\ RecordOK /\ child = "none" /\ UNCHANGED <<child, head>> /\ rec.draft = None
  BY DEF StoreContent, Sound, CourseOK, Before, childVars, ownerVars
<1>1. CASE rec' = rec
  BY <1>0, <1>1 DEF Drafted
<1>2. CASE rec' # rec
  <2>0. cmd.commit \in Nat \cup {None}
    BY <1>0 DEF CommandOK
  <2>1. t \in Texts /\ rec' = [rec EXCEPT !.state = "drafted", !.draft = ContentDraft(t)]
    BY <1>0, <1>2, <2>0, StoreContentMakes
  <2>2. rec'.draft = ContentDraft(t) /\ rec'.req = rec.req
    BY <1>0, <2>1 DEF RecordOK
  <2>3. FromFile'
    BY <2>1, <2>2 DEF FromFile, ContentDraft
  <2>4. ASSUME rec.req.kind = "content", rec.req.path # None PROVE AtRef'
    <3>1. cmd.pc = "cat_file"
      BY <2>4 DEF Routed
    <3>2. t = Blob[cmd.commit] /\ cmd.commit \in 1..head
      BY <3>1
    <3>3. /\ rec'.draft.commit = cmd.commit /\ rec'.draft.whole = Redact(t)
          /\ rec'.draft.text = CutRedacted(t)
      BY <2>2 DEF ContentDraft
    <3> QED BY <1>0, <2>1, <2>2, <3>2, <3>3, ContentDraftIsPrefix DEF AtRef
  <2> QED BY <1>0, <2>2, <2>3, <2>4 DEF Drafted
<1> QED BY <1>1, <1>2

LEMMA DraftedNext ==
  ASSUME Sound, Ended, Routed, Drafted, [Next]_vars
  PROVE  Drafted'
<1>0. RecordOK /\ CommandOK /\ CourseOK
  BY DEF Sound
<1>1. CASE cmd.pc = "done"
  BY <1>1, DraftedStays
<1>2. ASSUME rec'.draft = rec.draft, cmd.pc # "done" PROVE Drafted'
  <2>1. rec'.draft = None
    BY <1>0, <1>2 DEF CourseOK
  <2> QED BY <2>1 DEF Drafted
<1>3. CASE Take
  BY <1>3, DraftedByTake
<1>4. CASE CatFile
  <2>1. /\ Blob[cmd.commit] \in Blobs \cup {None} /\ cmd.commit \in 1..head /\ cmd.pc = "cat_file"
        /\ StoreContent(Blob[cmd.commit])
    BY <1>4, BlobIsBlob DEF CatFile, ReadAt
  <2>2. head \in 1..Commits /\ Commits \in Nat
    BY DraftingAssumption DEF Sound, FilesOK
  <2>3. cmd.commit \in 1..Commits
    BY <2>1, <2>2
  <2>4. Blob[cmd.commit] \in Sources
    BY <2>3 DEF Sources
  <2> QED BY <2>1, <2>4, DraftedByFile
<1>5. CASE ReadMemory
  <2>1. CASE "root" \in cmd.conf.on
    <3>1. /\ Memory \in Blobs \cup {None} /\ Memory \in Sources /\ cmd.pc = "memory" /\ StoreContent(Memory)
      BY <1>5, <2>1, BlobIsBlob DEF ReadMemory, Sources
    <3> QED BY <3>1, DraftedByFile
  <2>2. CASE "root" \notin cmd.conf.on
    <3>1. rec' = rec /\ cmd.pc = "memory"
      BY <1>5, <2>2 DEF ReadMemory, StoreContent
    <3> QED BY <1>2, <3>1
  <2> QED BY <2>1, <2>2
<1>6. CASE Aside \/ UNCHANGED vars
  BY <1>1, <1>2, <1>6, AsideFrame
<1>7. CASE Allow \/ \E r \in Request : Arrive(r)
  <2>1. rec'.draft = rec.draft
    BY <1>0, <1>7 DEF Allow, Arrive, RecordOK
  <2> QED BY <1>1, <1>2, <2>1
<1>8. CASE Render \/ LookupTool \/ Spawn \/ TryWait \/ CheckDeadline \/ RevParse \/ (\E s \in Stream : Join(s))
           \/ (\E flag \in BOOLEAN : Draft(flag))
  <2>1. rec' = rec
    BY <1>8 DEF Render, LookupTool, Spawn, TryWait, CheckDeadline, Join, RevParse, Draft, ThreadsLeftAlone
  <2> QED BY <1>1, <1>2, <2>1
<1> QED BY <1>3, <1>4, <1>5, <1>6, <1>7, <1>8, NextParts DEF Command

LEMMA AlwaysDraftInv == Spec => []DraftInv
<1>1. DraftInv /\ [Next]_vars => DraftInv'
  BY SoundNext, EndedNext, RoutedNext, DraftedNext DEF DraftInv
<1> QED BY <1>1, DraftInvInit, PTL DEF Spec

\* A run that was not cut short loses nothing: the draft is what the patterns,
\* the answer path and the cut make of everything the child, and whatever it
\* forked, wrote on its two pipes; and nobody is left to write more.
THEOREM NothingIsMissed == Spec => []NothingMissed
<1>1. DraftInv => NothingMissed
  BY DEF DraftInv, Ended, Drafted, FromChild, NothingMissed, Eof, Stream
<1> QED BY <1>1, AlwaysDraftInv, PTL

\* The bytes of a content draft are those of the commit it names, although HEAD
\* may move while it is made; an asker holding a prefix is told so.
THEOREM ContentStaysAtRef == Spec => []ContentAtRef
<1>1. DraftInv => ContentAtRef
  BY DEF DraftInv, Drafted, AtRef, ContentAtRef
<1> QED BY <1>1, AlwaysDraftInv, PTL

-----------------------------------------------------------------------------
(* Secrets.                                                                 *)

LEMMA MatchIs ==
  ASSUME NEW t \in Texts, NEW i
  PROVE  i \in Matches(t) <=> i \in 1..Len(t) - 2 /\ t[i] = "k" /\ t[i + 1] = "v" /\ t[i + 2] = "e"
<1>0. Len(t) \in Nat /\ \A j \in 1..Len(t) : t[j] \in Text
  BY DEF Texts
<1> SUFFICES ASSUME i \in 1..Len(t) - 2
             PROVE  SubSeq(t, i, i + 2) = Secret <=> t[i] = "k" /\ t[i + 1] = "v" /\ t[i + 2] = "e"
  BY DEF Matches
<1>1. i \in Int /\ i + 2 \in Int /\ i <= i + 2 /\ \A j \in i..i + 2 : t[j] \in Text
  BY <1>0
<1> DEFINE u == SubSeq(t, i, i + 2)
<1>2. /\ u \in Seq(Text) /\ Len(u) = (IF i <= i + 2 THEN i + 2 - i + 1 ELSE 0)
      /\ \A j \in 1..i + 2 - i + 1 : u[j] = t[i + j - 1]
  BY <1>1, SubSeqProperties
<1> HIDE DEF u
<1>3. Len(u) = 3 /\ u[1] = t[i] /\ u[2] = t[i + 1] /\ u[3] = t[i + 2]
  BY <1>1, <1>2
<1>4. Secret \in Seq(Text) /\ Len(Secret) = 3 /\ Secret[1] = "k" /\ Secret[2] = "v" /\ Secret[3] = "e"
  BY DEF Secret, Text
<1>5. ASSUME u[1] = "k", u[2] = "v", u[3] = "e" PROVE u = Secret
  <2>1. \A j \in 1..3 : u[j] = Secret[j]
    BY <1>4, <1>5
  <2> QED BY <1>2, <1>3, <1>4, <2>1, SeqEqual
<1>6. u = Secret <=> u[1] = "k" /\ u[2] = "v" /\ u[3] = "e"
  BY <1>4, <1>5
<1> QED BY <1>3, <1>6 DEF u

\* A token of a redacted text is one of the text that no match covers.
LEMMA ShownFrom ==
  ASSUME NEW t \in Texts
  PROVE  "v" \in ToSet(Redact(t)) <=> \E i \in 1..Len(t) : Shown(t, i) /\ t[i] = "v"
<1>1. "x" \in Text /\ t \in Seq(Text)
  BY DEF Text, Texts
<1>2. /\ \A y \in ToSet(Redact(t)) : y = "x" \/ \E i \in 1..Len(t) : Shown(t, i) /\ t[i] = y
      /\ \A i \in 1..Len(t) : Shown(t, i) => t[i] \in ToSet(Redact(t))
  BY <1>1, RedactShows
<1> QED BY <1>2

\* Putting stdout and stderr together breaks no match of either.
LEMMA CombinedKeepsMatches ==
  ASSUME NEW o \in Texts, NEW e \in Texts, "v" \in ToSet(Redact(Combined(o, e)))
  PROVE  "v" \in ToSet(Redact(o)) \/ "v" \in ToSet(Redact(e))
<1> DEFINE c == Combined(o, e)
           n == Len(o)
<1>0. c \in Texts /\ n \in Nat /\ Len(e) \in Nat
  BY CombinedIsText DEF Texts
<1>1. CASE e = <<>>
  BY <1>1 DEF Combined
<1>2. CASE e # <<>>
  <2>1. <<"s">> \in Seq(Text) /\ Len(<<"s">>) = 1 /\ <<"s">>[1] = "s"
    BY DEF Text
  <2>2. /\ o \o <<"s">> \in Seq(Text) /\ Len(o \o <<"s">>) = n + 1
        /\ \A i \in 1..n + 1 : (o \o <<"s">>)[i] = IF i <= n THEN o[i] ELSE <<"s">>[i - n]
    BY <1>0, <2>1, ConcatProperties DEF Texts
  <2> DEFINE a == o \o <<"s">>
  <2>3. Len(c) = n + 1 + Len(e) /\ \A i \in 1..n + 1 + Len(e) : c[i] = IF i <= n + 1 THEN a[i] ELSE e[i - (n + 1)]
    <3>1. c = a \o e
      BY <1>2 DEF Combined
    <3>2. a \in Seq(Text) /\ Len(a) = n + 1 /\ e \in Seq(Text)
      BY <2>2 DEF Texts
    <3> HIDE DEF a, c, n
    <3>3. /\ Len(a \o e) = Len(a) + Len(e)
          /\ \A i \in 1..Len(a) + Len(e) : (a \o e)[i] = IF i <= Len(a) THEN a[i] ELSE e[i - Len(a)]
      BY <3>2, ConcatProperties
    <3> QED BY <3>1, <3>2, <3>3
  <2>4. /\ Len(c) = n + 1 + Len(e) /\ \A i \in 1..n : c[i] = o[i]
        /\ c[n + 1] = "s" /\ \A j \in 1..Len(e) : c[n + 1 + j] = e[j]
    <3>1. \A i \in 1..n : a[i] = o[i]
      BY <1>0, <2>2
    <3>2. a[n + 1] = "s"
      BY <1>0, <2>1, <2>2
    <3> HIDE DEF a, c, n
    <3>3. \A i \in 1..n : c[i] = o[i]
      BY <1>0, <2>3, <3>1
    <3>4. c[n + 1] = "s"
      BY <1>0, <2>3, <3>2
    <3>5. \A j \in 1..Len(e) : c[n + 1 + j] = e[j]
      BY <1>0, <2>3
    <3> QED BY <2>3, <3>3, <3>4, <3>5
  <2> HIDE DEF a, c, n
  <2>5. \A i \in Matches(o) : i \in Matches(c)
    <3> SUFFICES ASSUME NEW i \in Matches(o) PROVE i \in Matches(c)
      OBVIOUS
    <3>1. i \in 1..n - 2 /\ o[i] = "k" /\ o[i + 1] = "v" /\ o[i + 2] = "e"
      BY MatchIs DEF n
    <3>2. i \in 1..n /\ i + 1 \in 1..n /\ i + 2 \in 1..n /\ i \in 1..Len(c) - 2
      BY <1>0, <2>4, <3>1
    <3>3. c[i] = "k" /\ c[i + 1] = "v" /\ c[i + 2] = "e"
      BY <2>4, <3>1, <3>2
    <3> QED BY <1>0, <3>2, <3>3, MatchIs
  <2>6. \A i \in Matches(e) : n + 1 + i \in Matches(c)
    <3> SUFFICES ASSUME NEW i \in Matches(e) PROVE n + 1 + i \in Matches(c)
      OBVIOUS
    <3>1. i \in 1..Len(e) - 2 /\ e[i] = "k" /\ e[i + 1] = "v" /\ e[i + 2] = "e"
      BY MatchIs
    <3>2. i \in 1..Len(e) /\ i + 1 \in 1..Len(e) /\ i + 2 \in 1..Len(e)
      BY <1>0, <3>1
    <3>3. c[n + 1 + i] = "k" /\ c[n + 1 + (i + 1)] = "v" /\ c[n + 1 + (i + 2)] = "e"
      BY <2>4, <3>1, <3>2
    <3>4. n + 1 + (i + 1) = (n + 1 + i) + 1 /\ n + 1 + (i + 2) = (n + 1 + i) + 2
          /\ n + 1 + i \in 1..Len(c) - 2
      BY <1>0, <2>4, <3>1
    <3> QED BY <1>0, <3>3, <3>4, MatchIs
  <2>7. PICK i \in 1..Len(c) : Shown(c, i) /\ c[i] = "v"
    BY <1>0, ShownFrom DEF c
  <2>8. CASE i \in 1..n
    <3>1. Shown(o, i) /\ o[i] = "v"
      BY <2>4, <2>5, <2>7, <2>8 DEF Shown
    <3> QED BY <2>8, <3>1, ShownFrom DEF n
  <2>9. CASE i \notin 1..n
    <3>1. PICK j : j = i - (n + 1)
      OBVIOUS
    <3>2. i # n + 1
      BY <2>4, <2>7
    <3>3. j \in 1..Len(e) /\ i = n + 1 + j /\ i - 1 = n + 1 + (j - 1) /\ i - 2 = n + 1 + (j - 2)
      BY <1>0, <2>4, <2>9, <3>1, <3>2
    <3>4. e[j] = "v"
      BY <2>4, <2>7, <3>3
    <3>5. Shown(e, j)
      BY <2>6, <2>7, <3>3 DEF Shown
    <3> QED BY <3>3, <3>4, <3>5, ShownFrom
  <2> QED BY <2>8, <2>9
<1> QED BY <1>1, <1>2

LEMMA AnswerHoldsNoSecret == "v" \notin ToSet(Redact(<<"p">>))
<1>1. <<"p">> \in Texts /\ Len(<<"p">>) = 1 /\ <<"p">>[1] = "p"
  BY DEF Texts, Text
<1>2. \A i \in 1..Len(<<"p">>) : <<"p">>[i] # "v"
  BY <1>1
<1> QED BY <1>1, <1>2, ShownFrom

LEMMA MadeHoldsSecret ==
  ASSUME NEW o \in Texts, NEW e \in Texts, cmd.conf \in Config, Made(o, e) # None,
         "v" \in ToSet(Made(o, e).text)
  PROVE  "v" \in ToSet(Redact(o)) \/ "v" \in ToSet(Redact(e))
<1>1. CASE rec.req.kind = "question"
  <2>1. Made(o, e) = Question(o, e)
    BY <1>1 DEF Made
  <2>2. Made(o, e).text = Redact(o) \/ Made(o, e).text = Redact(<<"p">>)
    BY <2>1, QuestionMakes
  <2> QED BY <2>2, AnswerHoldsNoSecret
<1>2. CASE rec.req.kind # "question"
  <2>1. Made(o, e) = ToolRun(o, e)
    BY <1>2 DEF Made
  <2>2. Made(o, e).text = CutRedacted(Combined(o, e))
    BY <2>1 DEF ToolRun
  <2>3. Redact(Combined(o, e)) \in Seq(Text)
    BY CombinedIsText, RedactIsText DEF Texts
  <2>4. ToSet(CutRedacted(Combined(o, e))) \subseteq ToSet(Redact(Combined(o, e)))
    BY <2>3, CutFacts DEF CutRedacted
  <2> QED BY <2>2, <2>4, CombinedKeepsMatches
<1> QED BY <1>1, <1>2

\* In the files of the owner every secret body lies in a whole match of a pattern
\* (what a child writes is not held to that: it may stop in the middle of one).
WholeSecrets ==
  \A t \in Sources \cap Texts : \A i \in 1..Len(t) : t[i] = "v" => i - 1 \in Matches(t)

\* No part of what a pattern matches is in a draft: a secret body is left only if
\* the child stopped in the middle of one, or the deadline cut the capture.
THEOREM NoSecretLeaves ==
  ASSUME WholeSecrets
  PROVE  Spec => []NoSecret
<1>1. DraftInv => NoSecret
  <2> SUFFICES ASSUME DraftInv, rec.draft # None, ~ cmd.timedOut, "v" \in ToSet(rec.draft.text)
               PROVE  child # "none" /\ \E s \in Stream : "v" \in ToSet(Redact(Written(s)))
    BY DEF NoSecret
  <2>1. CASE child = "none"
    <3>1. PICK t \in Sources \cap Texts : rec.draft.text = CutRedacted(t)
      BY <2>1 DEF DraftInv, Drafted, FromFile
    <3>2. Redact(t) \in Seq(Text)
      BY RedactIsText DEF Texts
    <3>3. "v" \in ToSet(Redact(t))
      BY <3>1, <3>2, CutFacts DEF CutRedacted
    <3>4. PICK i \in 1..Len(t) : Shown(t, i) /\ t[i] = "v"
      BY <3>3, ShownFrom
    <3>5. i - 1 \in Matches(t)
      BY <3>4 DEF WholeSecrets
    <3> QED BY <3>4, <3>5 DEF Shown
  <2>2. CASE child # "none"
    <3>1. /\ Made(Written("out"), Written("err")) # None
          /\ rec.draft.text = Made(Written("out"), Written("err")).text
      BY <2>2 DEF DraftInv, Drafted, FromChild
    <3>2. Written("out") \in Texts /\ Written("err") \in Texts
      BY GotIsText DEF DraftInv, Sound, Stream
    <3>3. cmd.conf \in Config
      <4>1. cmd.pc = "done"
        BY DEF DraftInv, Sound, CourseOK
      <4> QED BY <4>1 DEF DraftInv, Sound, CourseOK
    <3>4. "v" \in ToSet(Redact(Written("out"))) \/ "v" \in ToSet(Redact(Written("err")))
      BY <3>1, <3>2, <3>3, MadeHoldsSecret
    <3> QED BY <2>2, <3>4 DEF Stream
  <2> QED BY <2>1, <2>2
<1> QED BY <1>1, AlwaysDraftInv, PTL
=============================================================================
