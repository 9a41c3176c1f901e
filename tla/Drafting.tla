------------------------------ MODULE Drafting ------------------------------
(***************************************************************************)
(* One request from its arrival to its draft: the shape and allowlist      *)
(* checks of the daemon (server.rs), `owl draft` with the configuration it *)
(* loads itself (cli/draft.rs, config.rs), and what produces the text: a   *)
(* harness (runner.rs), a tool (tools.rs) or a file (content.rs).          *)
(*                                                                         *)
(* The child of a harness or a tool is a process of its own: it writes to  *)
(* two pipes of bounded capacity, may fork a process that inherits them,   *)
(* and may never end.  Two reader threads drain the pipes, a writer thread *)
(* feeds the input of a tool, and the command polls until its deadline.    *)
(* A text is a sequence of tokens: `k`, `v`, `e` together are what a       *)
(* redaction pattern matches, `p` is a line that answers, `j` a JSON line  *)
(* that does not, `0` a NUL byte, `x` the redaction mark.                  *)
(***************************************************************************)
EXTENDS Integers, SequencesExt

CONSTANTS
  Request,    \* the requests a peer may send
  Configs,    \* the configuration files the daemon may have been started with
  Commits,    \* the commits of the checkout, 1 .. n in the order HEAD takes them
  Blob,       \* the text of the requested path at each commit, or None
  Memory,     \* the text of the requested memory entry, or None
  Output,     \* what a child may write on its standard output
  Errors,     \* what it may write on its standard error
  Cap,        \* MAX_CONTENT_BYTES and MAX_OUTPUT_BYTES, in tokens
  PipeCap,    \* the capacity of a pipe, in tokens
  MaxEdits,   \* bound: edits of the configuration file
  None

Switches == {"tools_ok", "project", "tool", "private", "root", "redact_ok", "harness"}
Config == [on : SUBSET Switches, path : {"raw", "result", "last"}]

\* What can be a draft, and what a blob may hold besides.
Text == {"p", "j", "k", "v", "e", "x", "s", "w"}
Texts == Seq(Text)
Blobs == Seq(Text \cup {"0"})
StoredDraft == [text : Texts, whole : Texts, truncated : BOOLEAN, commit : Nat \cup {None}]

\* The daemon starts only with a registry that `check_tools` accepts.
ASSUME DraftingAssumption ==
  /\ Cap \in Nat /\ PipeCap \in Nat \ {0} /\ MaxEdits \in Nat
  /\ Commits \in Nat \ {0}
  /\ Configs \subseteq {c \in Config : "tools_ok" \in c.on}
  /\ Output \subseteq Texts /\ Errors \subseteq Texts
  /\ Memory \in Blobs \cup {None}
  /\ \A i \in 1 .. Commits : Blob[i] \in Blobs \cup {None}
  /\ None \notin StoredDraft /\ None \notin Request

VARIABLES
  config,     \* config.json as it is on the disk
  started,    \* the configuration the daemon loaded when it started
  edits,      \* how many edits the owner has made
  head,       \* the commit HEAD names
  rec,        \* the record: its state, its request and its draft
  cmd,        \* the `owl draft` command
  child,      \* the direct child: none, running, success, failure, killed
  orphan,     \* a process the child forked: none, holding (the pipes), gone
  script,     \* what the child has to write, per stream
  wrote, got, \* how much of it is written, and read by the reader thread
  stdin,      \* the writer thread of a tool's input: none, writing, done
  expired,    \* the deadline of the poll loop has passed
  prompt      \* a prompt file is in <home>/tmp

ownerVars == <<config, started, edits, head>>
childVars == <<child, orphan, script, wrote, got, stdin>>
vars == <<ownerVars, rec, cmd, childVars, expired, prompt>>

Stream == {"out", "err"}
Written(s) == SubSeq(script[s], 1, wrote[s])
Got(s) == SubSeq(script[s], 1, got[s])

Outcome == {"success", "failure", "killed"}

Idle == [pc |-> "idle", conf |-> None, commit |-> None,
         timedOut |-> FALSE, result |-> "none"]

Init ==
  /\ config \in Configs /\ started = config /\ edits = 0 /\ head = 1
  /\ rec = [state |-> "none", req |-> None, draft |-> None]
  /\ cmd = Idle
  /\ child = "none" /\ orphan = "none"
  /\ script = [s \in Stream |-> <<>>]
  /\ wrote = [s \in Stream |-> 0] /\ got = [s \in Stream |-> 0]
  /\ stdin = "none" /\ expired = FALSE /\ prompt = FALSE

-----------------------------------------------------------------------------
(* The owner: edits of config.json, restarts of the daemon, commits.  Each  *)
(* is offered only while something can still see it: the file before the   *)
(* command loads it, the daemon's copy before the arrival, HEAD while a     *)
(* file is read.                                                            *)

\* One switch of the file is flipped.  `tools_ok` off is a registry that
\* `check_tools` refuses: every command and every start of the daemon fails.
EditConfig(w) ==
  /\ cmd.pc = "idle" /\ edits < MaxEdits /\ edits' = edits + 1
  /\ config' = [config EXCEPT !.on = IF w \in @ THEN @ \ {w} ELSE @ \cup {w}]
  /\ UNCHANGED <<started, head, rec, cmd, childVars, expired, prompt>>

Loads(c) == "tools_ok" \in c.on

RestartDaemon ==
  /\ rec.state = "none" /\ Loads(config) /\ started # config /\ started' = config
  /\ UNCHANGED <<config, edits, head, rec, cmd, childVars, expired, prompt>>

MoveHead ==
  /\ cmd.pc \in {"rev_parse", "cat_file", "done"} /\ child = "none" /\ head < Commits /\ head' = head + 1
  /\ UNCHANGED <<config, started, edits, rec, cmd, childVars, expired, prompt>>

-----------------------------------------------------------------------------
(* The arrival: nothing is read or run, the body is held to the allowlist.  *)

\* A path or key that leaves its root is refused by its text alone.
ValidContent(b, c) ==
  /\ \/ b.path = "inside" /\ b.memory = None /\ b.project = "known" /\ "project" \in c.on
     \/ b.path = None /\ b.memory = "inside" /\ {"root", "private"} \subseteq c.on
  /\ b.ref # "malformed"

\* `input` is its length in units of the tool's max_input_bytes.
ValidTool(b, c) ==
  /\ b.tool = "registered" /\ "tool" \in c.on
  /\ b.input # None /\ b.input <= 1
  /\ b.project = None \/ (b.project = "known" /\ "project" \in c.on)

\* The project of a question is any string: only its draft looks it up.
ValidQuestion(b, c) ==
  b.project # None /\ b.question = "text" /\ b.context # "long"

Valid(r, c) ==
  /\ r.envelope = "well formed"
  /\ CASE r.kind = "content" -> ValidContent(r, c)
       [] r.kind = "tool-call" -> ValidTool(r, c)
       [] r.kind = "question" -> ValidQuestion(r, c)

\* The daemon checks with the configuration it started with, and holds the
\* record for consent; the owner's `owl allow` makes it pending.
Arrive(r) ==
  /\ rec.state = "none" /\ Valid(r, started)
  /\ rec' = [rec EXCEPT !.state = "consent", !.req = r]
  /\ UNCHANGED <<ownerVars, cmd, childVars, expired, prompt>>

Allow ==
  /\ rec.state = "consent" /\ rec' = [rec EXCEPT !.state = "pending"]
  /\ UNCHANGED <<ownerVars, cmd, childVars, expired, prompt>>

-----------------------------------------------------------------------------
(* `owl draft`: the gates, then one of three ways to a text.                *)

Goto(pc) == [cmd EXCEPT !.pc = pc]
Fail == [cmd EXCEPT !.pc = "done", !.result = "error"]

\* The command loads config.json afresh.  A flag picks or replaces a harness:
\* only a question takes one.
MayDraft(flag) ==
  /\ Loads(config)
  /\ rec.state \in {"pending", "drafted"}
  /\ flag => rec.req.kind = "question"

FirstStep(r) ==
  CASE r.kind = "question" -> "render"
    [] r.kind = "tool-call" -> "lookup"
    [] r.kind = "content" /\ r.path # None -> "rev_parse"
    [] OTHER -> "memory"

Draft(flag) ==
  /\ cmd.pc = "idle" /\ MayDraft(flag)
  /\ cmd' = [cmd EXCEPT !.pc = FirstStep(rec.req), !.conf = config]
  /\ UNCHANGED <<ownerVars, rec, childVars, expired, prompt>>

\* A harness that is off, an invalid pattern, a project without a checkout:
\* nothing is written and nothing is spawned.
MayRender == {"harness", "redact_ok", "project"} \subseteq cmd.conf.on /\ rec.req.project = "known"

\* `render_cmd` writes the prompt to a file when the template asks for one;
\* when a write fails the error leaves what was written.
Render ==
  /\ cmd.pc = "render"
  /\ \/ ~ MayRender /\ cmd' = Fail /\ UNCHANGED prompt
     \/ MayRender /\ prompt' \in BOOLEAN /\ cmd' = Goto("spawn")
     \/ MayRender /\ prompt' = TRUE /\ cmd' = [Fail EXCEPT !.result = "unrendered"]
  /\ UNCHANGED <<ownerVars, rec, childVars, expired>>

\* The registry is looked up again: the owner may have removed the tool.
LookupTool ==
  /\ cmd.pc = "lookup"
  /\ cmd' = IF "tool" \in cmd.conf.on THEN Goto("spawn") ELSE Fail
  /\ UNCHANGED <<ownerVars, rec, childVars, expired, prompt>>

\* What `draft_with` leaves of the prompt file when the run is over or could
\* not start: nothing.
PromptLeft == FALSE

\* With the child come the reader threads, the writer thread of a tool, and
\* the deadline.  A program that cannot be started ends the command.
Spawn ==
  /\ cmd.pc = "spawn"
  /\ \/ /\ cmd' = Fail /\ prompt' = PromptLeft /\ UNCHANGED childVars
     \/ /\ cmd' = Goto("wait") /\ child' = "running" /\ UNCHANGED <<orphan, wrote, got, prompt>>
        /\ \E o \in Output, e \in Errors : script' = [s \in Stream |-> IF s = "out" THEN o ELSE e]
        /\ stdin' = IF rec.req.kind = "tool-call" THEN "writing" ELSE "none"
  /\ UNCHANGED <<ownerVars, rec, expired>>

-----------------------------------------------------------------------------
(* The child, what it forks, and the threads around it.                     *)

\* Whoever holds the pipe may write, unless it is full.
Writer == child = "running" \/ orphan = "holding"

Write(s) ==
  /\ Writer /\ wrote[s] < Len(script[s]) /\ wrote[s] - got[s] < PipeCap
  /\ wrote' = [wrote EXCEPT ![s] = @ + 1]
  /\ UNCHANGED <<ownerVars, rec, cmd, child, orphan, script, got, stdin, expired, prompt>>

Fork ==
  /\ child = "running" /\ orphan = "none" /\ orphan' = "holding"
  /\ UNCHANGED <<ownerVars, rec, cmd, child, script, wrote, got, stdin, expired, prompt>>

OrphanEnds ==
  /\ orphan = "holding" /\ orphan' = "gone"
  /\ UNCHANGED <<ownerVars, rec, cmd, child, script, wrote, got, stdin, expired, prompt>>

Exit(how) ==
  /\ child = "running" /\ child' = how
  /\ UNCHANGED <<ownerVars, rec, cmd, orphan, script, wrote, got, stdin, expired, prompt>>

\* One chunk; at end of file, which needs every holder of the pipe gone, the
\* thread ends.
ReadPipe(s) ==
  /\ got[s] < wrote[s] /\ got' = [got EXCEPT ![s] = @ + 1]
  /\ UNCHANGED <<ownerVars, rec, cmd, child, orphan, script, wrote, stdin, expired, prompt>>

Eof(s) == ~ Writer /\ got[s] = wrote[s]

\* The writer thread ends when the child has read its input, or is dead.
FeedInput ==
  /\ stdin = "writing" /\ stdin' = "done"
  /\ UNCHANGED <<ownerVars, rec, cmd, child, orphan, script, wrote, got, expired, prompt>>

Expire ==
  /\ cmd.pc \in {"wait", "check"} /\ ~ expired /\ expired' = TRUE
  /\ UNCHANGED <<ownerVars, rec, cmd, childVars, prompt>>

-----------------------------------------------------------------------------
(* The poll loop of `run_with_timeout` and `wait_bounded`.                  *)

ThreadsLeftAlone == UNCHANGED <<ownerVars, rec, orphan, script, wrote, got, stdin, expired, prompt>>

\* Variant: the loop writes the input itself before it looks at the child.
MayPollOnceFed == cmd.pc = "wait" /\ stdin # "writing"
\* `try_wait` finds the child ended, or sends the loop to its deadline.
MayPoll == cmd.pc = "wait"

TryWait ==
  /\ MayPoll
  /\ cmd' = Goto(IF child = "running" THEN "check" ELSE "join out")
  /\ UNCHANGED child /\ ThreadsLeftAlone

\* Past the deadline the child is killed and reaped; one that ended since
\* `try_wait` keeps its own status, and the run still counts as timed out.
CheckDeadline ==
  /\ cmd.pc = "check"
  /\ IF expired
       THEN /\ cmd' = [Goto("take") EXCEPT !.timedOut = TRUE]
            /\ child' = IF child = "running" THEN "killed" ELSE child
       ELSE cmd' = Goto("wait") /\ UNCHANGED child
  /\ ThreadsLeftAlone

\* Variant: the threads are left to themselves here too.
JoinNobody(s) ==
  /\ cmd.pc = (IF s = "out" THEN "join out" ELSE "join err") /\ child # "running"
  /\ cmd' = Goto(IF s = "out" THEN "join err" ELSE "take")
  /\ UNCHANGED child /\ ThreadsLeftAlone

\* Only a run that ended by itself waits for its reader threads.
Join(s) ==
  /\ cmd.pc = (IF s = "out" THEN "join out" ELSE "join err") /\ Eof(s)
  /\ cmd' = Goto(IF s = "out" THEN "join err" ELSE "take")
  /\ UNCHANGED child /\ ThreadsLeftAlone

-----------------------------------------------------------------------------
(* From the capture to the draft.                                           *)

Secret == <<"k", "v", "e">>

\* Every match of the pattern becomes one mark (matches of it cannot overlap).
Matches(t) == { i \in 1 .. Len(t) - 2 : SubSeq(t, i, i + 2) = Secret }
Redact(t) ==
  LET at == Matches(t)
      marked[i \in 0 .. Len(t)] ==
        IF i = 0 THEN <<>>
        ELSE IF i \in at THEN Append(marked[i - 1], "x")
        ELSE IF {i - 1, i - 2} \cap at # {} THEN marked[i - 1]
        ELSE Append(marked[i - 1], t[i])
  IN  marked[Len(t)]

\* The text cut to the size a reply may have.
Cut(t) == SubSeq(t, 1, IF Len(t) > Cap THEN Cap ELSE Len(t))

\* The patterns first, then the cut; variant: the other way round.
RedactedAfterCut(t) == Redact(Cut(t))
CutRedacted(t) == Cut(Redact(t))

\* The answer in a harness's output, or None.  `raw` takes it whole; `result`
\* wants every line to be JSON and takes the last; `last` skips what is not.
Json(t) == SelectSeq(t, LAMBDA c : c \in {"p", "j"})
Answers(t) == SelectSeq(t, LAMBDA c : c = "p")
Extract(path, t) ==
  CASE t = <<>> -> None
    [] t # <<>> /\ path = "raw" -> t
    [] t # <<>> /\ path = "result" -> IF Json(t) = t /\ Last(t) = "p" THEN <<"p">> ELSE None
    [] t # <<>> /\ path = "last" -> IF Answers(t) = <<>> THEN None ELSE <<"p">>

\* stdout, then stderr under a line of its own.
Combined(o, e) == IF e = <<>> THEN o ELSE o \o <<"s">> \o e

Empty(t) == t = <<>>

\* What becomes of the capture.  A harness that fails without a word is an
\* error; an answer that cannot be extracted is stored as it came.
Question(o, e) ==
  LET a == Extract(cmd.conf.path, o)
  IN  CASE cmd.timedOut -> [text |-> Redact(o), status |-> "timeout"]
        [] ~ cmd.timedOut /\ Empty(o) /\ child # "success" -> None
        [] ~ cmd.timedOut /\ (~ Empty(o) \/ child = "success") /\ a = None ->
             [text |-> Redact(o), status |-> "extract_failed"]
        [] OTHER -> [text |-> Redact(a), status |-> "ok"]

\* Whatever its exit code, a tool's output is a draft; the patterns are
\* compiled only now, and an invalid one loses the run.
ToolRun(o, e) ==
  IF "redact_ok" \in cmd.conf.on
    THEN [text |-> CutRedacted(Combined(o, e)), status |-> "ok"]
    ELSE None

Made(o, e) == IF rec.req.kind = "question" THEN Question(o, e) ELSE ToolRun(o, e)

\* The buffers are taken as they are; the prompt file goes whatever the outcome.
Take ==
  /\ cmd.pc = "take"
  /\ LET d == Made(Got("out"), Got("err"))
     IN  IF d = None
           THEN cmd' = Fail /\ UNCHANGED rec
           ELSE /\ cmd' = [cmd EXCEPT !.pc = "done", !.result = d.status]
                /\ rec' = [rec EXCEPT !.state = "drafted",
                                      !.draft = [text |-> d.text, whole |-> <<>>,
                                                 truncated |-> FALSE, commit |-> None]]
  /\ prompt' = PromptLeft
  /\ UNCHANGED <<ownerVars, childVars, expired>>

-----------------------------------------------------------------------------
(* A file or a memory entry: no child of ours, no model.                    *)

\* `git rev-parse` names the commit; `cat-file` reads the blob at that commit,
\* however far HEAD has moved in between.
RevParse ==
  /\ cmd.pc = "rev_parse"
  /\ cmd' = IF "project" \in cmd.conf.on
              THEN [Goto("cat_file") EXCEPT !.commit = head] ELSE Fail
  /\ UNCHANGED <<ownerVars, rec, childVars, expired, prompt>>

\* Variant: the blob is read at the ref, resolved a second time.
ReadAtHead == head
ReadAt == cmd.commit

\* Text is stored redacted and cut, with the digest (`whole`) of the redacted
\* text before the cut, and the reply signs what is stored.
ContentDraft(t) ==
  [text |-> CutRedacted(t), whole |-> Redact(t),
   truncated |-> Len(Redact(t)) > Cap, commit |-> cmd.commit]

\* The verdict of the asker's `owl show` on such a reply: a prefix it was told
\* of, or the bytes of the digest.
VerifyLine(d) == d.truncated \/ d.text = d.whole

\* A missing object or a NUL byte is an error.
StoreContent(t) ==
  /\ IF t = None \/ ("redact_ok" \notin cmd.conf.on)
       THEN cmd' = Fail /\ UNCHANGED rec
       ELSE IF "0" \in ToSet(t)
       THEN cmd' = Fail /\ UNCHANGED rec
       ELSE /\ cmd' = [cmd EXCEPT !.pc = "done", !.result = "ok"]
            /\ rec' = [rec EXCEPT !.state = "drafted",
                                  !.draft = ContentDraft(t)]
  /\ UNCHANGED <<ownerVars, childVars, expired, prompt>>

CatFile == cmd.pc = "cat_file" /\ StoreContent(Blob[ReadAt])

\* `read_memory` asks where the store is, not whether it is shared.
ReadMemory ==
  /\ cmd.pc = "memory"
  /\ StoreContent(IF "root" \in cmd.conf.on THEN Memory ELSE None)

-----------------------------------------------------------------------------
Command ==
  \/ Render \/ LookupTool \/ Spawn \/ TryWait \/ CheckDeadline \/ Take
  \/ \E s \in Stream : Join(s)
  \/ RevParse \/ CatFile \/ ReadMemory

Owner ==
  \/ \E w \in Switches : EditConfig(w)
  \/ RestartDaemon \/ MoveHead \/ Allow
  \/ \E flag \in BOOLEAN : Draft(flag)

Child ==
  \/ Fork \/ OrphanEnds
  \/ \E s \in Stream : Write(s)
  \/ \E how \in {"success", "failure"} : Exit(how)

Next ==
  \/ Owner \/ Command \/ Child
  \/ \E r \in Request : Arrive(r)
  \/ \E s \in Stream : ReadPipe(s)
  \/ FeedInput \/ Expire

\* Time passes, our threads run; nothing is asked of the child, of what it
\* forks, of the peer or of the owner.
Fairness ==
  /\ WF_vars(Command) /\ WF_vars(Expire)
  /\ \A s \in Stream : WF_vars(ReadPipe(s))

Spec == Init /\ [][Next]_vars /\ Fairness

-----------------------------------------------------------------------------
(* Properties *)

\* Every variable keeps its type: the command is at one of its steps, no reader
\* thread is ahead of its pipe, and no pipe holds more than its capacity.
TypeOK ==
  /\ config \in Config /\ started \in Config /\ "tools_ok" \in started.on
  /\ edits \in 0 .. MaxEdits /\ head \in 1 .. Commits
  /\ rec.state \in {"none", "consent", "pending", "drafted"}
  /\ rec.req \in Request \cup {None}
  /\ rec.draft \in StoredDraft \cup {None}
  /\ cmd.pc \in {"idle", "render", "lookup", "spawn", "wait", "check", "join out", "join err",
                 "take", "rev_parse", "cat_file", "memory", "done"}
  /\ cmd.result \in {"none", "ok", "timeout", "extract_failed", "error", "unrendered"}
  /\ child \in {"none", "running"} \cup Outcome
  /\ orphan \in {"none", "holding", "gone"}
  /\ \A s \in Stream : /\ got[s] \in 0 .. wrote[s] /\ wrote[s] \in 0 .. Len(script[s])
                       /\ wrote[s] - got[s] <= PipeCap
  /\ stdin \in {"none", "writing", "done"} /\ expired \in BOOLEAN /\ prompt \in BOOLEAN

\* A run that was not cut short loses nothing: the draft is what the patterns,
\* the answer path and the cut make of everything the child, and whatever it
\* forked, wrote on its two pipes; and nobody is left to write more.
NothingMissed ==
  (cmd.pc = "done" /\ child # "none" /\ ~ cmd.timedOut) =>
     /\ ~ Writer /\ \A s \in Stream : got[s] = wrote[s]
     /\ rec.draft # None => rec.draft.text = Made(Written("out"), Written("err")).text

\* The bytes of a content draft are those of the commit it names, although
\* HEAD may move while it is made; its digest is of the whole redacted text,
\* so that an asker holding a prefix is told so and never cries tamper.
ContentAtRef ==
  (rec.draft # None /\ rec.req.kind = "content" /\ rec.req.path # None) =>
     /\ rec.draft.commit \in 1 .. head
     /\ rec.draft.whole = Redact(Blob[rec.draft.commit])
     /\ IsPrefix(rec.draft.text, rec.draft.whole) /\ VerifyLine(rec.draft)

\* No part of what a pattern matches is in a draft: the patterns run before the
\* cut, over the whole text, so a secret body is left only if the child stopped in
\* the middle of one on one of its streams.  A capture cut by the deadline is the
\* exception.
NoSecret ==
  (rec.draft # None /\ ~ cmd.timedOut /\ "v" \in ToSet(rec.draft.text)) =>
     child # "none" /\ \E s \in Stream : "v" \in ToSet(Redact(Written(s)))

\* A command that waits for its child ends, whatever the child does, as long as
\* no process the child forked holds its pipes for ever; it then leaves no child
\* of its own running and no file with the question of a peer.
DraftEnds ==
  ([]<>(orphan # "holding")) =>
     (cmd.pc = "wait" ~> cmd.pc = "done" /\ child # "running" /\ ~ prompt)

\* "Every wait is bounded ... so an orphan holding a pipe cannot block us"
\* (tools.rs).  Violated: a child that ends by itself leaves the readers to be
\* joined, and they end when the last holder of the pipe does.
WaitBounded == cmd.pc = "wait" ~> cmd.pc = "done"

=============================================================================
