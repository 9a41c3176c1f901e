---- MODULE MCDrafting ----
EXTENDS Drafting

\* One request of each way to a draft, and those the daemon refuses.
Body == [envelope |-> "well formed", kind |-> "question", project |-> "known", path |-> None,
         memory |-> None, ref |-> "HEAD", tool |-> None, input |-> None,
         question |-> None, context |-> None]
MCRequest ==
  { [Body EXCEPT !.question = "text", !.project = p, !.context = c] :
      p \in {"known", "other"}, c \in {None, "long"} }
  \cup { [Body EXCEPT !.kind = "content", !.path = p, !.ref = r] :
      p \in {"inside", "escapes"}, r \in {"HEAD", "malformed"} }
  \cup { [Body EXCEPT !.kind = "content", !.memory = m, !.project = None] : m \in {"inside", "escapes"} }
  \cup { [Body EXCEPT !.kind = "tool-call", !.tool = t, !.input = n] :
      t \in {"registered", "other"}, n \in {1, 2} }

MCConfigs == { [on |-> Switches, path |-> p] : p \in {"raw", "result", "last"} }
MCBlob == <<<<"p", "k", "v", "e">>, <<"k", "v", "e", "p", "p">>, <<"p", "0">>, None>>
MCMemory == <<"k", "v", "e">>
MCOutput == {<<>>, <<"j", "p">>, <<"k", "v", "e">>}
MCErrors == {<<>>, <<"k", "v">>}
====
