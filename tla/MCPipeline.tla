----------------------------- MODULE MCPipeline -----------------------------
(***************************************************************************)
(* A small instance of ProxyPipeline.  Either one request comes, with or     *)
(* without personal data, as a stream or not, while an administrator adds   *)
(* and removes credentials; or two requests ask the same prompt of an        *)
(* organisation that has OpenAI's credentials.                              *)
(***************************************************************************)
EXTENDS ProxyPipeline

CONSTANTS r1, r2

VARIABLE alone

Plain == [pii |-> "none", code |-> "none", sensitive |-> "none"]

\* Requests from the United States are local: the code reports them so.
Ask(prompt, stream, provider, country, findings, rest) ==
  [prompt |-> prompt, rest |-> rest, stream |-> stream, provider |-> provider,
   origin |-> [local |-> country = "US", country |-> country, region |-> "NA"],
   findings |-> findings]

MCAsks ==
  {Ask("greeting", FALSE, "openai", "US", Plain, "none"),
   Ask("greeting", TRUE, "openai", "US", Plain, "high"),
   Ask("card", FALSE, "anthropic", "US", [Plain EXCEPT !.pii = "high"], "none"),
   Ask("card", TRUE, "openai", "CN", [Plain EXCEPT !.pii = "high"], "low")}

\* Countries and regions that may share a key of a policy have one list here.
Lenient ==
  [active |-> TRUE, pii |-> "warn", code |-> "allow", sensitive |-> "warn",
   blocked |-> {}, allowed |-> [c \in Countries \cup Regions |-> <<>>]]

MCPolicies ==
  {Lenient, [Lenient EXCEPT !.pii = "redact", !.blocked = {"CN"}]}

MCMeasure ==
  [text \in [prompt : {"greeting", "card"}, redacted : BOOLEAN] |->
     [category |-> IF text.redacted THEN "qa" ELSE "chat", tokens |-> 20,
      marks |-> {"jargon"}]]

\* No rules; a rule for a provider that is no longer known, one for a generic one.
MCRuleSets ==
  {<<>>, <<[conditions |-> {<<"category", "qa">>}, target |-> <<"mistral", "large">>],
           [conditions |-> {<<"tenant", "null">>}, target |-> <<"bedrock", "nova">>]>>}

MCTests ==
  {[shadow |-> FALSE, A |-> Gpt4o, B |-> Sonnet],
   [shadow |-> TRUE, A |-> Gpt4o, B |-> Sonnet]}

MCInit ==
  /\ Init /\ alone \in BOOLEAN
  /\ req[IF alone THEN r2 ELSE r1].ask = Ask("greeting", FALSE, "openai", "US", Plain, "none")
  /\ ~alone => req[r2].ask.prompt = "greeting"
  /\ ~alone => configs = {"openai"}

Comes(r) == alone => r = r1

MCNext ==
  /\ \/ \E r \in Requests : Comes(r) /\ Handle(r)
     \/ \E task \in tasks : RunTask(task)
     \/ alone /\ Configure
  /\ UNCHANGED alone

\* The event loop goes on: every call has a time-out, every task gets its turn.
MCFairness ==
  /\ \A r \in Requests : WF_vars(Comes(r) /\ Handle(r))
  /\ \A r \in Requests, k \in TaskKinds :
       WF_vars(Task(k, r) \in tasks /\ RunTask(Task(k, r)))

MCSpec == MCInit /\ [][MCNext]_<<vars, alone>> /\ MCFairness
=============================================================================
