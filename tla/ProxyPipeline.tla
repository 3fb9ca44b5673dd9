---------------------------- MODULE ProxyPipeline ----------------------------
(***************************************************************************)
(* A proxied request from the security policy to its log rows: execute_proxy *)
(* with its fallback chain, the stream wrapper of the endpoints, and the     *)
(* background tasks they leave behind.  Requests interleave at every await   *)
(* and with an administrator who adds and removes provider credentials.      *)
(* The budget gate, the cache and the A/B tests have modules of their own;   *)
(* here each contributes what a request gets from it.                        *)
(***************************************************************************)
EXTENDS RouteRules, PolicyRules

CONSTANTS
  Requests,   \* proxied requests, each handled once
  Asks,       \* what a request may ask: its prompt (the first user message) and
              \* what the detectors find in it, the personal data they would find
              \* in the rest, whether it streams, its provider and origin
  Policies,   \* the policies the organisation may have when it is screened
  Measure,    \* what the prompt classifier makes of each text
  RuleSets,   \* the active routing rules, in the order of their priorities
  Tests,      \* A/B tests that may be active
  Credentials,\* sets of providers the organisation may have credentials for
  Removable   \* providers whose credentials an administrator adds and removes

ASSUME PipeAssumption == Policies \subseteq Policy

\* "nobody" stands for no provider.
ASSUME CredentialsAssumption ==
  "nobody" \notin Removable /\ \A set \in Credentials : "nobody" \notin set

ASSUME MeasureAssumption ==
  \A text \in DOMAIN Measure : Measure[text] \in Prompt(STRING, Nat)

VARIABLES
  req,        \* what the handler of each request knows
  rows,       \* rows of the five tables a request writes to
  tasks,      \* background tasks in flight
  sent,       \* history: what has reached a provider, and for which request
  cache,      \* cached answers
  configs     \* providers with active credentials

vars == <<req, rows, tasks, sent, cache, configs>>

-----------------------------------------------------------------------------
Known == {"openai", "anthropic", "gemini", "azure_openai", "bedrock"}

\* Providers without a URL of their own: base_url may be missing.
Generic == {"bedrock"}

Free == <<"free", "free">>  \* the cost of a call that is not charged

Nobody == <<"nobody", "nobody">>

TaskKinds == {"violations", "hit", "store", "savings", "shadow", "log"}

Unread == [action |-> "allow", redacted |-> FALSE, violations |-> {}]

\* The texts that stand for a prompt: itself and its redacted form.
Text(prompt, redacted) == [prompt |-> prompt, redacted |-> redacted]

Start(ask) ==
  [ask |-> ask, at |-> "new", verdict |-> Unread, text |-> Text(ask.prompt, FALSE),
   chain |-> <<>>, next |-> 1, had |-> {}, steady |-> {}, test |-> {},
   by |-> Nobody, status |-> 0, cost |-> Free, attributed |-> FALSE]

Init ==
  /\ req \in [Requests -> {Start(ask) : ask \in Asks}]
  /\ rows = {} /\ tasks = {} /\ sent = {} /\ cache = {}
  /\ configs \in Credentials

At(r, stage) == req[r].at = stage

Task(kind, r) == [kind |-> kind, request |-> r]

\* asyncio.create_task and BackgroundTasks.add_task.
Spawn(kinds, r) == tasks' = tasks \cup {Task(k, r) : k \in kinds}

Become(r, new) == req' = [req EXCEPT ![r] = new]

\* A result that leaves execute_proxy.
Result(q, status) == [q EXCEPT !.at = "respond", !.status = status]

\* Mutant: the messages are sent as the client gave them.
PayloadAsGiven(q) == [text |-> Text(q.ask.prompt, FALSE), rest |-> q.ask.rest]

\* What is sent on: the first user message is replaced, the other messages and
\* the parameters are as the client gave them.
Payload(q) == [text |-> q.text, rest |-> q.ask.rest]

\* run_shadow_request sends the first user message alone.
ShadowPayload(q) == [text |-> q.text, rest |-> "none"]

Sent(r, target, payload) ==
  [request |-> r, target |-> target, text |-> payload.text, rest |-> payload.rest]

-----------------------------------------------------------------------------
\* PolicyEngine.evaluate, the task that saves its violations, the block.
Screen(r) ==
  \E policy \in Policies :
    LET q == req[r]
        verdict == Evaluate(policy, q.ask.origin, q.ask.provider, q.ask.findings)
        screened == [q EXCEPT !.verdict = verdict,
                              !.text = Text(q.ask.prompt, verdict.redacted)]
    IN  /\ At(r, "new")
        /\ Become(r, IF verdict.action = "block" THEN Result(screened, 403)
                     ELSE [screened EXCEPT !.at = "gate"])
        /\ Spawn(IF verdict.violations = {} THEN {} ELSE {"violations"}, r)
        /\ UNCHANGED <<rows, sent, cache, configs>>

\* resolve_attribution and check_budget let the request pass.
Admit(r) ==
  /\ At(r, "gate")
  /\ Become(r, [req[r] EXCEPT !.at = "lookup"])
  /\ UNCHANGED <<rows, tasks, sent, cache, configs>>

\* A hard budget is exceeded.
Refuse(r) ==
  /\ At(r, "gate")
  /\ Become(r, Result(req[r], 429))
  /\ UNCHANGED <<rows, tasks, sent, cache, configs>>

\* The attribution is written into every result from here on.
Attributed(q) == [q EXCEPT !.attributed = TRUE]

Hit(r) ==
  \E entry \in cache :
    /\ At(r, "lookup") /\ entry.text = req[r].text
    /\ Become(r, Attributed(Result([req[r] EXCEPT !.by = entry.target], 200)))
    /\ Spawn({"hit"}, r)
    /\ UNCHANGED <<rows, sent, cache, configs>>

\* There is no answer, or it has expired or cannot be read.
Miss(r) ==
  /\ At(r, "lookup")
  /\ Become(r, [req[r] EXCEPT !.at = "choose"])
  /\ UNCHANGED <<rows, tasks, sent, cache, configs>>

\* An active test decides: a shadow test answers with variant A.
ChooseByTest(r) ==
  \E test \in Tests, variant \in {"A", "B"} :
    /\ At(r, "choose") /\ (test.shadow => variant = "A")
    /\ Become(r, [req[r] EXCEPT !.at = "call", !.test = {test},
                                !.chain = <<test[variant]>>,
                                !.had = configs, !.steady = configs])
    /\ UNCHANGED <<rows, tasks, sent, cache, configs>>

\* PromptClassifier.classify and SmartRouter.route decide.
ChooseByRules(r) ==
  \E rules \in RuleSets :
    LET target == Primary(rules, Measure[req[r].text])
    IN  /\ At(r, "choose")
        /\ Become(r, [req[r] EXCEPT !.at = "call", !.chain = Chain(target, configs),
                                    !.had = configs, !.steady = configs])
        /\ UNCHANGED <<rows, tasks, sent, cache, configs>>

-----------------------------------------------------------------------------
Target(q) == q.chain[q.next]

MayCall(r) == At(r, "call") /\ req[r].next <= Len(req[r].chain)

\* A failure that lets execute_proxy try the next target.
Fallback(q) == [q EXCEPT !.next = @ + 1]

\* No active credentials, or no URL for a generic provider.
NoCredentials(r) ==
  /\ MayCall(r) /\ Target(req[r])[1] \in Known
  /\ Target(req[r])[1] \notin configs \ Generic
  /\ Become(r, Fallback(req[r]))
  /\ UNCHANGED <<rows, tasks, sent, cache, configs>>

CallsUp(r) ==
  /\ MayCall(r) /\ Target(req[r])[1] \in configs
  /\ sent' = sent \cup {Sent(r, Target(req[r]), Payload(req[r]))}

\* A time-out, a network failure, status 429, 500, 502, 503 or 504.
Unavailable(r) ==
  /\ CallsUp(r)
  /\ Become(r, Fallback(req[r]))
  /\ UNCHANGED <<rows, tasks, cache, configs>>

\* Any other status than 200 is the client's answer.
Rejected(r) ==
  /\ CallsUp(r)
  /\ Become(r, Attributed(Result([req[r] EXCEPT !.by = Target(req[r])], 400)))
  /\ UNCHANGED <<rows, tasks, cache, configs>>

\* Mutant: the cost is the one of the target the request was routed to.
CostOfRoute(q) == IF q.ask.stream THEN Free ELSE q.chain[1]

\* The cost of a stream is not known before it ends.
CostOf(q) == IF q.ask.stream THEN Free ELSE Target(q)

Answered(r) ==
  /\ CallsUp(r)
  /\ Become(r, [req[r] EXCEPT !.at = "settle", !.by = Target(req[r]), !.status = 200,
                              !.cost = CostOf(req[r])])
  /\ UNCHANGED <<rows, tasks, cache, configs>>

\* Mutant: a chain that is exhausted is tried again.
ExhaustedRetries(r) ==
  /\ At(r, "call") /\ req[r].next > Len(req[r].chain)
  /\ Become(r, [req[r] EXCEPT !.next = 1])
  /\ UNCHANGED <<rows, tasks, sent, cache, configs>>

\* The loop's else branch.
Exhausted(r) ==
  /\ At(r, "call") /\ req[r].next > Len(req[r].chain)
  /\ Become(r, Attributed(Result(req[r], 502)))
  /\ UNCHANGED <<rows, tasks, sent, cache, configs>>

\* Everything else leaves execute_proxy as an exception: a database that fails,
\* a provider no enum knows, a key that cannot be decrypted.
Raise(r) ==
  /\ req[r].at \in {"new", "gate", "lookup", "choose", "call"}
  /\ Become(r, [req[r] EXCEPT !.at = "over", !.status = 500])
  /\ UNCHANGED <<rows, tasks, sent, cache, configs>>

-----------------------------------------------------------------------------
Row(table, r, status, cost, attributed) ==
  [table |-> table, request |-> r, status |-> status, cost |-> cost,
   attributed |-> attributed]

Reroutes(q) == {test \in q.test : test.shadow}

\* After status 200: the answer is stored unless it streams or has no text, the
\* sample of a test is recorded, or not, and what was saved is logged.
Settle(r) ==
  \E hasText, recorded \in BOOLEAN :
    LET q == req[r]
    IN  /\ At(r, "settle") /\ (recorded => q.test # {})
        /\ Become(r, Attributed(Result(q, 200)))
        /\ rows' = IF ~recorded THEN rows
                    ELSE rows \cup {Row("ab_test_results", r, 200, q.cost, FALSE)}
        /\ Spawn({"savings"} \cup (IF hasText /\ ~q.ask.stream THEN {"store"} ELSE {})
                   \cup (IF Reroutes(q) # {} THEN {"shadow"} ELSE {}), r)
        /\ UNCHANGED <<sent, cache, configs>>

Streams(q) == q.ask.stream /\ q.status = 200

\* The endpoint: a plain answer is logged by a task that runs after it.
Respond(r) ==
  LET q == req[r]
  IN  /\ At(r, "respond")
      /\ Become(r, [q EXCEPT !.at = IF Streams(q) THEN "stream" ELSE "over"])
      /\ Spawn(IF Streams(q) THEN {} ELSE {"log"}, r)
      /\ UNCHANGED <<rows, sent, cache, configs>>

FromCache(q) == q.chain = <<>> /\ q.by # Nobody

LogRow(q, r) == Row("requests_log", r, q.status, q.cost, q.attributed)

\* stream_with_logging: its finally charges what was streamed and writes the
\* row, unless that fails or is cancelled with the rest.
EndOfStream(r, status) ==
  \E logged \in BOOLEAN :
    LET q == [req[r] EXCEPT !.at = "over", !.status = status, !.cost = req[r].by]
    IN  /\ At(r, "stream") /\ Become(r, q)
        /\ rows' = IF logged THEN rows \cup {LogRow(q, r)} ELSE rows
        /\ UNCHANGED <<tasks, sent, cache, configs>>

\* The provider has sent everything, or the client has left.
StreamEnds(r) == ~FromCache(req[r]) /\ EndOfStream(r, 200)

\* The provider fails; or the answer is the cache's, which is a dict and no
\* generator, and fails at once.
StreamBreaks(r) == EndOfStream(r, 502)

-----------------------------------------------------------------------------
End(task) == tasks' = tasks \ {task}

\* An answer is personal if its prompt was redacted or a violation says so.
Personal(q) ==
  q.verdict.action = "redact" \/ \E v \in q.verdict.violations : v.kind = "pii"

SaveViolations(task) ==
  /\ task.kind = "violations" /\ End(task)
  /\ rows' = rows \cup {Row("security_violations", task.request, 0, Free, FALSE)}
  /\ UNCHANGED <<req, sent, cache, configs>>

\* SemanticCache.store.
Store(task) ==
  LET q == req[task.request]
  IN  /\ task.kind = "store" /\ End(task)
      /\ cache' = IF Personal(q) THEN cache ELSE
                  cache \cup {[text |-> q.text, target |-> q.by]}
      /\ UNCHANGED <<req, rows, sent, configs>>

\* log_cache_hit_bg and log_cost_savings_bg, with the cost they were given.
LogSavings(task) ==
  LET q == req[task.request]
  IN  /\ task.kind \in {"hit", "savings"} /\ End(task)
      /\ rows' = rows \cup {Row("cost_savings_log", task.request, 200,
                               IF q.ask.stream THEN Free ELSE q.cost, FALSE)}
      /\ UNCHANGED <<req, sent, cache, configs>>

\* run_shadow_request: variant B is called, if it has credentials and a URL.
RunShadow(task) ==
  \E test \in Reroutes(req[task.request]), called, answered \in BOOLEAN :
    LET r == task.request
    IN  /\ task.kind = "shadow" /\ End(task)
        /\ called => test.B[1] \in configs
        /\ test.B[1] \in configs \ Generic => called
        /\ sent' = IF called THEN sent \cup {Sent(r, test.B, ShadowPayload(req[r]))}
                             ELSE sent
        /\ rows' = IF called /\ answered
                   THEN rows \cup {Row("shadow_results", r, 200, test.B, FALSE)}
                   ELSE rows
        /\ UNCHANGED <<req, cache, configs>>

\* log_proxy_transaction as a background task.
LogTransaction(task) ==
  /\ task.kind = "log" /\ End(task)
  /\ rows' = rows \cup {LogRow(req[task.request], task.request)}
  /\ UNCHANGED <<req, sent, cache, configs>>

\* A task fails, and logs that it did, or dies with the process.
Lose(task) == End(task) /\ UNCHANGED <<req, rows, sent, cache, configs>>

\* An administrator adds or removes credentials.
Configure ==
  \E p \in Removable :
    /\ configs' = IF p \in configs THEN configs \ {p} ELSE configs \cup {p}
    /\ req' = [r \in Requests |-> [req[r] EXCEPT !.steady = @ \cap configs']]
    /\ UNCHANGED <<rows, tasks, sent, cache>>

Handle(r) ==
  \/ Screen(r) \/ Admit(r) \/ Refuse(r) \/ Hit(r) \/ Miss(r)
  \/ ChooseByTest(r) \/ ChooseByRules(r)
  \/ NoCredentials(r) \/ Unavailable(r) \/ Rejected(r) \/ Answered(r)
  \/ Exhausted(r) \/ Raise(r)
  \/ Settle(r) \/ Respond(r)
  \/ StreamEnds(r) \/ StreamBreaks(r)

RunTask(task) ==
  \/ SaveViolations(task) \/ Store(task) \/ LogSavings(task)
  \/ RunShadow(task) \/ LogTransaction(task) \/ Lose(task)

Next ==
  \/ \E r \in Requests : Handle(r)
  \/ \E task \in tasks : RunTask(task)
  \/ Configure

PipeSpec == Init /\ [][Next]_vars

-----------------------------------------------------------------------------
\* Whatever reaches a provider, first choice, fallback or shadow, carries for the
\* first user message the text the policy left: redacted if it said so; and
\* nothing of a refused request.
FirstMessageIsScreened ==
  \A s \in sent :
    LET q == req[s.request]
    IN  /\ q.verdict.action # "block" /\ q.status \notin {403, 429}
        /\ q.verdict.action = "redact" => s.text.redacted

\* What the docstring of PolicyEngine says, the compliance check of outbound
\* prompts: where every policy acts on personal data, none reaches a provider
\* unreported.  execute_proxy gives the engine the first user message only.
PromptsAreScreened ==
  (\A policy \in Policies : policy.active /\ policy.pii # "allow") =>
     \A s \in sent : s.rest # "none" =>
       \E v \in req[s.request].verdict.violations : v.kind = "pii"

\* No target is tried twice for one request.
ChainHasNoRepeats ==
  \A r \in Requests : \A i, j \in DOMAIN req[r].chain :
    req[r].chain[i] = req[r].chain[j] => i = j

\* Target t has been called for request r.
Reached(r, t) == \E s \in sent : s.request = r /\ s.target = t

\* A request fails for want of a provider only after calling every target of its
\* chain that has a URL and whose credentials were kept; and, if rules routed it
\* and no credentials it had were removed, not without a call if it had OpenAI's
\* or Anthropic's.
FailedOnlyAfterTrying ==
  \A r \in Requests : req[r].status = 502 /\ req[r].by = Nobody =>
    LET q == req[r]
    IN  /\ \A i \in DOMAIN q.chain :
             q.chain[i][1] \in q.steady \ Generic => Reached(r, q.chain[i])
        /\ q.test = {} /\ q.had = q.steady /\ q.had \cap {"openai", "anthropic"} # {} =>
             \E s \in sent : s.request = r

\* Every logged request that passed the gate is attributed, whoever answered.
LoggedIsAttributed ==
  \A row \in rows :
    row.table = "requests_log" /\ row.status \notin {403, 429} => row.attributed

\* A request is logged at most once, and not at all if an exception ended it.
LoggedOnce ==
  \A r \in Requests :
    LET logged == {row \in rows : row.table = "requests_log" /\ row.request = r}
        logging == {task \in tasks : task = Task("log", r)}
    IN  Cardinality(logged) + Cardinality(logging) <= IF req[r].status = 500 THEN 0 ELSE 1

\* Each request is logged once and attributed, whatever is charged was called
\* for it; the log, the savings and the sample of a plain request agree on what
\* it cost, and a hit is free.
BooksAgree ==
  /\ LoggedOnce /\ LoggedIsAttributed
  /\ \A row \in rows :
       row.cost = Free \/ FromCache(req[row.request]) \/ Reached(row.request, row.cost)
  /\ \A one, other \in {row \in rows : ~req[row.request].ask.stream /\ row.table \in
         {"requests_log", "cost_savings_log", "ab_test_results"}} :
       one.request = other.request => one.cost = other.cost
  /\ \A row \in rows :
       FromCache(req[row.request]) /\ ~req[row.request].ask.stream => row.cost = Free

\* Every request that came ends, and all it started in the background runs or
\* fails.
EveryRequestSettles ==
  <>[](tasks = {} /\ \A r \in Requests : req[r].at \in {"new", "over"})

\* What a comment of execute_proxy says: an answer of the cache is in the form
\* its client expects.  The stream wrapper logs it as failed.
HitIsServed ==
  \A row \in rows :
    row.table = "requests_log" /\ FromCache(req[row.request]) => row.status = 200
=============================================================================
