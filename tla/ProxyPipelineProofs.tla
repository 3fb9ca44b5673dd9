------------------------ MODULE ProxyPipelineProofs ------------------------
(***************************************************************************)
(* What the policy decides and where a request may go, for every policy,    *)
(* prompt and rule; and, for every set of requests, policies, rules, tests  *)
(* and credentials: the first user message leaves only as it was screened,  *)
(* no target is tried twice, what is logged is attributed, the books agree  *)
(* and no target is given up untried.                                       *)
(***************************************************************************)
EXTENDS ProxyPipeline, RulesProofs, FiniteSetTheorems, TLAPS

-----------------------------------------------------------------------------
(* The invariant. *)

Fields == {"ask", "at", "verdict", "text", "chain", "next", "had", "steady", "test",
           "by", "status", "cost", "attributed"}

Shaped == DOMAIN req = Requests /\ \A r \in Requests : DOMAIN req[r] = Fields

\* What is known of a request, wherever it is.
Sound(q) ==
  /\ q.text.redacted = q.verdict.redacted
  /\ q.verdict.action = "redact" => q.verdict.redacted = TRUE
  /\ q.verdict.action = "block" => q.at \in {"respond", "over"} /\ q.status = 403
  /\ q.at \in {"new", "gate", "lookup", "choose", "call"} => q.status = 0
  /\ q.at \in {"settle", "stream"} => q.status = 200
  /\ q.at \in {"new", "gate", "lookup", "choose"} => q.test = {}
  /\ q.at \in {"respond", "stream"} => q.status \in {403, 429} \/ q.attributed = TRUE
  /\ NoRepeats(q.chain)

\* A request that has been let through, and stays so.
Through(q) ==
  /\ q.at \notin {"new", "gate", "lookup", "choose"}
  /\ q.status \notin {403, 429} /\ q.verdict.action # "block"

Finished(q) == q.at = "over" /\ (q.status \in {403, 429} \/ q.attributed = TRUE)

TaskOK(task) ==
  /\ task.request \in Requests /\ req[task.request].at # "new"
  /\ task.kind = "log" => Finished(req[task.request])

SentOK(s) ==
  /\ s.request \in Requests /\ Through(req[s.request])
  /\ s.text = req[s.request].text

PipeInv ==
  /\ Shaped
  /\ \A r \in Requests : Sound(req[r]) /\ (req[r].test # {} => Through(req[r]))
  /\ \A task \in tasks : TaskOK(task)
  /\ \A s \in sent : SentOK(s)
  /\ LoggedIsAttributed

\* What a step of a handler may do to its request: never take it back.
Onward(q, n) ==
  /\ DOMAIN n = Fields /\ Sound(n) /\ q.at # "over" /\ n.at # "new"
  /\ q.at # "new" => n.verdict = q.verdict /\ n.text = q.text
  /\ Through(q) => Through(n)
  /\ n.test # q.test => Through(n)

\* And what it may leave behind.
Leaves(r, n) ==
  /\ \A task \in tasks' : task \in tasks \/
       (task.request = r /\ (task.kind = "log" => Finished(n)))
  /\ \A s \in sent' : s \in sent \/ (s.request = r /\ s.text = n.text /\ Through(n))
  /\ \A row \in rows' : row \in rows \/ row.table # "requests_log"
                        \/ row.status \in {403, 429} \/ row.attributed = TRUE
  /\ cache' = cache

\* Moving on along the chain keeps the invariant.
LEMMA OnwardInv ==
  ASSUME PipeInv, NEW r \in Requests, NEW n, Become(r, n), Onward(req[r], n), Leaves(r, n)
  PROVE  PipeInv'
<1>1. /\ Shaped' /\ req'[r] = n
      /\ \A s \in Requests \ {r} : req'[s] = req[s]
  BY DEF PipeInv, Shaped, Become, Onward
<1>2. \A s \in Requests : /\ Sound(req'[s]) /\ (Through(req[s]) => Through(req'[s]))
                          /\ (req[s].at # "new" => /\ req'[s].at # "new"
                                                   /\ req'[s].verdict = req[s].verdict
                                                   /\ req'[s].text = req[s].text)
                          /\ (req[s].at = "over" => req'[s] = req[s])
                          /\ (req'[s].test # {} => Through(req'[s]))
  BY <1>1 DEF PipeInv, Onward
<1>3. \A task \in tasks' : TaskOK(task)'
  <2>1. SUFFICES ASSUME NEW task \in tasks'  PROVE TaskOK(task)'
    OBVIOUS
  <2>2. CASE task \in tasks
    BY <1>2, <2>2 DEF PipeInv, TaskOK, Finished
  <2>3. CASE task \notin tasks
    BY <1>1, <2>1, <2>3 DEF Leaves, TaskOK, Onward
  <2>. QED
    BY <2>2, <2>3
<1>4. \A s \in sent' : SentOK(s)'
  <2>1. SUFFICES ASSUME NEW s \in sent'  PROVE SentOK(s)'
    OBVIOUS
  <2>2. CASE s \in sent
    BY <1>2, <2>2 DEF PipeInv, SentOK, Through
  <2>3. CASE s \notin sent
    BY <1>1, <2>1, <2>3 DEF Leaves, SentOK
  <2>. QED
    BY <2>2, <2>3
<1>5. LoggedIsAttributed'
  BY DEF PipeInv, Leaves, LoggedIsAttributed
<1>. QED
  BY <1>1, <1>2, <1>3, <1>4, <1>5 DEF PipeInv

\* What a screened request may become, whatever the verdict.
LEMMA ScreenBecomes ==
  ASSUME NEW r \in Requests, Screen(r)
  PROVE  /\ \E verdict, text, n :
              LET screened == [req[r] EXCEPT !.verdict = verdict, !.text = text]
              IN  /\ At(r, "new") /\ Become(r, n)
                  /\ n = Result(screened, 403) \/ n = [screened EXCEPT !.at = "gate"]
         /\ \E K \in SUBSET {"violations"} : Spawn(K, r)
         /\ UNCHANGED <<rows, sent, cache, configs>>
<1>1. PICK policy \in Policies :
        LET q == req[r]
            verdict == Evaluate(policy, q.ask.origin, q.ask.provider, q.ask.findings)
            screened == [q EXCEPT !.verdict = verdict,
                                  !.text = Text(q.ask.prompt, verdict.redacted)]
        IN  /\ At(r, "new")
            /\ Become(r, IF verdict.action = "block" THEN Result(screened, 403)
                         ELSE [screened EXCEPT !.at = "gate"])
            /\ Spawn(IF verdict.violations = {} THEN {} ELSE {"violations"}, r)
            /\ UNCHANGED <<rows, sent, cache, configs>>
  BY DEF Screen
<1>. DEFINE q == req[r]
            verdict == Evaluate(policy, q.ask.origin, q.ask.provider, q.ask.findings)
            text == Text(q.ask.prompt, verdict.redacted)
            screened == [q EXCEPT !.verdict = verdict, !.text = text]
            n == IF verdict.action = "block" THEN Result(screened, 403)
                 ELSE [screened EXCEPT !.at = "gate"]
            K == IF verdict.violations = {} THEN {} ELSE {"violations"}
<1>2. /\ At(r, "new") /\ Become(r, n) /\ Spawn(K, r) /\ UNCHANGED <<rows, sent, cache, configs>>
  BY <1>1
<1>3. n = Result(screened, 403) \/ n = [screened EXCEPT !.at = "gate"]
  OBVIOUS
<1>4. K \in SUBSET {"violations"}
  OBVIOUS
<1>. HIDE DEF n, K, verdict, text, q
<1>5. \E v, t, m :
        LET x == [req[r] EXCEPT !.verdict = v, !.text = t]
        IN  /\ At(r, "new") /\ Become(r, m)
            /\ m = Result(x, 403) \/ m = [x EXCEPT !.at = "gate"]
  BY <1>2, <1>3, Zenon DEF q
<1>6. \E k \in SUBSET {"violations"} : Spawn(k, r)
  BY <1>2, <1>4, Zenon
<1>7. UNCHANGED <<rows, sent, cache, configs>>
  BY <1>2
<1>. QED
  BY <1>5, <1>6, <1>7, Zenon

\* The stages up to the choice of a chain.
LEMMA ScreenInv ==
  ASSUME PipeInv, PipeAssumption, NEW r \in Requests, Screen(r)
  PROVE  PipeInv'
<1>1. PICK policy \in Policies :
        LET q == req[r]
            verdict == Evaluate(policy, q.ask.origin, q.ask.provider, q.ask.findings)
            screened == [q EXCEPT !.verdict = verdict,
                                  !.text = Text(q.ask.prompt, verdict.redacted)]
        IN  /\ At(r, "new")
            /\ Become(r, IF verdict.action = "block" THEN Result(screened, 403)
                         ELSE [screened EXCEPT !.at = "gate"])
            /\ Spawn(IF verdict.violations = {} THEN {} ELSE {"violations"}, r)
            /\ UNCHANGED <<rows, sent, cache, configs>>
  BY DEF Screen
<1>. DEFINE q == req[r]
            verdict == Evaluate(policy, q.ask.origin, q.ask.provider, q.ask.findings)
            screened == [q EXCEPT !.verdict = verdict,
                                  !.text = Text(q.ask.prompt, verdict.redacted)]
            n == IF verdict.action = "block" THEN Result(screened, 403)
                 ELSE [screened EXCEPT !.at = "gate"]
<1>2. DOMAIN q = Fields /\ Sound(q) /\ q.at = "new"
  BY <1>1 DEF PipeInv, Shaped, At
<1>3. verdict.action = "redact" => verdict.redacted = TRUE
  BY <1>1, RedactionIsDone DEF PipeAssumption, Policy, Decides
<1>. HIDE DEF verdict, q
<1>4. /\ DOMAIN screened = Fields /\ screened.verdict = verdict /\ screened.at = "new"
      /\ screened.text.redacted = verdict.redacted /\ screened.status = 0
      /\ screened.test = {} /\ screened.chain = q.chain
  BY <1>2 DEF Fields, Text, Sound
<1>. HIDE DEF screened
<1>5. /\ DOMAIN n = Fields /\ n.verdict = verdict /\ n.text = screened.text /\ n.test = {}
      /\ n.chain = q.chain
      /\ IF verdict.action = "block" THEN n.at = "respond" /\ n.status = 403
         ELSE n.at = "gate" /\ n.status = 0
  BY <1>4 DEF Fields, Result
<1>. HIDE DEF n
<1>6. Onward(q, n)
  BY <1>2, <1>3, <1>4, <1>5 DEF Onward, Sound, Through
<1>7. Become(r, n)
  BY <1>1 DEF n, screened, verdict, q
<1>8. UNCHANGED <<rows, sent, cache>> /\ \E K \in SUBSET {"violations"} : Spawn(K, r)
  BY <1>1
<1>9. Leaves(r, n)
  BY <1>8 DEF Leaves, Spawn, Task
<1>. QED
  BY <1>6, <1>7, <1>9, OnwardInv, Zenon DEF q

\* A step that starts no task and calls nobody.
LEMMA QuietLeaves ==
  ASSUME NEW r, NEW n, UNCHANGED <<rows, tasks, sent, cache>>
  PROVE  Leaves(r, n)
BY DEF Leaves

\* What most steps keep of a request.
FieldsStay(q, n) ==
  /\ DOMAIN n = Fields /\ n.verdict = q.verdict /\ n.text = q.text /\ n.test = q.test
  /\ n.chain = q.chain

Waited(q, n) ==
  /\ FieldsStay(q, n)
  /\ \/ q.at = "gate" /\ n.at = "lookup" /\ n.status = q.status
     \/ q.at = "gate" /\ n.at = "respond" /\ n.status = 429
     \/ q.at = "lookup" /\ n.at = "choose" /\ n.status = q.status
     \/ /\ q.at \in {"new", "gate", "lookup", "choose", "call"}
        /\ n.at = "over" /\ n.status = 500

\* The steps up to the choice of a target keep the invariant.
LEMMA BeforeChoiceInv ==
  ASSUME PipeInv, NEW r \in Requests, Admit(r) \/ Refuse(r) \/ Miss(r) \/ Raise(r)
  PROVE  PipeInv'
<1>. DEFINE q == req[r]
<1>1. DOMAIN q = Fields /\ Sound(q) /\ (q.test # {} => Through(q))
  BY DEF PipeInv, Shaped
<1>2. UNCHANGED <<rows, tasks, sent, cache>>
  BY DEF Admit, Refuse, Miss, Raise
<1>3. \E n : Become(r, n) /\ Waited(q, n)
  <2>1. CASE Admit(r)
    <3>1. Waited(q, [q EXCEPT !.at = "lookup"])
      BY <1>1, <2>1 DEF Admit, At, Waited, FieldsStay, Fields
    <3>. QED
      BY <2>1, <3>1 DEF Admit
  <2>2. CASE Refuse(r)
    <3>1. Waited(q, Result(q, 429))
      BY <1>1, <2>2 DEF Refuse, At, Result, Waited, FieldsStay, Fields
    <3>. QED
      BY <2>2, <3>1 DEF Refuse
  <2>3. CASE Miss(r)
    <3>1. Waited(q, [q EXCEPT !.at = "choose"])
      BY <1>1, <2>3 DEF Miss, At, Waited, FieldsStay, Fields
    <3>. QED
      BY <2>3, <3>1 DEF Miss
  <2>4. CASE Raise(r)
    <3>1. Waited(q, [q EXCEPT !.at = "over", !.status = 500])
      BY <1>1, <2>4 DEF Raise, Waited, FieldsStay, Fields
    <3>. QED
      BY <2>4, <3>1 DEF Raise
  <2>. QED
    BY <2>1, <2>2, <2>3, <2>4
<1>4. PICK n : Become(r, n) /\ Waited(q, n)
  BY <1>3
<1>. HIDE DEF q
<1>5. Onward(q, n)
  BY <1>1, <1>4 DEF Waited, FieldsStay, Onward, Sound, Through
<1>. QED
  BY <1>2, <1>4, <1>5, QuietLeaves, OnwardInv DEF q

\* Answering from the cache keeps the invariant.
LEMMA HitInv ==
  ASSUME PipeInv, NEW r \in Requests, Hit(r)
  PROVE  PipeInv'
<1>. DEFINE q == req[r]
<1>1. DOMAIN q = Fields /\ Sound(q) /\ q.at = "lookup"
  BY DEF PipeInv, Shaped, Hit, At
<1>2. PICK n, by : /\ Become(r, n) /\ Spawn({"hit"}, r) /\ UNCHANGED <<rows, sent, cache>>
                   /\ n = [[[q EXCEPT !.by = by] EXCEPT !.at = "respond", !.status = 200]
                             EXCEPT !.attributed = TRUE]
  BY DEF Hit, Result, Attributed
<1>. HIDE DEF q
<1>3. /\ DOMAIN n = Fields /\ n.verdict = q.verdict /\ n.text = q.text /\ n.test = q.test
      /\ n.chain = q.chain /\ n.at = "respond" /\ n.status = 200 /\ n.attributed = TRUE
  BY <1>1, <1>2 DEF Fields
<1>4. Onward(q, n)
  BY <1>1, <1>3 DEF Onward, Sound, Through
<1>5. Leaves(r, n)
  BY <1>2 DEF Leaves, Spawn, Task
<1>. QED
  BY <1>2, <1>4, <1>5, OnwardInv DEF q

\* A test or the rules choose the chain.
LEMMA ChoiceInv ==
  ASSUME PipeInv, NEW r \in Requests, ChooseByTest(r) \/ ChooseByRules(r)
  PROVE  PipeInv'
<1>. DEFINE q == req[r]
<1>1. DOMAIN q = Fields /\ Sound(q) /\ q.at = "choose"
  BY DEF PipeInv, Shaped, ChooseByTest, ChooseByRules, At
<1>2. PICK n, chain, test :
        /\ Become(r, n) /\ UNCHANGED <<rows, tasks, sent, cache>> /\ NoRepeats(chain)
        /\ n = [q EXCEPT !.at = "call", !.test = test, !.chain = chain,
                      !.had = configs, !.steady = configs]
  <2>1. CASE ChooseByTest(r)
    <3>1. PICK test, target :
            /\ UNCHANGED <<rows, tasks, sent, cache>>
            /\ Become(r, [q EXCEPT !.at = "call", !.test = {test}, !.chain = <<target>>,
                                   !.had = configs, !.steady = configs])
      BY <2>1 DEF ChooseByTest
    <3>2. NoRepeats(<<target>>)
      BY DEF NoRepeats
    <3>. QED
      BY <3>1, <3>2
  <2>2. CASE ChooseByRules(r)
    <3>1. PICK target :
            /\ UNCHANGED <<rows, tasks, sent, cache>>
            /\ Become(r, [q EXCEPT !.at = "call", !.chain = Chain(target, configs),
                                   !.had = configs, !.steady = configs])
      BY <2>2 DEF ChooseByRules
    <3>2. [q EXCEPT !.at = "call", !.chain = Chain(target, configs), !.had = configs,
                    !.steady = configs]
          = [q EXCEPT !.at = "call", !.test = q.test, !.chain = Chain(target, configs),
                      !.had = configs, !.steady = configs]
      BY <1>1 DEF Fields
    <3>. QED
      BY <3>1, <3>2, ChainRepeatsNothing
  <2>. QED
    BY <2>1, <2>2
<1>. HIDE DEF q
<1>3. /\ DOMAIN n = Fields /\ n.verdict = q.verdict /\ n.text = q.text /\ n.chain = chain
      /\ n.at = "call" /\ n.status = q.status
  BY <1>1, <1>2 DEF Fields
<1>4. Onward(q, n)
  BY <1>1, <1>2, <1>3 DEF Onward, Sound, Through
<1>. QED
  BY <1>2, <1>4, QuietLeaves, OnwardInv DEF q

\* The calls of a chain, from its first target to its end.
Called(q, n) ==
  /\ FieldsStay(q, n)
  /\ \/ n.at = "call" /\ n.status = 0
     \/ n.at = "settle" /\ n.status = 200
     \/ n.at = "respond" /\ n.status \in {400, 502} /\ n.attributed = TRUE

\* A call of a provider, whatever it returns, keeps the invariant.
LEMMA CallInv ==
  ASSUME PipeInv, NEW r \in Requests,
         NoCredentials(r) \/ Unavailable(r) \/ Rejected(r) \/ Answered(r) \/ Exhausted(r)
  PROVE  PipeInv'
<1>. DEFINE q == req[r]
<1>1. DOMAIN q = Fields /\ Sound(q) /\ (q.test # {} => Through(q)) /\ q.at = "call"
  BY DEF PipeInv, Shaped, NoCredentials, Unavailable, Rejected, Answered, Exhausted, CallsUp,
         MayCall, At
<1>2. q.verdict.action # "block" /\ q.status = 0 /\ Through(q)
  BY <1>1 DEF Sound, Through
<1>3. /\ UNCHANGED <<rows, tasks, cache>>
      /\ \A s \in sent' : s \in sent \/ (s.request = r /\ s.text = q.text)
  BY DEF NoCredentials, Unavailable, Rejected, Answered, Exhausted, CallsUp, Sent, Payload
<1>4. \E n : Become(r, n) /\ Called(q, n)
  <2>1. CASE NoCredentials(r) \/ Unavailable(r)
    <3>1. Called(q, Fallback(q))
      BY <1>1, <1>2 DEF Called, FieldsStay, Fallback, Fields
    <3>. QED
      BY <2>1, <3>1 DEF NoCredentials, Unavailable
  <2>2. CASE Rejected(r)
    <3>. DEFINE n == Attributed(Result([q EXCEPT !.by = Target(q)], 400))
    <3>1. Called(q, n)
      BY <1>1 DEF Called, FieldsStay, Attributed, Result, Fields
    <3>2. Become(r, n)
      BY <2>2 DEF Rejected
    <3>. QED
      BY <3>1, <3>2
  <2>3. CASE Answered(r)
    <3>. DEFINE n == [q EXCEPT !.at = "settle", !.by = Target(q), !.status = 200,
                               !.cost = CostOf(q)]
    <3>1. Called(q, n)
      BY <1>1 DEF Called, FieldsStay, Fields
    <3>2. Become(r, n)
      BY <2>3 DEF Answered
    <3>. QED
      BY <3>1, <3>2
  <2>4. CASE Exhausted(r)
    <3>1. Called(q, Attributed(Result(q, 502)))
      BY <1>1 DEF Called, FieldsStay, Attributed, Result, Fields
    <3>. QED
      BY <2>4, <3>1 DEF Exhausted
  <2>. QED
    BY <2>1, <2>2, <2>3, <2>4
<1>5. PICK n : Become(r, n) /\ Called(q, n)
  BY <1>4
<1>. HIDE DEF q
<1>6. Onward(q, n) /\ Through(n)
  BY <1>1, <1>2, <1>5 DEF Called, FieldsStay, Onward, Sound, Through
<1>7. Leaves(r, n)
  BY <1>3, <1>5, <1>6 DEF Leaves, Called, FieldsStay
<1>. QED
  BY <1>5, <1>6, <1>7, OnwardInv DEF q

\* Settling a request on its answer keeps the invariant.
LEMMA SettleInv ==
  ASSUME PipeInv, NEW r \in Requests, Settle(r)
  PROVE  PipeInv'
<1>. DEFINE q == req[r]
<1>1. DOMAIN q = Fields /\ Sound(q) /\ q.at = "settle"
  BY DEF PipeInv, Shaped, Settle, At
<1>2. PICK n : n = Attributed(Result(q, 200)) /\ Become(r, n)
  BY DEF Settle
<1>3. /\ \E K \in SUBSET {"savings", "store", "shadow"} : Spawn(K, r)
      /\ \A row \in rows' : row \in rows \/ row.table # "requests_log"
      /\ UNCHANGED <<sent, cache>>
  <2>1. PICK hasText \in BOOLEAN, recorded \in BOOLEAN :
          /\ rows' = IF ~recorded THEN rows
                      ELSE rows \cup {Row("ab_test_results", r, 200, q.cost, FALSE)}
          /\ Spawn({"savings"} \cup (IF hasText /\ ~q.ask.stream THEN {"store"} ELSE {})
                     \cup (IF Reroutes(q) # {} THEN {"shadow"} ELSE {}), r)
          /\ UNCHANGED <<sent, cache>>
    BY DEF Settle
  <2>2. \A row \in rows' : row \in rows \/ row.table # "requests_log"
    BY <2>1 DEF Row
  <2>3. {"savings"} \cup (IF hasText /\ ~q.ask.stream THEN {"store"} ELSE {})
          \cup (IF Reroutes(q) # {} THEN {"shadow"} ELSE {}) \in SUBSET {"savings", "store", "shadow"}
    OBVIOUS
  <2>. QED
    BY <2>1, <2>2, <2>3
<1>. HIDE DEF q
<1>4. /\ DOMAIN n = Fields /\ n.verdict = q.verdict /\ n.text = q.text /\ n.test = q.test
      /\ n.chain = q.chain /\ n.at = "respond" /\ n.status = 200 /\ n.attributed = TRUE
  BY <1>1, <1>2 DEF Fields, Attributed, Result
<1>5. Onward(q, n)
  BY <1>1, <1>4 DEF Onward, Sound, Through
<1>6. Leaves(r, n)
  BY <1>3 DEF Leaves, Spawn, Task
<1>. QED
  BY <1>2, <1>5, <1>6, OnwardInv DEF q

\* The endpoint answers, and a stream ends one way or the other.
LEMMA RespondInv ==
  ASSUME PipeInv, NEW r \in Requests, Respond(r)
  PROVE  PipeInv'
<1>. DEFINE q == req[r]
<1>1. DOMAIN q = Fields /\ Sound(q) /\ q.at = "respond" /\ (q.test # {} => Through(q))
  BY DEF PipeInv, Shaped, Respond, At
<1>2. PICK n : /\ n = [q EXCEPT !.at = IF Streams(q) THEN "stream" ELSE "over"]
               /\ Become(r, n) /\ UNCHANGED <<rows, sent, cache>>
               /\ Spawn(IF Streams(q) THEN {} ELSE {"log"}, r)
  BY DEF Respond
<1>. HIDE DEF q
<1>3. /\ DOMAIN n = Fields /\ n.verdict = q.verdict /\ n.text = q.text /\ n.test = q.test
      /\ n.chain = q.chain /\ n.status = q.status /\ n.attributed = q.attributed
      /\ \/ n.at = "stream" /\ q.status = 200 /\ Streams(q)
         \/ n.at = "over" /\ ~Streams(q)
  BY <1>1, <1>2 DEF Fields, Streams
<1>4. Onward(q, n)
  BY <1>1, <1>3 DEF Onward, Sound, Through
<1>5. Leaves(r, n)
  <2>1. Streams(q) => tasks' = tasks
    BY <1>2 DEF Spawn
  <2>2. ~Streams(q) => Finished(n) /\ tasks' = tasks \cup {Task("log", r)}
    BY <1>1, <1>2, <1>3 DEF Spawn, Finished, Sound
  <2>. QED
    BY <1>2, <2>1, <2>2 DEF Leaves, Task
<1>. QED
  BY <1>2, <1>4, <1>5, OnwardInv DEF q

\* The steps of a stream keep the invariant.
LEMMA StreamInv ==
  ASSUME PipeInv, NEW r \in Requests, StreamEnds(r) \/ StreamBreaks(r)
  PROVE  PipeInv'
<1>. DEFINE q == req[r]
<1>1. PICK status \in {200, 502} : EndOfStream(r, status)
  BY DEF StreamEnds, StreamBreaks
<1>2. DOMAIN q = Fields /\ Sound(q) /\ q.at = "stream" /\ (q.test # {} => Through(q))
  BY <1>1 DEF PipeInv, Shaped, EndOfStream, At
<1>3. PICK n : /\ n = [q EXCEPT !.at = "over", !.status = status, !.cost = q.by]
               /\ Become(r, n) /\ UNCHANGED <<tasks, sent, cache>>
               /\ (rows' = rows \/ rows' = rows \cup {LogRow(n, r)})
  BY <1>1 DEF EndOfStream
<1>. HIDE DEF q
<1>4. /\ DOMAIN n = Fields /\ n.verdict = q.verdict /\ n.text = q.text /\ n.test = q.test
      /\ n.chain = q.chain /\ n.status = status /\ n.attributed = q.attributed /\ n.at = "over"
  BY <1>2, <1>3 DEF Fields
<1>5. Onward(q, n) /\ n.attributed = TRUE
  BY <1>2, <1>4 DEF Onward, Sound, Through
<1>6. Leaves(r, n)
  BY <1>3, <1>5 DEF Leaves, LogRow, Row
<1>. QED
  BY <1>3, <1>5, <1>6, OnwardInv DEF q

-----------------------------------------------------------------------------
\* The background tasks keep the invariant.
LEMMA TaskInv ==
  ASSUME PipeInv, NEW task \in tasks, RunTask(task)
  PROVE  PipeInv'
<1>1. req' = req /\ tasks' \in SUBSET tasks
  BY DEF RunTask, SaveViolations, Store, LogSavings, RunShadow, LogTransaction, Lose, End
<1>2. Shaped' /\ \A r \in Requests : Sound(req'[r]) /\ (req'[r].test # {} => Through(req'[r]))
  BY <1>1 DEF PipeInv, Shaped
<1>3. \A t \in tasks' : TaskOK(t)'
  BY <1>1 DEF PipeInv, TaskOK
<1>4. \A s \in sent' : SentOK(s)'
  <2>1. CASE sent' = sent
    BY <1>1, <2>1 DEF PipeInv, SentOK
  <2>2. CASE RunShadow(task)
    <3>1. PICK test \in Reroutes(req[task.request]) :
            \/ sent' = sent
            \/ sent' = sent \cup
                 {Sent(task.request, test.B, ShadowPayload(req[task.request]))}
      BY <2>2 DEF RunShadow
    <3>2. task.request \in Requests /\ Through(req[task.request])
      BY <3>1 DEF PipeInv, TaskOK, Reroutes
    <3>3. SentOK(Sent(task.request, test.B, ShadowPayload(req[task.request])))
      BY <3>2 DEF SentOK, Sent, ShadowPayload
    <3>. QED
      BY <1>1, <3>1, <3>3 DEF PipeInv, SentOK
  <2>. QED
    BY <2>1, <2>2 DEF RunTask, SaveViolations, Store, LogSavings, LogTransaction, Lose
<1>5. LoggedIsAttributed'
  <2>1. \A row \in rows' : row \in rows \/ row.table # "requests_log"
                           \/ row.status \in {403, 429} \/ row.attributed = TRUE
    <3>1. CASE LogTransaction(task)
      <4>1. Finished(req[task.request])
        BY <3>1 DEF LogTransaction, PipeInv, TaskOK
      <4>. QED
        BY <3>1, <4>1 DEF LogTransaction, LogRow, Row, Finished
    <3>2. CASE SaveViolations(task)
      BY <3>2 DEF SaveViolations, Row
    <3>3. CASE LogSavings(task)
      BY <3>3 DEF LogSavings, Row
    <3>4. CASE RunShadow(task)
      BY <3>4 DEF RunShadow, Row
    <3>5. CASE Store(task) \/ Lose(task)
      BY <3>5 DEF Store, Lose
    <3>. QED
      BY <3>1, <3>2, <3>3, <3>4, <3>5 DEF RunTask
  <2>. QED
    BY <2>1 DEF PipeInv, LoggedIsAttributed
<1>. QED
  BY <1>2, <1>3, <1>4, <1>5 DEF PipeInv

\* An administrator changes no request but what is remembered of its providers.
LEMMA ConfigureInv ==
  ASSUME PipeInv, Configure
  PROVE  PipeInv'
<1>1. /\ req' = [r \in Requests |-> [req[r] EXCEPT !.steady = @ \cap configs']]
      /\ UNCHANGED <<rows, tasks, sent, cache>>
  BY DEF Configure
<1>2. \A r \in Requests : DOMAIN req[r] = Fields
  BY DEF PipeInv, Shaped
<1>3. \A r \in Requests :
        /\ FieldsStay(req[r], req'[r]) /\ req'[r].at = req[r].at /\ req'[r].status = req[r].status
        /\ req'[r].attributed = req[r].attributed
  BY <1>1, <1>2 DEF FieldsStay, Fields
<1>4. Shaped' /\ \A r \in Requests : Sound(req'[r]) /\ (req'[r].test # {} => Through(req'[r]))
  BY <1>1, <1>3 DEF PipeInv, Shaped, FieldsStay, Sound, Through
<1>5. (\A t \in tasks' : TaskOK(t)') /\ (\A s \in sent' : SentOK(s)')
  BY <1>1, <1>3 DEF PipeInv, FieldsStay, TaskOK, Finished, SentOK, Through
<1>6. LoggedIsAttributed'
  BY <1>1 DEF PipeInv, LoggedIsAttributed
<1>. QED
  BY <1>4, <1>5, <1>6 DEF PipeInv

\* The invariant holds initially.
LEMMA PipeInitInv ==
  ASSUME Init
  PROVE  PipeInv
<1>1. \A ask : DOMAIN Start(ask) = Fields /\ Sound(Start(ask)) /\ Start(ask).test = {}
  <2>1. NoRepeats(<<>>)
    BY DEF NoRepeats
  <2>2. SUFFICES ASSUME NEW ask, NEW q, q = Start(ask)
                 PROVE  DOMAIN q = Fields /\ Sound(q) /\ q.test = {}
    OBVIOUS
  <2>3. DOMAIN q = Fields /\ q.at = "new" /\ q.text.redacted = FALSE
        /\ q.verdict.action = "allow" /\ q.verdict.redacted = FALSE
        /\ q.status = 0 /\ q.test = {} /\ q.chain = <<>>
    BY <2>2 DEF Start, Fields, Text, Unread
  <2>. QED
    BY <2>1, <2>3 DEF Sound
<1>2. DOMAIN req = Requests /\ \A r \in Requests : \E ask \in Asks : req[r] = Start(ask)
  BY DEF Init
<1>3. Shaped /\ \A r \in Requests : Sound(req[r]) /\ req[r].test = {}
  BY <1>1, <1>2 DEF Shaped
<1>. QED
  BY <1>3 DEF Init, PipeInv, LoggedIsAttributed

\* The inductive invariant holds in every behaviour of the pipeline.
THEOREM PipeInvariant == PipeSpec => []PipeInv
<1>1. Init => PipeInv
  BY PipeInitInv
<1>2. PipeInv /\ [Next]_vars => PipeInv'
  <2>1. SUFFICES ASSUME PipeInv, [Next]_vars  PROVE PipeInv'
    OBVIOUS
  <2>2. CASE UNCHANGED vars
    BY <2>1, <2>2 DEF vars, PipeInv, Shaped, TaskOK, Finished, SentOK, LoggedIsAttributed
  <2>3. CASE \E r \in Requests : Handle(r)
    BY <2>1, <2>3, PipeAssumption, ScreenInv, BeforeChoiceInv, HitInv, ChoiceInv, CallInv,
       SettleInv, RespondInv, StreamInv DEF Handle
  <2>4. CASE \E task \in tasks : RunTask(task)
    BY <2>1, <2>4, TaskInv
  <2>5. CASE Configure
    BY <2>1, <2>5, ConfigureInv
  <2>. QED
    BY <2>1, <2>2, <2>3, <2>4, <2>5 DEF Next
<1>. QED
  BY <1>1, <1>2, PTL DEF PipeSpec

\* Whatever the policies, rules and tests, and however requests, background
\* tasks and administrators interleave: execute_proxy, its fallbacks and
\* run_shadow_request send for the first user message only what the policy left
\* of it.
THEOREM FirstMessageLeavesScreened == PipeSpec => []FirstMessageIsScreened
<1>1. PipeInv => FirstMessageIsScreened
  BY DEF PipeInv, SentOK, Sound, Through, FirstMessageIsScreened
<1>. QED
  BY <1>1, PipeInvariant, PTL

\* Whatever target the rules name, SmartRouter's chain has it and its fallbacks
\* and its last resort once.
THEOREM NoTargetTwice == PipeSpec => []ChainHasNoRepeats
<1>1. PipeInv => ChainHasNoRepeats
  BY DEF PipeInv, Sound, NoRepeats, ChainHasNoRepeats
<1>. QED
  BY <1>1, PipeInvariant, PTL

\* Whichever way a request went after the gate, its row in requests_log has the
\* team and project it was attributed to.
THEOREM LogsAreAttributed == PipeSpec => []LoggedIsAttributed
<1>1. PipeInv => LoggedIsAttributed
  BY DEF PipeInv
<1>. QED
  BY <1>1, PipeInvariant, PTL

-----------------------------------------------------------------------------
(* The books, and what was tried. *)

Answering == {"respond", "stream", "over"}

\* What is known of a request's answer and its cost.
Booked(r) ==
  LET q == req[r]
  IN  /\ q.at \in {"new", "gate", "lookup", "choose"} => q.chain = <<>>
      /\ q.at \in {"new", "gate", "lookup", "choose", "call"} => q.by = Nobody /\ q.cost = Free
      /\ q.at \in {"call", "settle"} \/ q.test # {} => q.chain # <<>>
      /\ q.status = 200 => q.by # Nobody /\ (FromCache(q) \/ Reached(r, q.by))
      /\ q.cost = Free \/ FromCache(q) \/ Reached(r, q.cost)
      /\ FromCache(q) /\ ~q.ask.stream => q.cost = Free
      /\ q.at = "stream" => q.ask.stream
      /\ q.at = "respond" => q.status # 500

\* And of the targets it has tried: all before the next one whose credentials
\* were kept.
Tried(r) ==
  LET q == req[r]
  IN  /\ q.steady \subseteq configs
      /\ DOMAIN q.chain = 1 .. Len(q.chain) /\ Len(q.chain) \in Nat /\ q.next \in Nat
      /\ q.at \in {"new", "gate", "lookup", "choose"} => q.next = 1
      /\ q.at = "call" =>
           \A i \in DOMAIN q.chain :
             i < q.next /\ q.chain[i][1] \in q.steady \ Generic => Reached(r, q.chain[i])
      /\ q.status = 502 /\ q.by = Nobody =>
           q.chain # <<>> /\
           \A i \in DOMAIN q.chain : q.chain[i][1] \in q.steady \ Generic => Reached(r, q.chain[i])
      /\ q.chain # <<>> /\ q.test = {} /\ q.had \cap {"openai", "anthropic"} # {} =>
           \E i \in DOMAIN q.chain : q.chain[i][1] \in q.had \ Generic

Books == {"requests_log", "cost_savings_log", "ab_test_results"}

\* A row is of what was called for its request, and agrees with its cost; the
\* log row is the request's, and no task is going to write another.
RowBooked(row) ==
  LET q == req[row.request]
  IN  /\ row.request \in Requests
      /\ row.cost = Free \/ FromCache(q) \/ Reached(row.request, row.cost)
      /\ row.table \in Books \/ row.cost # Free => q.at \in Answering
      /\ row.table \in Books /\ ~q.ask.stream => row.cost = q.cost
      /\ FromCache(q) /\ ~q.ask.stream => row.cost = Free
      /\ row.table = "requests_log" =>
           /\ q.at = "over" /\ q.status # 500 /\ row = LogRow(q, row.request)
           /\ Task("log", row.request) \notin tasks

TaskBooked(task) ==
  /\ task.request \in Requests /\ task = Task(task.kind, task.request)
  /\ task.kind # "violations" => req[task.request].at \in Answering
  /\ task.kind = "log" => req[task.request].at = "over" /\ req[task.request].status # 500
  /\ task.kind = "store" => req[task.request].by # Nobody

BooksInv ==
  /\ "nobody" \notin configs
  /\ \A r \in Requests : Booked(r) /\ Tried(r)
  /\ \A row \in rows : RowBooked(row)
  /\ \A task \in tasks : TaskBooked(task)
  /\ \A entry \in cache : entry.target # Nobody

\* A step leaves alone all of a request but some fields.
Alters(q, n, fields) == DOMAIN n = Fields /\ \A f \in Fields \ fields : n[f] = q[f]

\* What a step of a handler does to the books: an answer stays as it was given.
Moves(q, n) ==
  /\ q.at # "over" /\ n.ask = q.ask
  /\ q.at \in Answering => /\ n.at \in Answering /\ n.by = q.by /\ n.chain = q.chain
                           /\ q.ask.stream \/ n.cost = q.cost

\* A handler's step: its own request, rows and tasks are what remains to be shown.
LEMMA BooksStep ==
  ASSUME BooksInv, Shaped, NEW r \in Requests, NEW n, Become(r, n), Moves(req[r], n),
         UNCHANGED <<cache, configs>>, sent \subseteq sent', Booked(r)', Tried(r)',
         \A row \in rows' : row \in rows \/ RowBooked(row)',
         \A task \in tasks' : task \in tasks \/ (task.request = r /\ TaskBooked(task)')
  PROVE  BooksInv'
<1>1. req'[r] = n /\ \A s \in Requests : s # r => req'[s] = req[s]
  BY DEF Shaped, Become
<1>2. \A s, t : Reached(s, t) => Reached(s, t)'
  BY DEF Reached
<1>3. \A s \in Requests : Booked(s)' /\ Tried(s)'
  <2>. SUFFICES ASSUME NEW s \in Requests, s # r PROVE Booked(s)' /\ Tried(s)'
    OBVIOUS
  <2>1. req'[s] = req[s] /\ Booked(s) /\ Tried(s)
    BY <1>1 DEF BooksInv
  <2>2. Booked(s)'
    BY <1>2, <2>1 DEF Booked
  <2>3. Tried(s)'
    BY <1>2, <2>1 DEF Tried
  <2> QED BY <2>2, <2>3
<1>4. \A row \in rows' : RowBooked(row)'
  <2>. SUFFICES ASSUME NEW row \in rows PROVE RowBooked(row)'
    OBVIOUS
  <2>1. RowBooked(row) /\ row.request \in Requests
    BY DEF BooksInv, RowBooked
  <2>2. CASE row.request # r
    <3>1. req'[row.request] = req[row.request]
      BY <1>1, <2>1, <2>2
    <3>2. Task("log", row.request) \in tasks' => Task("log", row.request) \in tasks
      BY <2>2 DEF Task
    <3> QED BY <1>2, <2>1, <3>1, <3>2 DEF RowBooked
  <2>3. CASE row.request = r
    <3>1. row.table # "requests_log"
      BY <2>1, <2>3 DEF RowBooked, Moves
    <3>2. CASE req[r].at \in Answering
      <4>1. FromCache(req'[r]) <=> FromCache(req[r])
        BY <1>1, <3>2 DEF Moves, FromCache
      <4> QED BY <1>1, <1>2, <2>1, <2>3, <3>1, <3>2, <4>1 DEF RowBooked, Moves
    <3>3. CASE req[r].at \notin Answering
      <4>1. row.table \notin Books /\ row.cost = Free
        BY <2>1, <2>3, <3>3 DEF RowBooked
      <4> QED BY <2>1, <3>1, <4>1 DEF RowBooked
    <3> QED BY <3>2, <3>3
  <2> QED BY <2>2, <2>3
<1>5. \A task \in tasks' : TaskBooked(task)'
  <2>. SUFFICES ASSUME NEW task \in tasks PROVE TaskBooked(task)'
    OBVIOUS
  <2>1. TaskBooked(task) /\ task.request \in Requests
    BY DEF BooksInv, TaskBooked
  <2>2. CASE task.request # r
    BY <1>1, <2>1, <2>2 DEF TaskBooked
  <2>3. CASE task.request = r
    BY <1>1, <2>1, <2>3 DEF TaskBooked, Moves, Answering
  <2> QED BY <2>2, <2>3
<1> QED BY <1>3, <1>4, <1>5 DEF BooksInv

\* Up to the choice of a target nothing is called, charged or logged.
LEMMA EarlyBooks ==
  ASSUME PipeInv, BooksInv, NEW r \in Requests,
         Screen(r) \/ Admit(r) \/ Refuse(r) \/ Miss(r) \/ Raise(r)
  PROVE  BooksInv'
<1>. DEFINE q == req[r]
<1>1. /\ Shaped /\ DOMAIN q = Fields /\ Sound(q) /\ Booked(r) /\ Tried(r)
  BY DEF PipeInv, Shaped, BooksInv
<1>2. \E n : /\ Become(r, n) /\ Alters(q, n, {"verdict", "text", "at", "status"})
             /\ q.at \in {"new", "gate", "lookup", "choose", "call"}
             /\ \/ n.at \in {"gate", "lookup", "choose"} /\ n.status = q.status /\ q.at # "call"
                \/ n.at = "respond" /\ n.status \in {403, 429}
                \/ n.at = "over" /\ n.status = 500
  <2>1. CASE Screen(r)
    <3>1. PICK verdict, text, n :
            LET screened == [q EXCEPT !.verdict = verdict, !.text = text]
            IN  /\ At(r, "new") /\ Become(r, n)
                /\ n = Result(screened, 403) \/ n = [screened EXCEPT !.at = "gate"]
      BY <2>1, ScreenBecomes
    <3>. DEFINE screened == [q EXCEPT !.verdict = verdict, !.text = text]
    <3>. HIDE DEF q
    <3>2. DOMAIN screened = Fields /\ \A f \in Fields \ {"verdict", "text"} : screened[f] = q[f]
      BY <1>1 DEF Fields
    <3>. HIDE DEF screened
    <3>3. CASE n = Result(screened, 403)
      <4>1. Alters(q, n, {"verdict", "text", "at", "status"})
        BY <3>2, <3>3 DEF Alters, Fields, Result
      <4>2. n.at = "respond" /\ n.status = 403
        BY <3>2, <3>3 DEF Fields, Result
      <4> QED BY <3>1, <4>1, <4>2 DEF At, q
    <3>4. CASE n = [screened EXCEPT !.at = "gate"]
      <4>1. Alters(q, n, {"verdict", "text", "at", "status"})
        BY <3>2, <3>4 DEF Alters, Fields
      <4>2. n.at = "gate" /\ n.status = q.status
        BY <3>2, <3>4 DEF Fields
      <4> QED BY <3>1, <4>1, <4>2 DEF At, q
    <3> QED BY <3>1, <3>3, <3>4, Zenon DEF screened
  <2>2. CASE Admit(r)
    <3>. DEFINE n == [q EXCEPT !.at = "lookup"]
    <3>1. Alters(q, n, {"verdict", "text", "at", "status"}) /\ n.at = "lookup"
          /\ n.status = q.status
      BY <1>1 DEF Alters, Fields
    <3> QED BY <2>2, <3>1 DEF Admit, At
  <2>3. CASE Refuse(r)
    <3>. DEFINE n == Result(q, 429)
    <3>1. Alters(q, n, {"verdict", "text", "at", "status"}) /\ n.at = "respond"
          /\ n.status = 429
      BY <1>1 DEF Alters, Fields, Result
    <3> QED BY <2>3, <3>1 DEF Refuse, At
  <2>4. CASE Miss(r)
    <3>. DEFINE n == [q EXCEPT !.at = "choose"]
    <3>1. Alters(q, n, {"verdict", "text", "at", "status"}) /\ n.at = "choose"
          /\ n.status = q.status
      BY <1>1 DEF Alters, Fields
    <3> QED BY <2>4, <3>1 DEF Miss, At
  <2>5. CASE Raise(r)
    <3>. DEFINE n == [q EXCEPT !.at = "over", !.status = 500]
    <3>1. Alters(q, n, {"verdict", "text", "at", "status"}) /\ n.at = "over"
          /\ n.status = 500
      BY <1>1 DEF Alters, Fields
    <3>2. Become(r, n) /\ q.at \in {"new", "gate", "lookup", "choose", "call"}
      BY <2>5 DEF Raise
    <3>. HIDE DEF n, q
    <3> QED BY <3>1, <3>2
  <2> QED BY <2>1, <2>2, <2>3, <2>4, <2>5
<1>3. PICK n : /\ Become(r, n) /\ Alters(q, n, {"verdict", "text", "at", "status"})
               /\ q.at \in {"new", "gate", "lookup", "choose", "call"}
               /\ \/ n.at \in {"gate", "lookup", "choose"} /\ n.status = q.status /\ q.at # "call"
                  \/ n.at = "respond" /\ n.status \in {403, 429}
                  \/ n.at = "over" /\ n.status = 500
  BY <1>2
<1>4. /\ n.ask = q.ask /\ n.chain = q.chain /\ n.by = q.by /\ n.cost = q.cost
      /\ n.test = q.test /\ n.had = q.had /\ n.steady = q.steady /\ n.next = q.next
      /\ req'[r] = n
  BY <1>1, <1>3 DEF Alters, Fields, Become, Shaped
<1>5. /\ UNCHANGED <<rows, sent, cache, configs>>
      /\ \A task \in tasks' : task \in tasks \/ task = Task("violations", r)
  <2>1. CASE Screen(r)
    <3>1. PICK K \in SUBSET {"violations"} : Spawn(K, r)
      BY <2>1, ScreenBecomes
    <3> QED BY <2>1, <3>1, ScreenBecomes DEF Spawn
  <2>2. CASE Admit(r) \/ Refuse(r) \/ Miss(r) \/ Raise(r)
    BY <2>2 DEF Admit, Refuse, Miss, Raise
  <2> QED BY <2>1, <2>2, Zenon
<1>. HIDE DEF q
<1>6. q.status = 0
  BY <1>1, <1>3 DEF Sound
<1>7. Booked(r)'
  BY <1>1, <1>3, <1>4, <1>6 DEF Booked, FromCache, q
<1>8. Tried(r)'
  BY <1>1, <1>3, <1>4, <1>5, <1>6 DEF Tried, q
<1>9. Moves(q, n)
  BY <1>3, <1>4 DEF Moves, Answering
<1>10. \A task \in tasks' : task \in tasks \/ (task.request = r /\ TaskBooked(task)')
  BY <1>5 DEF Task, TaskBooked
<1> QED BY <1>1, <1>3, <1>5, <1>7, <1>8, <1>9, <1>10, BooksStep DEF q

\* A hit is free and names a target.
LEMMA HitBooks ==
  ASSUME PipeInv, BooksInv, NEW r \in Requests, Hit(r)
  PROVE  BooksInv'
<1>. DEFINE q == req[r]
<1>1. Shaped /\ DOMAIN q = Fields /\ Booked(r) /\ Tried(r) /\ q.at = "lookup"
  BY DEF PipeInv, Shaped, BooksInv, Hit, At
<1>2. PICK n, by : /\ Become(r, n) /\ Spawn({"hit"}, r) /\ by # Nobody
                   /\ UNCHANGED <<rows, sent, cache, configs>>
                   /\ n = [[[q EXCEPT !.by = by] EXCEPT !.at = "respond", !.status = 200]
                             EXCEPT !.attributed = TRUE]
  BY DEF Hit, Result, Attributed, BooksInv
<1>. HIDE DEF q
<1>3. /\ n.ask = q.ask /\ n.chain = q.chain /\ n.by = by /\ n.cost = q.cost
      /\ n.test = q.test /\ n.had = q.had /\ n.steady = q.steady /\ n.next = q.next
      /\ n.at = "respond" /\ n.status = 200 /\ req'[r] = n
  BY <1>1, <1>2 DEF Fields, Become, Shaped
<1>4. Booked(r)'
  BY <1>1, <1>2, <1>3 DEF Booked, FromCache, q
<1>5. Tried(r)'
  BY <1>1, <1>2, <1>3 DEF Tried, Booked, q
<1>6. Moves(q, n)
  BY <1>1, <1>3 DEF Moves, Answering
<1>7. \A task \in tasks' : task \in tasks \/ (task.request = r /\ TaskBooked(task)')
  <2>1. \A task \in tasks' : task \in tasks \/ task = Task("hit", r)
    BY <1>2 DEF Spawn
  <2>2. TaskBooked(Task("hit", r))'
    BY <1>3 DEF Task, TaskBooked, Answering
  <2> QED BY <2>1, <2>2 DEF Task
<1>8. sent \subseteq sent' /\ \A row \in rows' : row \in rows
  BY <1>2
<1>9. Become(r, n) /\ UNCHANGED <<cache, configs>> /\ Moves(req[r], n)
  BY <1>2, <1>6 DEF q
<1>. HIDE DEF q
<1> QED BY <1>1, <1>4, <1>5, <1>7, <1>8, <1>9, BooksStep

\* The chain of SmartRouter is a sequence, and reaches a provider there is.
LEMMA ChainReaches ==
  ASSUME NEW t, NEW active
  PROVE  /\ DOMAIN Chain(t, active) = 1 .. Len(Chain(t, active))
         /\ Len(Chain(t, active)) \in Nat /\ Chain(t, active) # <<>>
         /\ active \cap {"openai", "anthropic"} # {} =>
              \E i \in DOMAIN Chain(t, active) : Chain(t, active)[i][1] \in active \ Generic
<1>1. PICK x, y : Fallbacks(t) = <<x, y>>
  BY TwoFallbacks
<1>. DEFINE last == LastResort(t, active)
<1>2. last = <<>> \/ last = <<Gpt4o>> \/ last = <<Sonnet>>
  BY DEF LastResort
<1>3. active \cap {"openai", "anthropic"} # {} /\ t[1] \notin active \ Generic =>
        \E z : last = <<z>> /\ z[1] \in active \ Generic
  BY DEF LastResort, Gpt4o, Sonnet, Generic
<1>4. Chain(t, active) = <<t>> \o <<x, y>> \o
        (IF \E i \in DOMAIN last : Occurs(last[i], <<x, y>>) THEN <<>> ELSE last)
  BY <1>1 DEF Chain
<1>. HIDE DEF last
<1>5. CASE \E i \in DOMAIN last : Occurs(last[i], <<x, y>>)
  <2>1. PICK s : s = Chain(t, active)
    OBVIOUS
  <2>2. s = <<t>> \o <<x, y>> \o <<>>
    BY <1>4, <1>5, <2>1
  <2>3. Len(s) = 3 /\ DOMAIN s = 1 .. 3 /\ s[1] = t /\ s[2] = x /\ s[3] = y
    BY <2>2
  <2>4. \A z : last = <<z>> => z \in {x, y}
    BY <1>5 DEF Occurs
  <2>5. active \cap {"openai", "anthropic"} # {} => \E i \in DOMAIN s : s[i][1] \in active \ Generic
    BY <1>3, <2>3, <2>4
  <2> QED BY <2>1, <2>3, <2>5
<1>6. CASE ~ \E i \in DOMAIN last : Occurs(last[i], <<x, y>>)
  <2>1. PICK s : s = Chain(t, active)
    OBVIOUS
  <2>2. s = <<t>> \o <<x, y>> \o last
    BY <1>4, <1>6, <2>1
  <2>3. CASE last = <<>>
    <3>1. Len(s) = 3 /\ DOMAIN s = 1 .. 3 /\ s[1] = t
      BY <2>2, <2>3
    <3>2. active \cap {"openai", "anthropic"} # {} => t[1] \in active \ Generic
      BY <1>3, <2>3
    <3> QED BY <2>1, <3>1, <3>2
  <2>4. ASSUME NEW z, last = <<z>>
        PROVE  /\ Len(s) = 4 /\ DOMAIN s = 1 .. 4
               /\ active \cap {"openai", "anthropic"} # {} =>
                    \E i \in DOMAIN s : s[i][1] \in active \ Generic
    <3>1. Len(s) = 4 /\ DOMAIN s = 1 .. 4 /\ s[1] = t /\ s[4] = z
      BY <2>2, <2>4
    <3>2. active \cap {"openai", "anthropic"} # {} => 
          t[1] \in active \ Generic \/ z[1] \in active \ Generic
      BY <1>3, <2>4
    <3> QED BY <3>1, <3>2
  <2>5. last # <<>> => \E z : last = <<z>>
    BY <1>2
  <2> QED BY <2>1, <2>3, <2>4, <2>5
<1> QED BY <1>5, <1>6

\* A test or the rules choose a chain, of which nothing is tried yet.
LEMMA ChoiceBooks ==
  ASSUME PipeInv, BooksInv, NEW r \in Requests, ChooseByTest(r) \/ ChooseByRules(r)
  PROVE  BooksInv'
<1>. DEFINE q == req[r]
<1>1. /\ Shaped /\ DOMAIN q = Fields /\ Sound(q) /\ Booked(r) /\ Tried(r) /\ q.at = "choose"
  BY DEF PipeInv, Shaped, BooksInv, ChooseByTest, ChooseByRules, At
<1>2. PICK n, chain, test :
        /\ Become(r, n) /\ UNCHANGED <<rows, tasks, sent, cache, configs>>
        /\ n = [q EXCEPT !.at = "call", !.test = test, !.chain = chain,
                         !.had = configs, !.steady = configs]
        /\ DOMAIN chain = 1 .. Len(chain) /\ Len(chain) \in Nat /\ chain # <<>>
        /\ test = {} /\ configs \cap {"openai", "anthropic"} # {} =>
             \E i \in DOMAIN chain : chain[i][1] \in configs \ Generic
  <2>1. CASE ChooseByTest(r)
    <3>1. PICK test, target :
            /\ UNCHANGED <<rows, tasks, sent, cache, configs>>
            /\ Become(r, [q EXCEPT !.at = "call", !.test = {test}, !.chain = <<target>>,
                                   !.had = configs, !.steady = configs])
      BY <2>1 DEF ChooseByTest
    <3>2. DOMAIN <<target>> = 1 .. Len(<<target>>) /\ Len(<<target>>) \in Nat
          /\ <<target>> # <<>> /\ {test} # {}
      OBVIOUS
    <3> QED BY <3>1, <3>2
  <2>2. CASE ChooseByRules(r)
    <3>1. PICK target :
            /\ UNCHANGED <<rows, tasks, sent, cache, configs>>
            /\ Become(r, [q EXCEPT !.at = "call", !.chain = Chain(target, configs),
                                   !.had = configs, !.steady = configs])
      BY <2>2 DEF ChooseByRules
    <3>2. [q EXCEPT !.at = "call", !.chain = Chain(target, configs), !.had = configs,
                    !.steady = configs]
          = [q EXCEPT !.at = "call", !.test = q.test, !.chain = Chain(target, configs),
                      !.had = configs, !.steady = configs]
      BY <1>1 DEF Fields
    <3>3. PICK chain : chain = Chain(target, configs)
      OBVIOUS
    <3>4. /\ DOMAIN chain = 1 .. Len(chain) /\ Len(chain) \in Nat /\ chain # <<>>
          /\ configs \cap {"openai", "anthropic"} # {} =>
               \E i \in DOMAIN chain : chain[i][1] \in configs \ Generic
      BY <3>3, ChainReaches
    <3>. HIDE DEF q
    <3> QED BY <3>1, <3>2, <3>3, <3>4
  <2> QED BY <2>1, <2>2
<1>. HIDE DEF q
<1>3. /\ n.ask = q.ask /\ n.chain = chain /\ n.by = q.by /\ n.cost = q.cost
      /\ n.test = test /\ n.had = configs /\ n.steady = configs /\ n.next = q.next
      /\ n.at = "call" /\ n.status = q.status /\ req'[r] = n
  BY <1>1, <1>2 DEF Fields, Become, Shaped
<1>4. q.status = 0 /\ q.next = 1 /\ q.by = Nobody /\ q.cost = Free
  BY <1>1 DEF Sound, Tried, Booked, q
<1>5. Booked(r)'
  BY <1>2, <1>3, <1>4 DEF Booked
<1>6. Tried(r)'
  BY <1>2, <1>3, <1>4 DEF Tried
<1>7. Moves(q, n)
  BY <1>1, <1>3 DEF Moves, Answering
<1> QED BY <1>1, <1>2, <1>5, <1>6, <1>7, BooksStep, Zenon DEF q

\* The calls of a chain: what is charged was called, and a chain is exhausted
\* only when every target of it with credentials was called.
LEMMA CallBooks ==
  ASSUME PipeInv, BooksInv, NEW r \in Requests,
         NoCredentials(r) \/ Unavailable(r) \/ Rejected(r) \/ Answered(r) \/ Exhausted(r)
  PROVE  BooksInv'
<1>. DEFINE q == req[r]
            t == Target(q)
            Was(x) == \E s \in sent' : s.request = r /\ s.target = x
<1>1. /\ Shaped /\ DOMAIN q = Fields /\ Sound(q) /\ Booked(r) /\ Tried(r) /\ q.at = "call"
      /\ "nobody" \notin configs
  BY DEF PipeInv, Shaped, BooksInv, NoCredentials, Unavailable, Rejected, Answered, Exhausted,
         CallsUp, MayCall, At
<1>2. /\ UNCHANGED <<rows, tasks, cache, configs>> /\ sent \subseteq sent'
  BY DEF NoCredentials, Unavailable, Rejected, Answered, Exhausted, CallsUp
<1>3. q.status = 0 /\ q.by = Nobody /\ q.cost = Free /\ q.chain # <<>> /\ ~FromCache(q)
  BY <1>1 DEF Sound, Booked, FromCache
<1>4. Unavailable(r) \/ Rejected(r) \/ Answered(r) =>
        Was(t) /\ t # Nobody /\ q.next <= Len(q.chain)
  <2>. SUFFICES ASSUME CallsUp(r) PROVE Was(t) /\ t # Nobody /\ q.next <= Len(q.chain)
    BY DEF Unavailable, Rejected, Answered
  <2>1. Sent(r, t, Payload(q)) \in sent' /\ t[1] \in configs /\ q.next <= Len(q.chain)
    BY DEF CallsUp, MayCall
  <2>2. t # Nobody
    BY <1>1, <2>1 DEF Nobody
  <2>3. \E s \in sent' : s.request = r /\ s.target = t
    BY <2>1 DEF Sent
  <2>. HIDE DEF t
  <2> QED BY <2>1, <2>2, <2>3
<1>5. \E n : /\ Become(r, n)
             /\ \/ /\ NoCredentials(r) \/ Unavailable(r)
                   /\ Alters(q, n, {"next"}) /\ n.next = q.next + 1
                \/ /\ Rejected(r) /\ Alters(q, n, {"by", "at", "status", "attributed"})
                   /\ n.by = t /\ n.at = "respond" /\ n.status = 400
                \/ /\ Answered(r) /\ Alters(q, n, {"at", "by", "status", "cost"})
                   /\ n.by = t /\ n.at = "settle" /\ n.status = 200 /\ n.cost \in {Free, t}
                \/ /\ Exhausted(r) /\ Alters(q, n, {"at", "status", "attributed"})
                   /\ n.at = "respond" /\ n.status = 502
  <2>1. CASE NoCredentials(r) \/ Unavailable(r)
    <3>1. PICK n : n = Fallback(q)
      OBVIOUS
    <3>2. Alters(q, n, {"next"}) /\ n.next = q.next + 1
      BY <1>1, <3>1 DEF Alters, Fallback, Fields
    <3>3. Become(r, n)
      BY <2>1, <3>1 DEF NoCredentials, Unavailable
    <3> QED BY <2>1, <3>2, <3>3
  <2>2. CASE Rejected(r)
    <3>1. PICK n : n = Attributed(Result([q EXCEPT !.by = Target(q)], 400))
      OBVIOUS
    <3>2. Become(r, n)
      BY <2>2, <3>1 DEF Rejected
    <3>. HIDE DEF q
    <3>3. /\ Alters(q, n, {"by", "at", "status", "attributed"})
          /\ n.by = t /\ n.at = "respond" /\ n.status = 400
      BY <1>1, <3>1 DEF Alters, Attributed, Result, Fields
    <3>. HIDE DEF t
    <3> QED BY <2>2, <3>2, <3>3
  <2>3. CASE Answered(r)
    <3>1. PICK n : n = [q EXCEPT !.at = "settle", !.by = Target(q), !.status = 200,
                                 !.cost = CostOf(q)]
      OBVIOUS
    <3>2. Become(r, n)
      BY <2>3, <3>1 DEF Answered
    <3>3. CostOf(q) \in {Free, t}
      BY DEF CostOf
    <3>. HIDE DEF q
    <3>4. /\ Alters(q, n, {"at", "by", "status", "cost"}) /\ n.by = t /\ n.at = "settle"
          /\ n.status = 200 /\ n.cost \in {Free, t}
      BY <1>1, <3>1, <3>3 DEF Alters, Fields
    <3>. HIDE DEF t
    <3> QED BY <2>3, <3>2, <3>4
  <2>4. CASE Exhausted(r)
    <3>1. PICK n : n = Attributed(Result(q, 502))
      OBVIOUS
    <3>2. Become(r, n)
      BY <2>4, <3>1 DEF Exhausted
    <3>. HIDE DEF q
    <3>3. /\ Alters(q, n, {"at", "status", "attributed"}) /\ n.at = "respond" /\ n.status = 502
      BY <1>1, <3>1 DEF Alters, Attributed, Result, Fields
    <3>. HIDE DEF t
    <3> QED BY <2>4, <3>2, <3>3
  <2> QED BY <2>1, <2>2, <2>3, <2>4
<1>6. PICK n :
        /\ Become(r, n)
        /\ \/ /\ NoCredentials(r) \/ Unavailable(r)
              /\ Alters(q, n, {"next"}) /\ n.next = q.next + 1
           \/ /\ Rejected(r) /\ Alters(q, n, {"by", "at", "status", "attributed"})
              /\ n.by = t /\ n.at = "respond" /\ n.status = 400
           \/ /\ Answered(r) /\ Alters(q, n, {"at", "by", "status", "cost"})
              /\ n.by = t /\ n.at = "settle" /\ n.status = 200 /\ n.cost \in {Free, t}
           \/ /\ Exhausted(r) /\ Alters(q, n, {"at", "status", "attributed"})
              /\ n.at = "respond" /\ n.status = 502
  BY <1>5
<1>7. req'[r] = n
  BY <1>1, <1>6 DEF Become, Shaped
<1>8. \A i \in DOMAIN q.chain : q.chain[i][1] \in q.steady \ Generic =>
        /\ i < q.next => Was(q.chain[i])
        /\ i = q.next /\ (NoCredentials(r) \/ Unavailable(r)) => Was(q.chain[i])
  <2>. SUFFICES ASSUME NEW i \in DOMAIN q.chain, q.chain[i][1] \in q.steady \ Generic
                PROVE  /\ i < q.next => Was(q.chain[i])
                       /\ i = q.next /\ (NoCredentials(r) \/ Unavailable(r)) =>
                            Was(q.chain[i])
    OBVIOUS
  <2>1. i < q.next => Reached(r, q.chain[i])
    BY <1>1 DEF Tried
  <2>2. i = q.next => q.chain[i] = t /\ t[1] \in configs \ Generic
    BY <1>1 DEF Tried, Target
  <2>3. Reached(r, q.chain[i]) => Was(q.chain[i])
    BY <1>2 DEF Reached
  <2>4. NoCredentials(r) => t[1] \notin configs \ Generic
    BY DEF NoCredentials
  <2>. HIDE DEF q, t, Was
  <2> QED BY <1>4, <2>1, <2>2, <2>3, <2>4
<1>9. /\ n.ask = q.ask /\ n.chain = q.chain /\ n.test = q.test /\ n.had = q.had
      /\ n.steady = q.steady
  BY <1>6 DEF Alters, Fields
<1>10. Booked(r)'
  <2>. HIDE DEF q, t
  <2>1. n.status = 200 => n.by # Nobody /\ Was(n.by)
    <3>. HIDE DEF Was
    <3> QED BY <1>3, <1>4, <1>6 DEF Alters, Fields
  <2>2. n.cost = Free \/ Was(n.cost)
    <3>. HIDE DEF Was
    <3> QED BY <1>3, <1>4, <1>6 DEF Alters, Fields
  <2>3. /\ n.at \in {"call", "settle", "respond"} /\ (n.at = "call" => n.by = q.by /\ n.cost = q.cost)
        /\ n.status # 500
    BY <1>1, <1>3, <1>6 DEF Alters, Fields
  <2>4. ~FromCache(n)
    BY <1>3, <1>9 DEF FromCache
  <2> QED BY <1>3, <1>7, <1>9, <2>1, <2>2, <2>3, <2>4 DEF Booked, Reached
<1>11. Tried(r)'
  <2>1. Tried(r) /\ DOMAIN q.chain = 1 .. Len(q.chain) /\ Len(q.chain) \in Nat /\ q.next \in Nat
    BY <1>1 DEF Tried
  <2>2. Exhausted(r) => q.next > Len(q.chain)
    BY DEF Exhausted
  <2>. HIDE DEF q, t
  <2>3. n.next \in Nat /\ n.at \notin {"new", "gate", "lookup", "choose"}
    BY <1>1, <1>6, <2>1 DEF Alters, Fields
  <2>4. n.at = "call" => \A i \in DOMAIN n.chain :
          i < n.next /\ n.chain[i][1] \in n.steady \ Generic => Was(n.chain[i])
    <3>1. n.at = "call" => n.next = q.next + 1 /\ (NoCredentials(r) \/ Unavailable(r))
      BY <1>6
    <3>. HIDE DEF Was
    <3> QED BY <1>8, <1>9, <2>1, <3>1
  <2>5. n.status = 502 /\ n.by = Nobody => \A i \in DOMAIN n.chain :
          n.chain[i][1] \in n.steady \ Generic => Was(n.chain[i])
    <3>1. n.status = 502 => Exhausted(r)
      BY <1>3, <1>6 DEF Alters, Fields
    <3>. HIDE DEF Was
    <3> QED BY <1>8, <1>9, <2>1, <2>2, <3>1
  <2>6. q.test = n.test /\ q.had = n.had /\ q.chain # <<>>
    BY <1>3, <1>9
  <2> QED BY <1>2, <1>7, <1>9, <2>1, <2>3, <2>4, <2>5, <2>6 DEF Tried, Reached, q
<1>12. Moves(q, n)
  BY <1>1, <1>9 DEF Moves, Answering
<1>. HIDE DEF t
<1> QED BY <1>1, <1>2, <1>6, <1>10, <1>11, <1>12, BooksStep DEF q

\* The sample of a test costs what the answer did, and an answer is stored
\* under the target that gave it.
LEMMA SettleBooks ==
  ASSUME PipeInv, BooksInv, NEW r \in Requests, Settle(r)
  PROVE  BooksInv'
<1>. DEFINE q == req[r]
<1>1. Shaped /\ DOMAIN q = Fields /\ Sound(q) /\ Booked(r) /\ Tried(r) /\ q.at = "settle"
  BY DEF PipeInv, Shaped, BooksInv, Settle, At
<1>2. q.status = 200 /\ q.chain # <<>> /\ q.by # Nobody /\ ~FromCache(q)
      /\ Reached(r, q.by) /\ (q.cost = Free \/ Reached(r, q.cost))
  BY <1>1 DEF Sound, Booked, FromCache
<1>3. PICK n : n = Attributed(Result(q, 200)) /\ Become(r, n)
  BY DEF Settle
<1>4. /\ \A task \in tasks' : task \in tasks \/ task \in {Task(k, r) : k \in {"savings", "store", "shadow"}}
      /\ \A row \in rows' : row \in rows \/ row = Row("ab_test_results", r, 200, q.cost, FALSE)
      /\ UNCHANGED <<sent, cache, configs>>
  <2>1. PICK hasText \in BOOLEAN, recorded \in BOOLEAN :
          /\ rows' = IF ~recorded THEN rows
                      ELSE rows \cup {Row("ab_test_results", r, 200, q.cost, FALSE)}
          /\ Spawn({"savings"} \cup (IF hasText /\ ~q.ask.stream THEN {"store"} ELSE {})
                     \cup (IF Reroutes(q) # {} THEN {"shadow"} ELSE {}), r)
          /\ UNCHANGED <<sent, cache, configs>>
    BY DEF Settle
  <2>2. {"savings"} \cup (IF hasText /\ ~q.ask.stream THEN {"store"} ELSE {})
          \cup (IF Reroutes(q) # {} THEN {"shadow"} ELSE {}) \in SUBSET {"savings", "store", "shadow"}
    OBVIOUS
  <2>3. \A K \in SUBSET {"savings", "store", "shadow"} : Spawn(K, r) =>
          \A task \in tasks' : task \in tasks \/ task \in {Task(k, r) : k \in {"savings", "store", "shadow"}}
    BY DEF Spawn
  <2>. HIDE DEF q
  <2> QED BY <2>1, <2>2, <2>3
<1>5. n.at = "respond" /\ n.status = 200 /\ Alters(q, n, {"at", "status", "attributed"})
  <2>. HIDE DEF q
  <2> QED BY <1>1, <1>3 DEF Alters, Attributed, Result, Fields
<1>6. /\ n.ask = q.ask /\ n.chain = q.chain /\ n.by = q.by /\ n.cost = q.cost
      /\ n.test = q.test /\ n.had = q.had /\ n.steady = q.steady /\ n.next = q.next
  BY <1>5 DEF Alters, Fields
<1>7. req'[r] = n /\ \A x : Reached(r, x) => Reached(r, x)'
  BY <1>1, <1>3, <1>4 DEF Become, Shaped, Reached
<1>8. ~FromCache(n)
  BY <1>2, <1>6 DEF FromCache
<1>9. sent' = sent
  BY <1>4
<1>. HIDE DEF q
<1>10. Booked(r)'
  BY <1>1, <1>2, <1>5, <1>6, <1>7, <1>8, <1>9 DEF Booked, Reached
<1>11. Tried(r)'
  BY <1>1, <1>4, <1>5, <1>6, <1>7 DEF Tried, Reached, q
<1>12. Moves(q, n)
  BY <1>1, <1>6 DEF Moves, Answering
<1>13. \A row \in rows' : row \in rows \/ RowBooked(row)'
  <2>1. ASSUME NEW row, row = Row("ab_test_results", r, 200, q.cost, FALSE)
        PROVE  RowBooked(row)'
    <3>1. row.request = r /\ row.cost = n.cost /\ row.table = "ab_test_results"
      BY <1>6, <2>1 DEF Row
    <3> QED BY <1>2, <1>5, <1>6, <1>7, <1>8, <1>9, <3>1 DEF RowBooked, Answering, Reached
  <2> QED BY <1>4, <2>1
<1>14. \A task \in tasks' : task \in tasks \/ (task.request = r /\ TaskBooked(task)')
  <2>1. ASSUME NEW k \in {"savings", "store", "shadow"} PROVE TaskBooked(Task(k, r))'
    BY <1>2, <1>5, <1>6, <1>7 DEF Task, TaskBooked, Answering
  <2> QED BY <1>4, <2>1 DEF Task
<1>15. sent \subseteq sent' /\ UNCHANGED <<cache, configs>>
  BY <1>4
<1> QED BY <1>1, <1>3, <1>10, <1>11, <1>12, <1>13, <1>14, <1>15, BooksStep DEF q

\* A plain answer is logged by a task, a stream at its end.
LEMMA RespondBooks ==
  ASSUME PipeInv, BooksInv, NEW r \in Requests, Respond(r)
  PROVE  BooksInv'
<1>. DEFINE q == req[r]
<1>1. Shaped /\ DOMAIN q = Fields /\ Booked(r) /\ Tried(r) /\ q.at = "respond"
  BY DEF PipeInv, Shaped, BooksInv, Respond, At
<1>2. PICK n : /\ n = [q EXCEPT !.at = IF Streams(q) THEN "stream" ELSE "over"]
               /\ Become(r, n) /\ UNCHANGED <<rows, sent, cache, configs>>
               /\ Spawn(IF Streams(q) THEN {} ELSE {"log"}, r)
  BY DEF Respond
<1>3. req'[r] = n /\ sent' = sent
  BY <1>1, <1>2 DEF Become, Shaped
<1>. HIDE DEF q
<1>4. Alters(q, n, {"at"}) /\ n.at = IF Streams(q) THEN "stream" ELSE "over"
  BY <1>1, <1>2 DEF Alters, Fields
<1>5. /\ n.ask = q.ask /\ n.chain = q.chain /\ n.by = q.by /\ n.cost = q.cost
      /\ n.test = q.test /\ n.had = q.had /\ n.steady = q.steady /\ n.next = q.next
      /\ n.status = q.status
  BY <1>4 DEF Alters, Fields
<1>6. q.status # 500 /\ (n.at = "stream" => q.ask.stream) /\ n.at \in {"stream", "over"}
  BY <1>1, <1>4 DEF Booked, Streams, q
<1>7. Booked(r)'
  BY <1>1, <1>3, <1>5, <1>6 DEF Booked, FromCache, Reached, q
<1>8. Tried(r)'
  BY <1>1, <1>2, <1>3, <1>5, <1>6 DEF Tried, Reached, q
<1>9. Moves(q, n)
  BY <1>1, <1>5, <1>6 DEF Moves, Answering
<1>10. \A task \in tasks' : task \in tasks \/ (task.request = r /\ TaskBooked(task)')
  <2>1. \A task \in tasks' : task \in tasks \/ (~Streams(q) /\ task = Task("log", r))
    BY <1>2 DEF Spawn
  <2>2. ~Streams(q) => TaskBooked(Task("log", r))'
    BY <1>3, <1>4, <1>5, <1>6 DEF Task, TaskBooked, Answering
  <2> QED BY <2>1, <2>2 DEF Task
<1>11. /\ sent \subseteq sent' /\ UNCHANGED <<cache, configs>> /\ \A row \in rows' : row \in rows
  BY <1>2
<1> QED BY <1>1, <1>2, <1>7, <1>8, <1>9, <1>10, <1>11, BooksStep DEF q

\* A stream costs what its target asks, and its end writes the only log row.
LEMMA StreamBooks ==
  ASSUME PipeInv, BooksInv, NEW r \in Requests, StreamEnds(r) \/ StreamBreaks(r)
  PROVE  BooksInv'
<1>. DEFINE q == req[r]
<1>1. PICK status \in {200, 502} : EndOfStream(r, status)
  BY DEF StreamEnds, StreamBreaks
<1>2. Shaped /\ DOMAIN q = Fields /\ Sound(q) /\ Booked(r) /\ Tried(r) /\ q.at = "stream"
  BY <1>1 DEF PipeInv, Shaped, BooksInv, EndOfStream, At
<1>3. PICK n : /\ n = [q EXCEPT !.at = "over", !.status = status, !.cost = q.by]
               /\ Become(r, n) /\ UNCHANGED <<tasks, sent, cache, configs>>
               /\ (rows' = rows \/ rows' = rows \cup {LogRow(n, r)})
  BY <1>1 DEF EndOfStream
<1>4. req'[r] = n /\ sent' = sent
  BY <1>2, <1>3 DEF Become, Shaped
<1>. HIDE DEF q
<1>5. Alters(q, n, {"at", "status", "cost"}) /\ n.at = "over" /\ n.status = status /\ n.cost = q.by
  BY <1>2, <1>3 DEF Alters, Fields
<1>6. /\ n.ask = q.ask /\ n.chain = q.chain /\ n.by = q.by
      /\ n.test = q.test /\ n.had = q.had /\ n.steady = q.steady /\ n.next = q.next
  BY <1>5 DEF Alters, Fields
<1>7. /\ q.ask.stream /\ q.by # Nobody /\ (FromCache(q) \/ Reached(r, q.by))
      /\ (q.test # {} => q.chain # <<>>)
  BY <1>2 DEF Sound, Booked, q
<1>8. FromCache(n) <=> FromCache(q)
  BY <1>6 DEF FromCache
<1>9. Booked(r)'
  BY <1>4, <1>5, <1>6, <1>7, <1>8 DEF Booked, Reached
<1>10. Tried(r)'
  BY <1>2, <1>3, <1>4, <1>5, <1>6, <1>7 DEF Tried, Reached, q
<1>11. Moves(q, n)
  BY <1>2, <1>5, <1>6, <1>7 DEF Moves, Answering
<1>12. \A row \in rows' : row \in rows \/ RowBooked(row)'
  <2>1. Task("log", r) \notin tasks'
    <3>1. Task("log", r) \notin tasks
      BY <1>2 DEF BooksInv, TaskBooked, Task, q
    <3> QED BY <1>3, <3>1
  <2>2. LogRow(n, r).request = r /\ LogRow(n, r).cost = q.by /\ LogRow(n, r).table = "requests_log"
    BY <1>5 DEF LogRow, Row
  <2>3. RowBooked(LogRow(n, r))'
    BY <1>4, <1>5, <1>6, <1>7, <1>8, <2>1, <2>2 DEF RowBooked, Answering, Reached
  <2> QED BY <1>3, <2>3
<1>13. /\ sent \subseteq sent' /\ UNCHANGED <<cache, configs>> /\ \A task \in tasks' : task \in tasks
  BY <1>3
<1> QED BY <1>2, <1>3, <1>9, <1>10, <1>11, <1>12, <1>13, BooksStep DEF q

\* A task's step: the rows it writes and what it caches are what remains to be shown.
LEMMA TasksStep ==
  ASSUME BooksInv, NEW task \in tasks, End(task), UNCHANGED <<req, configs>>,
         sent \subseteq sent',
         \A row \in rows' : row \in rows \/ RowBooked(row)',
         \A entry \in cache' : entry \in cache \/ entry.target # Nobody
  PROVE  BooksInv'
<1>1. \A s, t : Reached(s, t) => Reached(s, t)'
  BY DEF Reached
<1>2. \A t \in tasks' : t \in tasks
  BY DEF End
<1>3. \A s \in Requests : Booked(s)' /\ Tried(s)'
  <2>. SUFFICES ASSUME NEW s \in Requests PROVE Booked(s)' /\ Tried(s)'
    OBVIOUS
  <2>1. Booked(s) /\ Tried(s)
    BY DEF BooksInv
  <2>2. Booked(s)'
    BY <1>1, <2>1 DEF Booked
  <2>3. Tried(s)'
    BY <1>1, <2>1 DEF Tried
  <2> QED BY <2>2, <2>3
<1>4. \A row \in rows' : RowBooked(row)'
  <2>. SUFFICES ASSUME NEW row \in rows PROVE RowBooked(row)'
    OBVIOUS
  <2>1. RowBooked(row)
    BY DEF BooksInv
  <2> QED BY <1>1, <1>2, <2>1 DEF RowBooked
<1>5. \A t \in tasks' : TaskBooked(t)'
  BY <1>2 DEF BooksInv, TaskBooked
<1>6. \A entry \in cache' : entry.target # Nobody
  BY DEF BooksInv
<1>7. "nobody" \notin configs'
  BY DEF BooksInv
<1> QED BY <1>3, <1>4, <1>5, <1>6, <1>7 DEF BooksInv

\* A task writes what its request was charged; the shadow one what it called.
LEMMA TaskBooks ==
  ASSUME BooksInv, NEW task \in tasks, RunTask(task)
  PROVE  BooksInv'
<1>. DEFINE r == task.request
            q == req[r]
<1>1. /\ r \in Requests /\ TaskBooked(task) /\ Booked(r) /\ task = Task(task.kind, r)
  BY DEF BooksInv, TaskBooked
<1>2. UNCHANGED <<req, configs>> /\ End(task) /\ sent \subseteq sent'
  BY DEF RunTask, SaveViolations, Store, LogSavings, RunShadow, LogTransaction, Lose
<1>3. q' = q /\ \A x : Reached(r, x) => \E s \in sent' : s.request = r /\ s.target = x
  BY <1>2 DEF Reached
<1>4. \A row \in rows' : row \in rows \/ RowBooked(row)'
  <2>1. CASE SaveViolations(task)
    <3>1. PICK row : row = Row("security_violations", r, 0, Free, FALSE)
      OBVIOUS
    <3>2. row.request = r /\ row.cost = Free /\ row.table = "security_violations"
      BY <3>1 DEF Row
    <3>3. RowBooked(row)'
      BY <1>1, <3>2 DEF RowBooked, Books
    <3> QED BY <2>1, <3>1, <3>3 DEF SaveViolations
  <2>2. CASE LogSavings(task)
    <3>1. PICK row : row = Row("cost_savings_log", r, 200,
                               IF q.ask.stream THEN Free ELSE q.cost, FALSE)
      OBVIOUS
    <3>2. /\ row.request = r /\ row.cost = (IF q.ask.stream THEN Free ELSE q.cost)
          /\ row.table = "cost_savings_log"
      BY <3>1 DEF Row
    <3>3. q.at \in Answering
      BY <1>1, <2>2 DEF LogSavings, TaskBooked
    <3>4. /\ q.cost = Free \/ FromCache(q) \/ Reached(r, q.cost)
          /\ FromCache(q) /\ ~q.ask.stream => q.cost = Free
      BY <1>1 DEF Booked
    <3>5. RowBooked(row)'
      BY <1>1, <1>3, <3>2, <3>3, <3>4 DEF RowBooked, Reached
    <3> QED BY <2>2, <3>1, <3>5 DEF LogSavings
  <2>3. CASE LogTransaction(task)
    <3>1. PICK row : row = LogRow(q, r)
      OBVIOUS
    <3>2. row.request = r /\ row.cost = q.cost /\ row.table = "requests_log"
      BY <3>1 DEF LogRow, Row
    <3>3. q.at = "over" /\ q.at \in Answering /\ q.status # 500
      BY <1>1, <2>3 DEF LogTransaction, TaskBooked, Answering
    <3>4. /\ q.cost = Free \/ FromCache(q) \/ Reached(r, q.cost)
          /\ FromCache(q) /\ ~q.ask.stream => q.cost = Free
      BY <1>1 DEF Booked
    <3>5. Task("log", r) \notin tasks'
      BY <1>1, <2>3 DEF LogTransaction, End
    <3>6. RowBooked(row)'
      BY <1>1, <1>3, <3>1, <3>2, <3>3, <3>4, <3>5 DEF RowBooked, Reached
    <3> QED BY <2>3, <3>1, <3>6 DEF LogTransaction
  <2>4. CASE RunShadow(task)
    <3>1. PICK test, call :
            /\ test \in Reroutes(q)
            /\ call.request = r /\ call.target = test.B
            /\ task.kind = "shadow"
            /\ rows' = rows \/ (/\ rows' = rows \cup {Row("shadow_results", r, 200, test.B, FALSE)}
                                /\ sent' = sent \cup {call})
      <4>1. PICK test \in Reroutes(q) :
              /\ task.kind = "shadow"
              /\ rows' = rows \/
                   (/\ rows' = rows \cup {Row("shadow_results", r, 200, test.B, FALSE)}
                    /\ sent' = sent \cup {Sent(r, test.B, ShadowPayload(q))})
        BY <2>4 DEF RunShadow
      <4>2. PICK call : call = Sent(r, test.B, ShadowPayload(q))
        OBVIOUS
      <4>3. call.request = r /\ call.target = test.B
        BY <4>2 DEF Sent
      <4>. HIDE DEF q, r
      <4> QED BY <4>1, <4>2, <4>3
    <3>2. PICK row : row = Row("shadow_results", r, 200, test.B, FALSE)
      OBVIOUS
    <3>3. row.request = r /\ row.cost = test.B /\ row.table = "shadow_results"
      BY <3>2 DEF Row
    <3>4. call.request = r /\ call.target = test.B
      BY <3>1
    <3>5. q.at \in Answering /\ ~FromCache(q)
      BY <1>1, <3>1 DEF TaskBooked, Booked, FromCache, Reroutes
    <3>6. call \in sent' => RowBooked(row)'
      <4>1. req' = req
        BY <1>2
      <4>2. row.table \notin Books
        BY <3>3 DEF Books
      <4>3. call \in sent' => \E s \in sent' : s.request = r /\ s.target = test.B
        BY <3>4
      <4>4. row.table # "requests_log"
        BY <3>3
      <4>5. row.request \in Requests
        BY <1>1, <3>3
      <4>6. req[row.request].at \in Answering /\ ~FromCache(req[row.request])
        BY <3>3, <3>5
      <4>7. call \in sent' =>
              \E s \in sent' : s.request = row.request /\ s.target = row.cost
        BY <3>3, <4>3
      <4>. HIDE DEF r, q
      <4> QED BY <4>1, <4>2, <4>4, <4>5, <4>6, <4>7 DEF RowBooked, Reached
    <3>7. rows' = rows \/ (rows' = rows \cup {row} /\ call \in sent')
      <4>. HIDE DEF r, q
      <4> QED BY <3>1, <3>2
    <3> QED BY <3>6, <3>7
  <2>5. CASE Store(task) \/ Lose(task)
    BY <2>5 DEF Store, Lose
  <2> QED BY <2>1, <2>2, <2>3, <2>4, <2>5 DEF RunTask
<1>5. \A entry \in cache' : entry \in cache \/ entry.target # Nobody
  <2>1. CASE Store(task)
    <3>1. q.by # Nobody
      BY <1>1, <2>1 DEF Store, TaskBooked
    <3> QED BY <2>1, <3>1 DEF Store
  <2>2. CASE ~Store(task)
    BY <2>2 DEF RunTask, SaveViolations, LogSavings, RunShadow, LogTransaction, Lose
  <2> QED BY <2>1, <2>2
<1> QED BY <1>2, <1>4, <1>5, TasksStep

\* An administrator's change leaves the books, and no more to be tried.
LEMMA ConfigureBooks ==
  ASSUME PipeInv, BooksInv, Configure
  PROVE  BooksInv'
<1>1. /\ req' = [r \in Requests |-> [req[r] EXCEPT !.steady = @ \cap configs']]
      /\ UNCHANGED <<rows, tasks, sent, cache>> /\ "nobody" \notin configs'
  BY CredentialsAssumption DEF Configure, BooksInv
<1>2. \A r \in Requests :
        Alters(req[r], req'[r], {"steady"}) /\ req'[r].steady = req[r].steady \cap configs'
  <2>. SUFFICES ASSUME NEW r \in Requests
                PROVE  /\ Alters(req[r], req'[r], {"steady"})
                       /\ req'[r].steady = req[r].steady \cap configs'
    OBVIOUS
  <2>1. DOMAIN req[r] = Fields /\ req'[r] = [req[r] EXCEPT !.steady = @ \cap configs']
    BY <1>1 DEF PipeInv, Shaped
  <2> QED BY <2>1 DEF Alters, Fields
<1>3. \A r \in Requests : LET q == req[r] n == req'[r] IN
        /\ n.ask = q.ask /\ n.chain = q.chain /\ n.by = q.by /\ n.cost = q.cost /\ n.at = q.at
        /\ n.test = q.test /\ n.had = q.had /\ n.next = q.next /\ n.status = q.status
        /\ n.attributed = q.attributed
  BY <1>2 DEF Alters, Fields
<1>4. \A r, x : Reached(r, x)' <=> Reached(r, x)
  BY <1>1 DEF Reached
<1>5. \A r \in Requests : FromCache(req'[r]) <=> FromCache(req[r])
  BY <1>3 DEF FromCache
<1>6. \A r \in Requests : Booked(r)' /\ Tried(r)'
  <2>. SUFFICES ASSUME NEW r \in Requests PROVE Booked(r)' /\ Tried(r)'
    OBVIOUS
  <2>1. Booked(r) /\ Tried(r)
    BY DEF BooksInv
  <2>2. PICK q, n : q = req[r] /\ n = req'[r]
    OBVIOUS
  <2>3. /\ n.ask = q.ask /\ n.chain = q.chain /\ n.by = q.by /\ n.cost = q.cost /\ n.at = q.at
        /\ n.test = q.test /\ n.had = q.had /\ n.next = q.next /\ n.status = q.status
        /\ (FromCache(n) <=> FromCache(q))
        /\ n.steady = q.steady \cap configs'
    BY <1>2, <1>3, <1>5, <2>2
  <2>4. Booked(r)'
    BY <1>4, <2>1, <2>2, <2>3 DEF Booked
  <2>5. Tried(r)'
    BY <1>4, <2>1, <2>2, <2>3 DEF Tried
  <2> QED BY <2>4, <2>5
<1>7. \A row \in rows : RowBooked(row)'
  <2>. SUFFICES ASSUME NEW row \in rows PROVE RowBooked(row)'
    OBVIOUS
  <2>1. RowBooked(row) /\ row.request \in Requests
    BY DEF BooksInv, RowBooked
  <2>2. LogRow(req'[row.request], row.request) = LogRow(req[row.request], row.request)
    BY <1>3, <2>1 DEF LogRow
  <2>3. PICK q, n : q = req[row.request] /\ n = req'[row.request]
    OBVIOUS
  <2>4. /\ n.ask = q.ask /\ n.cost = q.cost /\ n.at = q.at /\ n.status = q.status
        /\ (FromCache(n) <=> FromCache(q))
    BY <1>3, <1>5, <2>1, <2>3
  <2> QED BY <1>1, <1>4, <2>1, <2>2, <2>3, <2>4 DEF RowBooked
<1>8. \A task \in tasks : TaskBooked(task)'
  BY <1>3 DEF BooksInv, TaskBooked
<1> QED BY <1>1, <1>6, <1>7, <1>8 DEF BooksInv

\* Nothing is booked initially.
LEMMA InitBooks ==
  ASSUME Init
  PROVE  BooksInv
<1>1. \A ask : LET q == Start(ask) IN
        /\ q.at = "new" /\ q.chain = <<>> /\ q.by = Nobody /\ q.cost = Free /\ q.test = {}
        /\ q.status = 0 /\ q.steady = {} /\ q.next = 1
  BY DEF Start
<1>2. \A r \in Requests : \E ask \in Asks : req[r] = Start(ask)
  BY DEF Init
<1>3. \A r \in Requests : LET q == req[r] IN
        /\ q.at = "new" /\ q.chain = <<>> /\ q.by = Nobody /\ q.cost = Free /\ q.test = {}
        /\ q.status = 0 /\ q.steady = {} /\ q.next = 1
  BY <1>1, <1>2
<1>4. \A r \in Requests : Booked(r)
  BY <1>3 DEF Booked, FromCache
<1>5. DOMAIN <<>> = 1 .. Len(<<>>) /\ Len(<<>>) = 0
  OBVIOUS
<1>6. \A r \in Requests : Tried(r)
  BY <1>3, <1>5 DEF Tried
<1>7. "nobody" \notin configs
  BY CredentialsAssumption DEF Init
<1> QED BY <1>4, <1>6, <1>7 DEF Init, BooksInv

\* The books are inductive with what is known of the requests.
LEMMA BooksInvariant == PipeSpec => []BooksInv
<1>1. Init => BooksInv
  BY InitBooks
<1>2. PipeInv /\ BooksInv /\ [Next]_vars => BooksInv'
  <2>1. SUFFICES ASSUME PipeInv, BooksInv, [Next]_vars  PROVE BooksInv'
    OBVIOUS
  <2>2. CASE UNCHANGED vars
    BY <2>1, <2>2 DEF vars, BooksInv, Booked, Tried, RowBooked, TaskBooked, Reached
  <2>3. CASE \E r \in Requests : Handle(r)
    BY <2>1, <2>3, EarlyBooks, HitBooks, ChoiceBooks, CallBooks, SettleBooks, RespondBooks,
       StreamBooks DEF Handle
  <2>4. CASE \E task \in tasks : RunTask(task)
    BY <2>1, <2>4, TaskBooks
  <2>5. CASE Configure
    BY <2>1, <2>5, ConfigureBooks
  <2> QED BY <2>1, <2>2, <2>3, <2>4, <2>5 DEF Next
<1> QED BY <1>1, <1>2, PipeInvariant, PTL DEF PipeSpec

\* A request has one row in requests_log or one task that will write it, and none
\* when an exception ended it.
LEMMA OneLog == ASSUME BooksInv PROVE LoggedOnce
<1>. SUFFICES ASSUME NEW r \in Requests
              PROVE  Cardinality({row \in rows : row.table = "requests_log" /\ row.request = r})
                       + Cardinality({task \in tasks : task = Task("log", r)})
                       <= IF req[r].status = 500 THEN 0 ELSE 1
  BY DEF LoggedOnce
<1>. DEFINE logged == {row \in rows : row.table = "requests_log" /\ row.request = r}
            logging == {task \in tasks : task = Task("log", r)}
<1>1. \A row \in logged : req[r].status # 500 /\ row = LogRow(req[r], r)
                          /\ Task("log", r) \notin tasks
  BY DEF BooksInv, RowBooked
<1>2. logging # {} => logging = {Task("log", r)} /\ req[r].status # 500 /\ logged = {}
  <2>1. logging # {} => Task("log", r) \in tasks /\ logging = {Task("log", r)}
    OBVIOUS
  <2>2. Task("log", r) \in tasks => req[r].status # 500
    BY DEF BooksInv, TaskBooked, Task
  <2> QED BY <1>1, <2>1, <2>2
<1>3. logged = {} \/ (logged = {LogRow(req[r], r)} /\ req[r].status # 500 /\ logging = {})
  <2>. CASE logged # {}
    <3>1. LogRow(req[r], r) \in logged /\ req[r].status # 500
      BY <1>1
    <3> QED BY <1>1, <1>2, <3>1
  <2> QED OBVIOUS
<1>4. Cardinality({}) = 0 /\ \A x : Cardinality({x}) = 1
  BY FS_EmptySet, FS_Singleton
<1>. HIDE DEF logged, logging
<1>5. Cardinality({LogRow(req[r], r)}) = 1 /\ Cardinality({Task("log", r)}) = 1
  BY <1>4
<1>6. \/ Cardinality(logged) = 0 /\ Cardinality(logging) = 0
      \/ /\ req[r].status # 500
         /\ \/ Cardinality(logged) = 1 /\ Cardinality(logging) = 0
            \/ Cardinality(logged) = 0 /\ Cardinality(logging) = 1
  <2>1. CASE logging = {} /\ logged = {}
    BY <1>4, <2>1
  <2>2. CASE logging = {} /\ logged # {}
    BY <1>3, <1>4, <1>5, <2>2
  <2>3. CASE logging # {}
    BY <1>2, <1>4, <1>5, <2>3
  <2> QED BY <2>1, <2>2, <2>3
<1>7. Cardinality(logged) + Cardinality(logging) <= IF req[r].status = 500 THEN 0 ELSE 1
  BY <1>6
<1> QED BY <1>7 DEF logged, logging

\* Whatever was answered, stored, sampled or streamed: log_proxy_transaction,
\* stream_with_logging, log_cost_savings_bg, log_cache_hit_bg, the A/B sample and
\* run_shadow_request leave books that agree.
THEOREM BooksAreKept == PipeSpec => []BooksAgree
<1>1. PipeInv /\ BooksInv => BooksAgree
  <2>. SUFFICES ASSUME PipeInv, BooksInv PROVE BooksAgree
    OBVIOUS
  <2>1. LoggedOnce /\ LoggedIsAttributed
    BY OneLog DEF PipeInv
  <2>2. \A row \in rows : RowBooked(row)
    BY DEF BooksInv
  <2>3. \A row \in rows :
          row.cost = Free \/ FromCache(req[row.request]) \/ Reached(row.request, row.cost)
    BY <2>2 DEF RowBooked
  <2>4. \A one, other \in {row \in rows : ~req[row.request].ask.stream /\ row.table \in
           {"requests_log", "cost_savings_log", "ab_test_results"}} :
         one.request = other.request => one.cost = other.cost
    BY <2>2 DEF RowBooked, Books
  <2>5. \A row \in rows :
          FromCache(req[row.request]) /\ ~req[row.request].ask.stream => row.cost = Free
    BY <2>2 DEF RowBooked
  <2> QED BY <2>1, <2>3, <2>4, <2>5 DEF BooksAgree
<1> QED BY <1>1, PipeInvariant, BooksInvariant, PTL

\* execute_proxy gives up only after it has called every target of the chain
\* whose credentials stayed; and SmartRouter.route gives it one to call.
THEOREM NothingIsGivenUp == PipeSpec => []FailedOnlyAfterTrying
<1>1. BooksInv => FailedOnlyAfterTrying
  <2>. SUFFICES ASSUME BooksInv, NEW r \in Requests, req[r].status = 502, req[r].by = Nobody
                PROVE  LET q == req[r]
                       IN  /\ \A i \in DOMAIN q.chain :
                                q.chain[i][1] \in q.steady \ Generic => Reached(r, q.chain[i])
                           /\ q.test = {} /\ q.had = q.steady
                                /\ q.had \cap {"openai", "anthropic"} # {} =>
                                \E s \in sent : s.request = r
    BY DEF FailedOnlyAfterTrying
  <2>1. Tried(r)
    BY DEF BooksInv
  <2>2. \A i \in DOMAIN req[r].chain :
          req[r].chain[i][1] \in req[r].steady \ Generic => Reached(r, req[r].chain[i])
    BY <2>1 DEF Tried
  <2>3. req[r].test = {} /\ req[r].had \cap {"openai", "anthropic"} # {} =>
          \E i \in DOMAIN req[r].chain : req[r].chain[i][1] \in req[r].had \ Generic
    BY <2>1 DEF Tried
  <2>4. \A x : Reached(r, x) => \E s \in sent : s.request = r
    BY DEF Reached
  <2> QED BY <2>2, <2>3, <2>4
<1> QED BY <1>1, BooksInvariant, PTL
=============================================================================
