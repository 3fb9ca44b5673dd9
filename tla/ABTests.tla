------------------------------- MODULE ABTests -------------------------------
(***************************************************************************)
(* A/B tests of one organisation: administrators create tests and change    *)
(* their status, requests are routed by the active test and record a sample *)
(* for it.  Which test is active is read through a Redis key with a TTL of  *)
(* 30 seconds; handlers interleave at every await.                          *)
(***************************************************************************)
EXTENDS Integers, FiniteSets

CONSTANTS
  Tests,       \* tests that may be created, each once
  Requests,    \* proxy requests, each once
  Admins,      \* handlers of administration requests
  Shadow,      \* the tests with test_mode "shadow"; the others split traffic
  MaxBusy,     \* bound: how many handlers run at the same time
  RedisFails,  \* may a Redis call fail?
  HandlersDie  \* may an exception or a crash cut a handler short?

ASSUME ABAssumption ==
  /\ Shadow \subseteq Tests
  /\ MaxBusy \in Nat /\ RedisFails \in BOOLEAN /\ HandlersDie \in BOOLEAN

VARIABLES
  status,    \* status column of each test, "none" before it is created
  snapshot,  \* samples counted in the results column, as a set of at most one
  samples,   \* ab_test_results rows; "routed" is history
  shadows,   \* shadow_results rows
  redis,     \* the live value of ab_test:active, as a set of at most one
  stage,     \* where a request is
  route,     \* the test the request was routed by, as a set of at most one
  target,    \* the test its sample is about to be recorded for
  op,        \* what each administrator's handler is doing
  calm,      \* history: no handlers overlapped, no Redis call or handler failed
  overtaken, \* history: handlers that found no test active when one was about to be
  doubted    \* history: the tests such a handler has made active

vars == <<status, snapshot, samples, shadows, redis, stage, route, target, op, calm,
          overtaken, doubted>>

requestVars == <<stage, route, target, samples, shadows>>

raceVars == <<overtaken, doubted>>

adminVars == <<op, status, snapshot, raceVars>>

-----------------------------------------------------------------------------
Statuses == {"none", "active", "paused", "completed"}

Stages == {"new", "missed", "read", "routed", "served", "recording", "shadow",
           "done"}

\* A handler of an administrator: the step it is at, the test, the status the
\* row had when it was loaded, the status asked for, the samples counted.
Op == [at : {"invalidate", "decide", "commit"}, test : Tests,
       loaded : Statuses, to : Statuses \ {"none"}, count : SUBSET Nat]

\* Each handler is idle or runs one operation.
Idle(a) == op[a] = {}

Begin(a, t, to) ==
  op' = [op EXCEPT ![a] = {[at |-> "invalidate", test |-> t,
                            loaded |-> status[t], to |-> to, count |-> {}]}]

Goto(a, o, at) == op' = [op EXCEPT ![a] = {[o EXCEPT !.at = at]}]

End(a) == op' = [op EXCEPT ![a] = {}]

Activates(o) == o.to = "active" /\ o.loaded # "active"

\* The handler has seen that no other test is active: a creation when it begins.
Checked(o) == Activates(o) /\ (o.at = "commit" \/ o.loaded = "none")

Active == {t \in Tests : status[t] = "active"}

Busy ==
  {q \in Requests : stage[q] \notin {"new", "done"}}
    \cup {a \in Admins : ~Idle(a)}

\* The rows _calculate_metrics counts for a test.
Counted(t) ==
  IF t \in Shadow THEN {s \in shadows : s.test = t}
                  ELSE {s \in samples : s.test = t}

-----------------------------------------------------------------------------
Init ==
  /\ status = [t \in Tests |-> "none"]
  /\ snapshot = [t \in Tests |-> {}]
  /\ samples = {}
  /\ shadows = {}
  /\ redis = {}
  /\ stage = [q \in Requests |-> "new"]
  /\ route = [q \in Requests |-> {}]
  /\ target = [q \in Requests |-> {}]
  /\ op = [a \in Admins |-> {}]
  /\ calm = TRUE
  /\ overtaken = {}
  /\ doubted = {}

\* get_active_test, redis.get: a live entry (a test or "none") routes.
LookupHit(q) ==
  /\ stage[q] = "new" /\ Cardinality(Busy) < MaxBusy
  /\ \E entry \in redis : route' = [route EXCEPT ![q] = entry]
  /\ stage' = [stage EXCEPT ![q] = "routed"]
  /\ calm' = (calm /\ Busy = {})
  /\ UNCHANGED <<adminVars, redis, target, samples, shadows>>

LookupMiss(q) ==
  /\ stage[q] = "new" /\ Cardinality(Busy) < MaxBusy
  /\ RedisFails \/ redis = {}
  /\ stage' = [stage EXCEPT ![q] = "missed"]
  /\ calm' = (calm /\ Busy = {} /\ redis = {})
  /\ UNCHANGED <<adminVars, redis, route, target, samples, shadows>>

\* The first active test, in whatever order the database returns them.
FirstActive == IF Active = {} THEN {{}} ELSE {{t} : t \in Active}

\* The active test is read from the database.
ReadActive(q) ==
  /\ stage[q] = "missed"
  /\ \E found \in FirstActive : route' = [route EXCEPT ![q] = found]
  /\ stage' = [stage EXCEPT ![q] = "read"]
  /\ UNCHANGED <<calm, adminVars, redis, target, samples, shadows>>

\* setex(key, 30, test or "none"), a failure ignored.
CacheActive(q) ==
  /\ stage[q] = "read"
  /\ redis' = {route[q]} \/ (RedisFails /\ redis' = redis)
  /\ stage' = [stage EXCEPT ![q] = "routed"]
  /\ calm' = (calm /\ redis' = {route[q]})
  /\ UNCHANGED <<adminVars, route, target, samples, shadows>>

\* No test, or the provider answers something other than 200: no sample.
ServeOutside(q) ==
  /\ stage[q] = "routed"
  /\ stage' = [stage EXCEPT ![q] = "done"]
  /\ UNCHANGED <<calm, adminVars, redis, route, target, samples, shadows>>

\* The provider of the assigned variant answers with status 200.
Serve(q) ==
  /\ stage[q] = "routed" /\ route[q] # {}
  /\ stage' = [stage EXCEPT ![q] = "served"]
  /\ UNCHANGED <<calm, adminVars, redis, route, target, samples, shadows>>

\* After the sample, a request of a shadow test starts its shadow call.
AfterRecord(q) == IF route[q] \subseteq Shadow THEN "shadow" ELSE "done"

\* record_result asks the database again which test is active.
RecordLookup(q) ==
  /\ stage[q] = "served"
  /\ \E found \in FirstActive :
       /\ target' = [target EXCEPT ![q] = found]
       /\ stage' = [stage EXCEPT ![q] =
                      IF found = {} THEN AfterRecord(q) ELSE "recording"]
  /\ UNCHANGED <<calm, adminVars, redis, route, samples, shadows>>

\* The sample is committed.
Record(q) ==
  /\ stage[q] = "recording"
  /\ samples' = samples \cup
       {[request |-> q, test |-> t, routed |-> r] : t \in target[q], r \in route[q]}
  /\ stage' = [stage EXCEPT ![q] = AfterRecord(q)]
  /\ UNCHANGED <<calm, adminVars, redis, route, target, shadows>>

\* Mutant: the pair goes to the test that is active when the sample is recorded.
RunShadowForTarget(q) ==
  /\ stage[q] = "shadow"
  /\ \/ shadows' = shadows \cup {[request |-> q, test |-> t] : t \in target[q]}
     \/ UNCHANGED shadows
  /\ stage' = [stage EXCEPT ![q] = "done"]
  /\ UNCHANGED <<calm, adminVars, redis, route, target, samples>>

\* run_shadow_request: the other model answers, and the pair is committed for
\* the test the request was routed by, or the call fails and nothing is.
RunShadow(q) ==
  /\ stage[q] = "shadow"
  /\ \/ shadows' = shadows \cup {[request |-> q, test |-> t] : t \in route[q]}
     \/ UNCHANGED shadows
  /\ stage' = [stage EXCEPT ![q] = "done"]
  /\ UNCHANGED <<calm, adminVars, redis, route, target, samples>>

-----------------------------------------------------------------------------
\* create_ab_test: 400 when a test is active, otherwise on to the insert.
Create(a, t) ==
  /\ Idle(a) /\ Cardinality(Busy) < MaxBusy
  /\ status[t] = "none"
  /\ \A b \in Admins : \A o \in op[b] : o.test # t
  /\ Active = {}
  /\ Begin(a, t, "active")
  /\ calm' = (calm /\ Busy = {})
  /\ UNCHANGED <<requestVars, redis, status, snapshot, raceVars>>

\* update_ab_test loads the row; any status may be asked for.
Load(a, t) ==
  /\ Idle(a) /\ Cardinality(Busy) < MaxBusy
  /\ status[t] # "none"
  /\ \E to \in Statuses \ {"none"} : Begin(a, t, to)
  /\ calm' = (calm /\ Busy = {})
  /\ UNCHANGED <<requestVars, redis, status, snapshot, raceVars>>

\* Mutant: nothing is invalidated.
InvalidateNothing(a) ==
  /\ \E o \in op[a] :
       /\ o.at = "invalidate"
       /\ Goto(a, o, IF o.loaded = "none" THEN "commit" ELSE "decide")
  /\ UNCHANGED <<calm, requestVars, redis, status, snapshot, raceVars>>

\* Both handlers delete the Redis key before they change the row.
Invalidate(a) ==
  /\ \E o \in op[a] :
       /\ o.at = "invalidate"
       /\ Goto(a, o, IF o.loaded = "none" THEN "commit" ELSE "decide")
  /\ redis' = {} \/ (RedisFails /\ redis' = redis)
  /\ calm' = (calm /\ redis' = {})
  /\ UNCHANGED <<requestVars, status, snapshot, raceVars>>

\* The row is locked by a handler that has flushed its change.
Locked(a, t) ==
  \E b \in Admins \ {a} : \E o \in op[b] : o.test = t /\ o.count # {}

\* Mutant: a test is resumed beside any other.
DecideResumeAnyhow(a) ==
  /\ \E o \in op[a] :
       /\ o.at = "decide" /\ o.to = "active" /\ o.loaded # "active"
       /\ Goto(a, o, "commit")
  /\ UNCHANGED <<calm, requestVars, redis, status, snapshot, raceVars>>

\* Resuming a test: 400 when another one is active.
DecideResume(a) ==
  /\ \E o \in op[a] :
       /\ o.at = "decide" /\ o.to = "active" /\ o.loaded # "active"
       /\ IF Active \ {o.test} # {} THEN End(a) ELSE Goto(a, o, "commit")
  /\ UNCHANGED <<calm, requestVars, redis, status, snapshot, raceVars>>

\* Completing a test: the status is flushed, then the samples are counted.
DecideComplete(a) ==
  /\ \E o \in op[a] :
       /\ o.at = "decide" /\ o.to = "completed" /\ o.loaded # "completed"
       /\ ~Locked(a, o.test)
       /\ op' = [op EXCEPT ![a] =
            {[o EXCEPT !.at = "commit", !.count = {Cardinality(Counted(o.test))}]}]
  /\ UNCHANGED <<calm, requestVars, redis, status, snapshot, raceVars>>

\* Pausing, or asking for the status the row was loaded with.
DecideOther(a) ==
  /\ \E o \in op[a] :
       /\ o.at = "decide" /\ (o.to = "paused" \/ o.to = o.loaded)
       /\ Goto(a, o, "commit")
  /\ UNCHANGED <<calm, requestVars, redis, status, snapshot, raceVars>>

\* The handlers that have checked and not committed when another makes t active.
Overtakes(a, t) ==
  {b \in Admins \ {a} : \E p \in op[b] : Checked(p) /\ p.test # t}

\* The commit writes the columns that differ from the row as it was loaded.
Commit(a) ==
  /\ \E o \in op[a] :
       /\ o.at = "commit" /\ ~Locked(a, o.test)
       /\ status' = [status EXCEPT ![o.test] = IF o.to = o.loaded THEN @ ELSE o.to]
       /\ snapshot' = [snapshot EXCEPT ![o.test] = IF o.count = {} THEN @ ELSE o.count]
       /\ overtaken' =
            (overtaken \ {a}) \cup (IF Activates(o) THEN Overtakes(a, o.test) ELSE {})
       /\ doubted' = IF Activates(o) /\ a \in overtaken THEN doubted \cup {o.test}
                     ELSE IF o.to # o.loaded THEN doubted \ {o.test} ELSE doubted
  /\ End(a)
  /\ UNCHANGED <<calm, requestVars, redis>>

-----------------------------------------------------------------------------
\* Mutant: SET without a TTL.
ExpireNever == FALSE

\* The 30 seconds of the entry are over.
Expire ==
  /\ redis # {}
  /\ redis' = {}
  /\ UNCHANGED <<calm, requestVars, adminVars>>

\* An exception leaves a handler or the worker dies.
DieRequest(q) ==
  /\ HandlersDie /\ stage[q] \notin {"new", "done"}
  /\ stage' = [stage EXCEPT ![q] = "done"]
  /\ calm' = FALSE
  /\ UNCHANGED <<adminVars, redis, route, target, samples, shadows>>

DieAdmin(a) ==
  /\ HandlersDie /\ ~Idle(a)
  /\ End(a)
  /\ calm' = FALSE
  /\ overtaken' = overtaken \ {a}
  /\ UNCHANGED <<requestVars, redis, status, snapshot, doubted>>

HandleRequest(q) ==
  \/ ReadActive(q) \/ CacheActive(q) \/ ServeOutside(q) \/ Serve(q)
  \/ RecordLookup(q) \/ Record(q) \/ RunShadow(q)

HandleAdmin(a) ==
  \/ Invalidate(a) \/ DecideResume(a) \/ DecideComplete(a) \/ DecideOther(a)
  \/ Commit(a)

Next ==
  \/ \E q \in Requests :
       LookupHit(q) \/ LookupMiss(q) \/ HandleRequest(q) \/ DieRequest(q)
  \/ \E a \in Admins :
       \/ \E t \in Tests : Create(a, t) \/ Load(a, t)
       \/ HandleAdmin(a) \/ DieAdmin(a)
  \/ Expire

Spec == Init /\ [][Next]_vars

\* Awaited calls return and Redis expires the key.
Fairness ==
  /\ \A q \in Requests : WF_vars(HandleRequest(q))
  /\ \A a \in Admins : WF_vars(HandleAdmin(a))
  /\ WF_vars(Expire)

-----------------------------------------------------------------------------
Sample == [request : Requests, test : Tests, routed : Tests]

\* create_ab_test: "Only one test can be active at a time."  Two are only when one
\* was made active between another handler's look for one and its commit, however
\* many administrators work at the same time and whatever fails.
OneActiveTest ==
  \A t, u \in Active : t # u => t \in doubted \/ u \in doubted

\* A request gives at most one sample and one shadow pair, however often the
\* tests changed under it, and the pair is of the test it was routed by.
OneSamplePerRequest ==
  \A q \in Requests :
    /\ Cardinality({s \in samples : s.request = q}) <= 1
    /\ \A s \in shadows : s.request = q => route[q] = {s.test} /\ s.test \in Shadow

\* The tests, the copy, the samples and the handlers keep their types, and a
\* request has one sample.
TypeOK ==
  /\ OneSamplePerRequest
  /\ status \in [Tests -> Statuses]
  /\ snapshot \in [Tests -> SUBSET Nat]
  /\ samples \subseteq Sample
  /\ shadows \subseteq [request : Requests, test : Tests]
  /\ redis \subseteq SUBSET Tests
  /\ stage \in [Requests -> Stages]
  /\ route \in [Requests -> SUBSET Tests]
  /\ target \in [Requests -> SUBSET Tests]
  /\ op \in [Admins -> SUBSET Op]
  /\ calm \in BOOLEAN
  /\ overtaken \subseteq Admins
  /\ doubted \subseteq Tests

\* A sample is counted for the test that routed its request, as long as nothing
\* overlapped or failed.
SampleOfRoutedTest == calm => \A s \in samples : s.test = s.routed

\* The summary stored with a completed test counts every sample it ever got, as
\* long as nothing overlapped or failed.
SnapshotCountsAll ==
  calm => \A t \in Tests : status[t] = "completed" =>
    snapshot[t] = {Cardinality(Counted(t))}

\* Routing follows the database between handlers that did not overlap or fail.
RoutesByActiveTest ==
  calm /\ Busy = {} => \A entry \in redis : entry = Active

\* While nothing overlaps or fails, what administrators read of a test is true:
\* its samples are of requests it routed, its stored summary counts them all,
\* and requests follow the test the database calls active.
SummaryIsTrue == SampleOfRoutedTest /\ SnapshotCountsAll /\ RoutesByActiveTest

\* Whatever raced, the cached route settles on an active test, or on none.
RoutingSettles ==
  (<>[](\A a \in Admins : Idle(a))) =>
    <>[](\A entry \in redis : entry \in FirstActive)
=============================================================================
