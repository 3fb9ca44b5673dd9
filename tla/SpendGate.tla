------------------------------ MODULE SpendGate ------------------------------
(***************************************************************************)
(* The budget gate of the proxy: what execute_proxy reads before it calls a *)
(* provider (check_budget over _calculate_spend and its Redis cache) and    *)
(* what log_proxy_transaction writes after it (the requests_log row, the    *)
(* cache invalidation, the second check).  The handlers of several requests *)
(* interleave at every await, budgets are edited under them, the spend      *)
(* cache expires, the calendar moves on, Redis calls fail and handlers die. *)
(*                                                                          *)
(* requests_log is kept as the sums _calculate_spend can ask of it: what    *)
(* each budget's scope was charged in each of its periods.  A budget row    *)
(* that shares a cache key with another budget (two organisations, one user *)
(* name) is possible, exactly as in the code.                               *)
(***************************************************************************)
EXTENDS Integers, FiniteSets, BudgetRules

CONSTANTS
  Requests,      \* the requests that may arrive, each once
  Orgs,          \* organisations; the scope id of an organisation is itself
  Scopes,        \* scope ids: organisations, teams, projects, hashed users
  Budgets,       \* the (organisation, scope, period) combinations with a budget
  Kinds,         \* BudgetPeriodEnum
  LastDay,       \* bound: the calendar runs over 0..LastDay
  PeriodStart,   \* PeriodStart[kind][day]: the first day of the day's period
  BudgetOrg,     \* Budget.org_id
  BudgetScope,   \* Budget.scope_id
  BudgetKind,    \* Budget.period
  RequestOrg,    \* the organisation of the request's API key
  Attributed,    \* teams and projects resolve_attribution finds for a request
  AttributedUser,\* the user it finds (at most one), as a set
  BodyUser,      \* the user of the body's "user" field, as a set
  Limits,        \* limits an administrator may set
  InitialTable,  \* the budget rows at the start
  AdminBudgets,  \* the budgets the administrator edits during the run
  Costs,         \* costs a provider call may have
  MaxInFlight,   \* bound: how many requests are handled at the same time
  RedisFails,    \* may a Redis call fail?
  HandlersDie    \* may an exception or a crash cut a handler short?

Days == 0..LastDay

Row == [budget : Budgets, limit : Limits, hard : BOOLEAN]

ASSUME CalendarAssumption ==
  /\ LastDay \in Nat
  /\ PeriodStart \in [Kinds -> [Days -> Days]]
  /\ \A k \in Kinds, d \in Days : PeriodStart[k][d] <= d
  /\ \A k \in Kinds, d, e \in Days : d <= e => PeriodStart[k][d] <= PeriodStart[k][e]

ASSUME BudgetAssumption ==
  /\ Orgs \subseteq Scopes
  /\ BudgetOrg \in [Budgets -> Orgs]
  /\ BudgetScope \in [Budgets -> Scopes]
  /\ BudgetKind \in [Budgets -> Kinds]
  /\ Limits \subseteq Nat \ {0}
  /\ InitialTable \subseteq Row
  /\ AdminBudgets \subseteq Budgets

ASSUME RequestAssumption ==
  /\ RequestOrg \in [Requests -> Orgs]
  /\ Attributed \in [Requests -> SUBSET Scopes]
  /\ AttributedUser \in [Requests -> SUBSET Scopes]
  /\ BodyUser \in [Requests -> SUBSET Scopes]

ASSUME CostAssumption == Costs \subseteq Nat

ASSUME BoundsAssumption ==
  /\ MaxInFlight \in Nat
  /\ RedisFails \in BOOLEAN
  /\ HandlersDie \in BOOLEAN

VARIABLES
  day,       \* the calendar
  table,     \* the budgets table: a set of rows, one per budget
  spent,     \* sums over requests_log, per budget scope and period
  cache,     \* live Redis entries "finops:spend:..."
  phase,     \* where the handler of a request is
  todo,      \* budget rows the running check_budget has still to look at
  missed,    \* the row whose cache lookup missed, before the database read
  fetched,   \* the spend read from the database, before SETEX
  checked,   \* what the running (or last) check_budget found, row by row
  outcome,   \* what the log row of the request will say
  \* Histories: which of the races the code leaves open has happened.
  stale,     \* keys whose entry a lost DELETE, a late SETEX or midnight left behind
  outrun,    \* <<request, budget>>: the sum the request holds is out of date
  edited,    \* <<request, budget>>: the row was set after the request's select
  loose      \* budgets charged, or cut below their spend, behind the gate's back

history == <<stale, outrun, edited, loose>>

vars == <<day, table, spent, cache, phase, todo, missed, fetched, checked,
          outcome, history>>

-----------------------------------------------------------------------------
Phases == {"new", "gate", "call", "log", "invalidate", "recheck", "done"}

Outcome == [ok : BOOLEAN, cost : Costs \cup {0}, attributed : BOOLEAN]

NoOutcome == [ok |-> FALSE, cost |-> 0, attributed |-> FALSE]

\* The key carries the scope id and the period, not the organisation.
Key(b) == <<BudgetScope[b], BudgetKind[b]>>

Keys == {Key(b) : b \in Budgets}

\* A cache entry; the budget and the period it was computed for are history.
Entry == [key : Scopes \X Kinds, spend : Nat, budget : Budgets, period : Days]

Check == [row : Row, spend : Nat, period : Days]

CurrentPeriod(b) == PeriodStart[BudgetKind[b]][day]

\* Budgets of the organisation that apply to a request with these scopes.
Applies(b, r, scopes) ==
  /\ BudgetOrg[b] = RequestOrg[r]
  /\ BudgetScope[b] = RequestOrg[r] \/ BudgetScope[b] \in scopes

\* Mutant: the gate forgets the user.
GateScopesTeamsOnly(r) == Attributed[r]

GateScopes(r) == Attributed[r] \cup AttributedUser[r]

\* result.team_id, result.project_id and resolved_user of the proxy endpoint:
\* an early return carries no attribution, and the user then is the body's.
RowScopes(r) ==
  IF outcome[r].attributed
  THEN Attributed[r] \cup (IF AttributedUser[r] # {} THEN AttributedUser[r]
                                                      ELSE BodyUser[r])
  ELSE BodyUser[r]

\* Mutant: the threshold of the warnings stops the request.
BlocksWarned(c) ==
  c.row.hard /\ Warned([limit |-> c.row.limit, alertPct |-> 60], c.spend)

Blocks(c) == HardBlocked(c.row, c.spend)

\* Mutant: only the organisation's, teams' and projects' keys are deleted.
InvalidatedButUser(r) == ({RequestOrg[r]} \cup Attributed[r]) \X Kinds

\* Mutant: only the teams' and projects' keys are deleted.
InvalidatedTeams(r) == Attributed[r] \X Kinds

\* The keys invalidate_spend_cache deletes: every period of every scope.
Invalidated(r) == ({RequestOrg[r]} \cup RowScopes(r)) \X Kinds

\* The log row of a request is committed, the DELETE of this key still to come.
Awaited(k) ==
  \E r \in Requests : phase[r] = "invalidate" /\ k \in Invalidated(r)

\* The budgets whose sum a handler has read or compared.
Sums(r) == {c.row.budget : c \in fetched[r] \cup checked[r]}

\* What was read of these budgets is out of date from now on.
Outrun(budgets) ==
  outrun \cup {pair \in Requests \X budgets : pair[2] \in Sums(pair[1])}

\* A new check of r has nothing out of date in hand.
OfOthers(r, pairs) == {pair \in pairs : pair[1] # r}

InFlight == {r \in Requests : phase[r] \notin {"new", "done"}}

Checking(r) == phase[r] \in {"gate", "recheck"}

BetweenRows(r) == Checking(r) /\ missed[r] = {} /\ fetched[r] = {}

-----------------------------------------------------------------------------
Init ==
  /\ day = 0
  /\ table = InitialTable
  /\ spent = [b \in Budgets |-> [d \in Days |-> 0]]
  /\ cache = {}
  /\ phase = [r \in Requests |-> "new"]
  /\ todo = [r \in Requests |-> {}]
  /\ missed = [r \in Requests |-> {}]
  /\ fetched = [r \in Requests |-> {}]
  /\ checked = [r \in Requests |-> {}]
  /\ outcome = [r \in Requests |-> NoOutcome]
  /\ stale = {} /\ outrun = {} /\ edited = {} /\ loose = {}

\* check_budget selects the organisation's rows once and loops over those that
\* apply; limits edited later are not seen by the running loop.
BeginCheck(r, scopes) ==
  /\ todo' = [todo EXCEPT ![r] =
                {row \in table : Applies(row.budget, r, scopes)}]
  /\ checked' = [checked EXCEPT ![r] = {}]
  /\ outrun' = OfOthers(r, outrun) /\ edited' = OfOthers(r, edited)

\* The policy lets the request pass: attribution, then check_budget starts.
Arrive(r) ==
  /\ phase[r] = "new"
  /\ Cardinality(InFlight) < MaxInFlight
  /\ phase' = [phase EXCEPT ![r] = "gate"]
  /\ BeginCheck(r, GateScopes(r))
  /\ UNCHANGED <<day, table, spent, cache, missed, fetched, outcome, stale, loose>>

\* The security policy answers 403: no attribution, no gate, but a log row.
ArriveBlocked(r) ==
  /\ phase[r] = "new"
  /\ Cardinality(InFlight) < MaxInFlight
  /\ phase' = [phase EXCEPT ![r] = "log"]
  /\ UNCHANGED <<day, table, spent, cache, todo, missed, fetched, checked,
                 outcome, history>>

\* One row of the loop is decided: the limit comparison reads the record.
Record(r, row, spend, period) ==
  /\ checked' = [checked EXCEPT ![r] =
                   @ \cup {[row |-> row, spend |-> spend, period |-> period]}]
  /\ todo' = [todo EXCEPT ![r] = @ \ {row}]

\* The entry is another budget's, or one that is known to be out of date.
Unreliable(e, b) == e.budget # b \/ Awaited(e.key) \/ e.key \in stale

\* redis.get answers with a live entry.
CacheHit(r) ==
  /\ BetweenRows(r)
  /\ \E row \in todo[r], e \in cache :
       /\ e.key = Key(row.budget)
       /\ Record(r, row, e.spend, e.period)
       /\ outrun' = IF Unreliable(e, row.budget) THEN outrun \cup {<<r, row.budget>>}
                                                ELSE outrun
  /\ UNCHANGED <<day, table, spent, cache, phase, missed, fetched, outcome,
                 stale, edited, loose>>

\* redis.get finds nothing, or fails and the failure is only logged.
CacheMiss(r) ==
  /\ BetweenRows(r)
  /\ \E row \in todo[r] :
       /\ RedisFails \/ \A e \in cache : e.key # Key(row.budget)
       /\ missed' = [missed EXCEPT ![r] = {row}]
  /\ UNCHANGED <<day, table, spent, cache, phase, todo, fetched, checked,
                 outcome, history>>

\* SELECT SUM(cost_usd) over the organisation's successful rows of the period.
ReadSpend(r) ==
  /\ \E row \in missed[r] :
       LET p == CurrentPeriod(row.budget)
       IN  fetched' = [fetched EXCEPT ![r] =
             {[row |-> row, spend |-> spent[row.budget][p], period |-> p]}]
  /\ missed' = [missed EXCEPT ![r] = {}]
  /\ UNCHANGED <<day, table, spent, cache, phase, todo, checked, outcome, history>>

\* redis.setex(key, 60, spend)
Put(c) ==
  {e \in cache : e.key # Key(c.row.budget)}
    \cup {[key |-> Key(c.row.budget), spend |-> c.spend,
           budget |-> c.row.budget, period |-> c.period]}

\* SETEX stores a sum, out of date or not, in place of the entry.
Stored(r, b) ==
  IF <<r, b>> \in outrun THEN stale \cup {Key(b)} ELSE stale \ {Key(b)}

\* The sum read earlier is cached, unless Redis fails, and used.
CacheSpend(r) ==
  /\ \E c \in fetched[r] :
       /\ \/ cache' = Put(c) /\ stale' = Stored(r, c.row.budget)
          \/ RedisFails /\ UNCHANGED <<cache, stale>>
       /\ Record(r, c.row, c.spend, c.period)
  /\ fetched' = [fetched EXCEPT ![r] = {}]
  /\ UNCHANGED <<day, table, spent, phase, missed, outcome, outrun, edited, loose>>

\* hard_blocked: 429 without attribution; otherwise on to the provider.
Decide(r) ==
  /\ phase[r] = "gate" /\ BetweenRows(r) /\ todo[r] = {}
  /\ phase' = [phase EXCEPT ![r] =
       IF \E c \in checked[r] : Blocks(c) THEN "log" ELSE "call"]
  /\ UNCHANGED <<day, table, spent, cache, todo, missed, fetched, checked,
                 outcome, history>>

\* A cached answer, a provider answer, an error or a stream that broke off:
\* the row keeps whether the status is 200, and the cost, which no sum counts
\* if it is not.
Answer(r) ==
  /\ phase[r] = "call"
  /\ \E ok \in BOOLEAN, cost \in Costs \cup {0} :
       /\ ok \/ cost = 0
       /\ outcome' = [outcome EXCEPT ![r] =
                        [ok |-> ok, cost |-> cost, attributed |-> TRUE]]
  /\ phase' = [phase EXCEPT ![r] = "log"]
  /\ UNCHANGED <<day, table, spent, cache, todo, missed, fetched, checked, history>>

\* Only rows with status 200 count.
Charges(r, b) == outcome[r].ok /\ Applies(b, r, RowScopes(r))

\* What a committed row adds to each sum.
Charged(r) ==
  [b \in Budgets |->
     IF Charges(r, b)
     THEN [spent[b] EXCEPT ![CurrentPeriod(b)] = @ + outcome[r].cost]
     ELSE spent[b]]

\* The gate compared no sum of this budget for r, or not the one charged now.
Unchecked(r, b) ==
  \/ ~Applies(b, r, GateScopes(r))
  \/ <<r, b>> \in outrun \cup edited

\* The requests_log row is committed.
LogTransaction(r) ==
  /\ phase[r] = "log"
  /\ spent' = Charged(r)
  /\ phase' = [phase EXCEPT ![r] = "invalidate"]
  /\ outrun' = Outrun({b \in Budgets : Charges(r, b)})
  /\ loose' = loose \cup {b \in Budgets : Charges(r, b) /\ Unchecked(r, b)}
  /\ UNCHANGED <<day, table, cache, todo, missed, fetched, checked, outcome,
                 stale, edited>>

\* The entries whose DELETE never reaches Redis.
Undeleted(r) == stale \cup {e.key : e \in {e \in cache : e.key \in Invalidated(r)}}

\* The DELETE of the spend keys (its failure is only logged); the second
\* check_budget begins.
Invalidate(r) ==
  /\ phase[r] = "invalidate"
  /\ \/ /\ cache' = {e \in cache : e.key \notin Invalidated(r)}
        /\ stale' = stale \ Invalidated(r)
     \/ RedisFails /\ cache' = cache /\ stale' = Undeleted(r)
  /\ phase' = [phase EXCEPT ![r] = "recheck"]
  /\ BeginCheck(r, RowScopes(r))
  /\ UNCHANGED <<day, table, spent, missed, fetched, outcome, loose>>

\* The handler is over, its local state with it.
Leave(r) ==
  /\ phase' = [phase EXCEPT ![r] = "done"]
  /\ todo' = [todo EXCEPT ![r] = {}]
  /\ missed' = [missed EXCEPT ![r] = {}]
  /\ fetched' = [fetched EXCEPT ![r] = {}]
  /\ checked' = [checked EXCEPT ![r] = {}]
  /\ outcome' = [outcome EXCEPT ![r] = NoOutcome]
  /\ outrun' = OfOthers(r, outrun) /\ edited' = OfOthers(r, edited)
  /\ stale' = IF phase[r] = "invalidate" THEN Undeleted(r) ELSE stale
  /\ UNCHANGED <<day, table, spent, cache, loose>>

\* The second check ends; its warnings go to dispatch_alerts (BudgetAlerts).
Finish(r) == phase[r] = "recheck" /\ BetweenRows(r) /\ todo[r] = {} /\ Leave(r)

\* An exception leaves the handler or the worker dies: what is committed or
\* cached stays, the rest of the handler never happens.
Die(r) == HandlersDie /\ r \in InFlight /\ Leave(r)

-----------------------------------------------------------------------------
\* Requests between their select of the rows and their own log row.
Underway == {r \in Requests : phase[r] \in {"gate", "call", "log"}}

\* set_budget updates the row of the budget or inserts one.
SetBudget(b) ==
  /\ \E limit \in Limits, hard \in BOOLEAN :
       /\ table' = {row \in table : row.budget # b}
                     \cup {[budget |-> b, limit |-> limit, hard |-> hard]}
       /\ loose' = IF hard /\ \E d \in Days : spent[b][d] >= limit
                    THEN loose \cup {b} ELSE loose
  /\ edited' = edited \cup (Underway \X {b})
  /\ UNCHANGED <<day, spent, cache, phase, todo, missed, fetched, checked,
                 outcome, stale, outrun>>

DeleteBudget(b) ==
  /\ \E row \in table : row.budget = b
  /\ table' = {row \in table : row.budget # b}
  /\ UNCHANGED <<day, spent, cache, phase, todo, missed, fetched, checked,
                 outcome, history>>

\* Mutant: SET without a TTL.
ExpireNever(k) == FALSE

\* The 60 seconds of an entry are over.
Expire(k) ==
  /\ \E e \in cache : e.key = k
  /\ cache' = {e \in cache : e.key # k}
  /\ stale' = stale \ {k}
  /\ UNCHANGED <<day, table, spent, phase, todo, missed, fetched, checked,
                 outcome, outrun, edited, loose>>

\* Midnight: what was read or cached of a period that is over is out of date.
NextDay ==
  LET Over == {b \in Budgets : PeriodStart[BudgetKind[b]][day + 1] # CurrentPeriod(b)}
  IN  /\ day < LastDay
      /\ day' = day + 1
      /\ outrun' = Outrun(Over)
      /\ stale' = stale \cup {e.key : e \in {e \in cache : e.budget \in Over}}
      /\ UNCHANGED <<table, spent, cache, phase, todo, missed, fetched, checked,
                     outcome, edited, loose>>

-----------------------------------------------------------------------------
\* The steps a running handler takes by itself.
Handle(r) ==
  \/ CacheHit(r) \/ CacheMiss(r) \/ ReadSpend(r) \/ CacheSpend(r)
  \/ Decide(r) \/ Answer(r) \/ LogTransaction(r) \/ Invalidate(r) \/ Finish(r)

\* Everything but an administrator's edits.
Serve ==
  \/ \E r \in Requests : Arrive(r) \/ ArriveBlocked(r) \/ Handle(r) \/ Die(r)
  \/ \E k \in Keys : Expire(k)
  \/ NextDay

Edit == \E b \in AdminBudgets : SetBudget(b) \/ DeleteBudget(b)

Next == Serve \/ Edit

Spec == Init /\ [][Next]_vars

\* The event loop runs every ready handler, a provider call ends (httpx times
\* out after 60 seconds) and Redis expires what was stored with a TTL.
Fairness ==
  /\ \A r \in Requests : WF_vars(Handle(r))
  /\ \A k \in Keys : WF_vars(Expire(k))

-----------------------------------------------------------------------------
HistoryOK ==
  /\ stale \subseteq Scopes \X Kinds
  /\ outrun \subseteq Requests \X Budgets
  /\ edited \subseteq Requests \X Budgets
  /\ loose \subseteq Budgets

\* Sums, entries, checks and phases keep their types.
TypeOK ==
  /\ day \in Days
  /\ table \subseteq Row
  /\ spent \in [Budgets -> [Days -> Nat]]
  /\ cache \subseteq Entry
  /\ phase \in [Requests -> Phases]
  /\ todo \in [Requests -> SUBSET Row]
  /\ missed \in [Requests -> SUBSET Row]
  /\ fetched \in [Requests -> SUBSET Check]
  /\ checked \in [Requests -> SUBSET Check]
  /\ outcome \in [Requests -> Outcome]
  /\ HistoryOK

-----------------------------------------------------------------------------
(* Properties. *)

\* No two budgets share a cache key: true unless two organisations budget the
\* same user name over the same period.
OwnKeys == \A a, b \in Budgets : Key(a) = Key(b) => a = b

\* Every spend check_budget compares with a limit was really charged to that
\* budget in the period it stands for: a 429 or a warning has a cause in the
\* organisation's own requests_log.
CheckedSpendIsReal ==
  \A r \in Requests : \A c \in checked[r] :
    c.spend <= spent[c.row.budget][c.period]

\* Charged to r although the gate could not see it: the user of the body counts
\* only if attribution finds none.
ByBodyOnly(r, b) == ~Applies(b, r, GateScopes(r)) /\ BudgetScope[b] \in BodyUser[r]

\* The gate compared this very row with a sum below its limit.
Passed(r, row) == \E c \in checked[r] : c.row = row /\ c.spend < row.limit

\* A request whose call is over passed the check of every hard budget its log
\* row is charged to, however it raced, but rows that were set after its select
\* and the budgets of a user only its body names.
AdmittedWasChecked ==
  \A r \in Requests : phase[r] = "log" /\ outcome[r].attributed =>
    \A row \in table : row.hard /\ Applies(row.budget, r, RowScopes(r)) =>
      Passed(r, row) \/ <<r, row.budget>> \in edited \/ ByBodyOnly(r, row.budget)

\* A live entry is the sum over requests_log of the budget's current period,
\* unless a DELETE of its key is still to come or never came, a SETEX stored a
\* sum read before a commit, or the period turned under it: no other
\* interleaving of handlers, failures and midnights leaves a wrong sum.
StaleIsExplained ==
  \A e \in cache :
    \/ e.spend = spent[e.budget][CurrentPeriod(e.budget)]
    \/ Awaited(e.key) \/ e.key \in stale

\* A hard budget is overrun by less than the cost of one call, unless a call was
\* charged whose check another one, an edit or midnight outran, or which the
\* gate did not check, or the limit was set below what was already spent.
OverrunByOneCall ==
  \A row \in table : row.hard /\ row.budget \notin loose =>
    \A d \in Days : \E c \in Costs : spent[row.budget][d] < row.limit + c

\* What the docstring of check_budget says of every applicable budget: once a hard
\* limit is reached requests are stopped.  A user only the body names is charged
\* and never looked at.
HardLimitStops ==
  \A row \in table : row.hard =>
    \A d \in Days : \E c \in Costs : spent[row.budget][d] < row.limit + c

\* Whatever raced, failed or died, the cache ends up telling the truth about
\* the period it is read in.
CacheSettles ==
  <>[](\A e \in cache : /\ e.period = CurrentPeriod(e.budget)
                        /\ e.spend = spent[e.budget][e.period])

-----------------------------------------------------------------------------
(* The gate implements BudgetPromise. *)

Verdict(r) ==
  CASE phase[r] = "new"  -> "new"
    [] phase[r] = "gate" -> "waiting"
    [] phase[r] = "call" -> "admitted"
    [] phase[r] = "log"  -> IF outcome[r].attributed THEN "admitted"
                                                     ELSE "refused"
    [] OTHER             -> "settled"

Promise == INSTANCE BudgetPromise WITH
  Periods <- Days,
  Costs <- Costs \cup {0},
  ledger <- spent,
  verdict <- [r \in Requests |-> Verdict(r)]

\* A 429 has a cause in the organisation's ledger, and a request is charged at
\* most once, after admission, to budgets of its own organisation: every step
\* of the gate is a step of BudgetPromise.
KeepsPromise == Promise!Spec

=============================================================================
