# TLA+ models of the Nimbic AI gateway backend

The program is a FastAPI backend (`src/code/nimbic/backend/app/`, "app/" below)
that stands between the applications of an organisation and the providers of
language models.  Every proxied request is checked against a security policy
and the organisation's budgets, is routed (rules, A/B test, response cache),
is answered by a provider, and is written to `requests_log`; administrators
edit budgets, rules, tests, policies, credentials and keys through other
endpoints.  State lives in PostgreSQL (one transaction per request session,
read committed) and in Redis (cached sums, rules, tests, answers, policies, the
rate-limit windows).  One worker is an asyncio event loop, so handlers
interleave at every `await`; several workers interleave at the same places.

## 1. Inventory

| Component | Source | State | Operations | What makes it correct |
|---|---|---|---|---|
| Budget gate, spend accounting | `finops/attribution_service.py`, `services/proxy_svc.py`, `routers/proxy.py` | `budgets`, `requests_log`, Redis `finops:spend:*` (60 s) | `check_budget` before and after a call, `_calculate_spend`, `log_proxy_transaction`, `invalidate_spend_cache`, budget edits | refusals have a cause; a stale sum has a named cause and does not last; who is let through was checked; bounded overrun |
| Budget rules, store, dashboard | `attribution_service.py`, `finops/budget_service.py` | `budgets` | `set_budget` (upsert), `delete_budget`, `get_spend`, `get_all_budgets` | the limit answered is the one that stands; dashboard and gate agree |
| Budget alerts | `dispatch_alerts`, `models/finops.py` | `budget_alerts` | dispatch as task or awaited, cascade with the budget | one unresolved alert per budget and type; a warning is lost only for a named reason |
| A/B tests, shadow requests | `routing/ab_test.py`, `routers/routing.py`, `services/proxy_svc.py` | `ab_tests`, `ab_test_results`, `shadow_results`, Redis `ab_test:active` (30 s) | create, pause, resume, complete, route, record, shadow | one active test; samples belong to the test that routed; summaries complete |
| Attribution | `resolve_attribution`, team and project endpoints of `routers/finops.py` | `teams`, `projects` | find or create by name; create, rename, delete, close by hand | charged as named; one row per name; no request lost over a name |
| Proxy pipeline | `services/proxy_svc.py`, `routers/proxy.py` | local to the handler, background tasks | policy, gate, cache, test or rules, provider, fallback chain, stream, log | of the first user message only what the policy left is sent; one log row per request, with the cost of the call that answered; everything ends |
| Response cache | `routing/semantic_cache.py`, `routers/cache.py` | `semantic_cache`, `faq_entries`, Redis exact keys | lookup in three layers, background store, delete, flush | an answer fits its request and organisation; a removal or flush misses only what a named race or failure left; hits are counted |
| Smart router and rules | `routing/smart_router.py`, `routing/prompt_classifier.py`, `routers/routing.py` | `routing_rules`, Redis rules list (300 s) | classification, evaluation by priority, fallback chains; create, change, delete, reorder | a request goes by a committed set of rules; copies settle |
| Security policy evaluation | `security/*.py` | none | detectors, redaction, combination of findings | the strictest applicable action; redaction hides what was found |
| Policy store, violations | `services/security_svc.py`, `routers/security.py` | `security_policies`, `security_violations`, Redis policy copy | get-or-create, edits of columns and patterns | no lost edit, verdicts by a policy in force |
| Data residency | `security/residency_enforcer.py` | none | origin, blocked countries, allowed providers | as part of the verdict |
| API keys | `services/key_svc.py`, `middleware/auth.py`, `routers/keys.py` | `api_keys` | issue, edit, revoke, expire, authenticate | a revoked or expired key is refused; edits stay in the organisation |
| Rate limiter | `middleware/rate_limit.py` | a Redis sorted set per key and window | prune, add, count | at most the quota per window; nobody refused below it |
| Provider credentials | `services/provider_svc.py` | `provider_configs` | upsert, delete | a replaced key is not used |
| Organisations | `services/org_svc.py` | `orgs` | create with its policy, update | a policy exists when it is needed |
| Reports and forecasts | `finops/*_service.py`, `services/analytics_svc.py`, `routers/*` | none | several statements per report | sections of one report agree |
| Listings | `services/analytics_svc.py`, `routers/logs.py`, `routers/security.py`, `routers/cache.py` | none | count and select per page | a client that pages through misses nothing |
| Cost and significance arithmetic | `services/cost_svc.py`, `routing/ab_stats.py` | none | pure, floating point | numeric |
| Client SDKs | `sdk/python`, `sdk/node` | none | thin HTTP clients; `node_modules` is vendored | - |

How they interact.  A proxy endpoint resolves the key, runs `execute_proxy`
(policy -> attribution -> `check_budget` -> cache -> active test or rules ->
provider, along the fallback chain -> `record_result`, and tasks for shadow
calls, savings and the cache), then `log_proxy_transaction` on a *new* session
(row committed -> spend keys deleted -> `check_budget` again ->
`dispatch_alerts`); a stream is logged by its wrapper when it ends.  The gate
also starts `dispatch_alerts` as a task on the *request's* session.
Administration endpoints change the same tables and delete the same Redis keys;
nothing but PostgreSQL's row locks and constraints orders them.

What is hard.  A read, an `await` and a dependent write in every one of these
paths; deletions of a cached copy before (A/B tests, rules) or after (spend,
policies) the commit they are for; select-then-insert without a constraint
(alerts, tests, teams, budgets, credentials) or with one (policies); stale
copies of rows that are written back; Redis failures that are logged and
ignored; handlers that die between a commit and the invalidation; the period of
a budget ending under a cached sum; tasks after the answer was sent; reports and
pages made by several statements.  The list with lines is `hazards` in
`PROJECT.json`.

## 2. Modules

| Module | Stands for |
|---|---|
| `BudgetRules` | the comparisons of `check_budget` and of the budget dashboard, as operators |
| `SpendGate` | the gate and the logger over several concurrent requests |
| `BudgetPromise` | what the gate promises: an abstract ledger and a verdict per request |
| `BudgetAlerts` | `dispatch_alerts` as concurrent tasks over `budget_alerts` |
| `BudgetStore` | `set_budget` as overlapping upserts, and `delete_budget` |
| `Attribution` | `resolve_attribution` statement by statement, beside administrators of teams and projects |
| `ABTests` | tests, routing by the cached active test, samples, shadow pairs, summaries |
| `ResponseCache` | lookup in three layers, background store, removal, flush, FAQ edits |
| `Detectors` | the three detectors from their matches on: overlaps, redaction, severities |
| `PolicyRules` | `PolicyEngine.evaluate`: findings and origin to a verdict |
| `PolicyStore` | the policy row, its Redis copy, its editors and the evaluations that load it |
| `RouteRules` | classification, the matching rule, the fallback chain |
| `RouteStore` | the rules, their Redis copy, edits and reorders under row locks |
| `ProviderStore` | upserts and removals of credentials |
| `ProxyPipeline` | a request from the policy to its log rows, with every background task; composes `RouteRules` and `PolicyRules` |
| `ApiKeys` | authentication beside issue, edit, revocation and expiry |
| `RateLimiter` | both windows of the limiter under requests that overtake each other |
| `Reports` | the statements of every report, and rows, days and deletions in between |
| `Listings` | paging through logs, violations and cache entries |
| `Settings` | `PolicyStore`, `RouteStore` and `ProviderStore`, interleaved |
| `Tenants` | `ApiKeys`, `RateLimiter`, `Attribution`, `BudgetStore`, `Reports` and `Listings`, interleaved |
| `SpendGateProofs`, `BudgetAlertsProofs`, `ABTestsProofs`, `ResponseCacheProofs`, `ProxyPipelineProofs` | theorems about the module they are named after |
| `RulesProofs` | theorems about the operators of `BudgetRules`, `PolicyRules`, `RouteRules` and `Detectors` |
| `SettingsProofs` | theorems about `Settings` and its parts |
| `TenantsProofs` | theorems about `Tenants` and its parts |
| `MCSpendGate`, `MCBudgetAlerts`, `MCABTests`, `MCResponseCache`, `MCPipeline`, `MCSettings`, `MCTenants` | small instances for TLC |

The parts of `Settings` and of `Tenants` share no variable: a step of one leaves
the others alone, and a behaviour of the whole is a behaviour of each part
(proved, so every theorem of a part holds of them interleaved).  A behaviour of
`MCSettings` and `MCTenants` exercises one part (`area`) and leaves the others in
an initial state; nothing is lost by it, as the properties speak of one part
each.  Operators whose comment begins with "Mutant:" are wrong variants of the
definition after them, which the properties must notice; no specification uses
one.

### SpendGate

One handler per request walks through `phase`: `new` -> `gate`
(`execute_proxy` up to the 429) -> `call` -> `log` (`log_proxy_transaction`
up to its commit) -> `invalidate` -> `recheck` -> `done`.  Within `gate` and
`recheck` the loop of `check_budget` is taken apart at its awaits: for a row
still in `todo`, `CacheHit` or `CacheMiss` (redis.get), `ReadSpend` (the
SELECT SUM), `CacheSpend` (SETEX); `checked` holds what each row was compared
with.  `requests_log` is kept as the sums the code can ask of it: `spent[b][d]`
is what the rows of budget b's organisation and scope with status 200 add up
to in the period that starts on day d.  `Key(b)` is the Redis key: scope id and
period, without the organisation and without a date.  `Expire`, `NextDay`,
`SetBudget`, `DeleteBudget`, `Die` and the failing alternatives of the Redis
steps are the environment.  `CacheHit` copies the history fields of the entry
(the budget and the period it was computed for), which the code does not store;
no guard reads them.  `RowScopes` and `GateScopes` differ as in the code: the
gate runs before the body's `user` field is looked at, the log row is charged
to it.  Four history variables name the races the code leaves open when they
happen, and no guard reads them: `stale` (an entry that a lost DELETE, a SETEX
that came late or midnight left wrong), `outrun` (a request holds a sum that has
changed since), `edited` (a row was set after the request's select) and `loose`
(a budget was charged by a call whose sum was outrun or which the gate did not
look at, or its limit was cut below what it had spent).

### BudgetPromise

A verdict per request and a ledger of what each budget was charged.  A request
may be refused only when some budget of its own organisation is at a limit that
exists; it is charged at most once, after admission, and only to budgets of its
organisation.  `SpendGate!KeepsPromise` instantiates it with `verdict` computed
from the phase and `ledger` from `spent`.

### BudgetAlerts

A task per dispatch.  SQLAlchemy's autoflush is modelled: the write decided for
one warning (`pending`) is sent when the next SELECT or the commit runs, and
then it is `sent`: it holds its row lock (`WaitsFor`), needs its budget
(`CanSend`) and its percentage must fit `Numeric(5, 2)` (`FitsColumn`).
`alerts` has the committed rows only; an UPDATE of a row whose amount did not
change is not sent.  `Deadlock`, the foreign-key lock of `Holds` and the cascade
of `DeleteBudget` are the database's.  No code sets `resolved_at`, so alerts
only leave with their budget.  `met` is history: which dispatches ran at the
same time.  An id of an alert names the dispatch that wrote it, "earlier" or
"doubled" for what was there before.

### BudgetStore

An upsert selects the row of its scope and period (`SelectBudget`, which fails
on two), inserts or updates it (`WriteBudget`; a limit equal to its copy is not
written), and reads it back for the answer (`ReadBack`, or `RowIsGone` if it was
deleted meanwhile, in which case the answer is an error after the commit).

### Attribution

`at[r]` is the statement the handler of r is at: find the team by id or name,
ignoring case, add it, move the project's team, find or add the project, link
it, then the department.  Each SELECT that may find two rows can fail
(`CannotResolve`).  The six endpoint actions are one step each, as their one
transaction is; deleting a team deletes its projects with it (the ORM's
cascade, `models/finops.py:46`) and sets the foreign keys of log rows to null,
and a request that still holds a deleted row cannot be logged.
`gone`, `doubled`, `calm`, `closed` are history.

### ABTests

A request looks the active test up (`LookupHit`, or `LookupMiss`, `ReadActive`,
`CacheActive`), is served, asks *again* which test is active
(`RecordLookup`), records its sample and may add a shadow pair.  Administrators
create a test or load one and ask for a status; both handlers delete the Redis
key first and commit later.  Two handlers may look for an active
test before either commits: `overtaken` are the handlers that looked before
another one's test became active, `doubted` the tests such a handler activated
nevertheless.  Both and `samples[..].routed` are history.  A row that has been
flushed but not committed is `Locked`.

### ResponseCache

A lookup goes through `stage`: the exact answer in Redis, the nearest row, the
nearest active FAQ, then the provider; what it found is kept in `found`, and
for a row or FAQ the UPDATE of the hit counter (`CountHit`) is a step of its
own, after which the answer is given even if the row is gone.  `Near` and
`VeryNear` are the oracle for a similarity of at least 0.80 and 0.88: which of
several near rows is nearest is left open, but a near row excludes a miss.
`storing` is the background task: `PutExact`, then `InsertRow`; it only exists
if the policy saw no PII (`MayStore`).  An administrator's `op` first drops
Redis keys one by one, then rows: the one selected, or all the organisation has
*at that moment*.  `missed` is history: the requests whose entry in Redis a
removal or flush did not reach, since `redis.delete` failed or the entry was
stored while it ran.  The key is made of the first user message only, as in
`execute_proxy`: of two conversations that differ in other messages, one is
answered with the other's answer.

### Detectors, PolicyRules, PolicyStore

What a regular expression, Presidio or a word list matches is part of a text;
from there on the code is followed: sorting and dropping overlapping spans,
which characters redaction leaves (`Shown`), and each severity.  Requests from
private and loopback addresses count as the United States' and are never blocked
(`local`).  Two spans with
the same start and end keep the order they were found in, which the model does
not know: `Sorted` is some order that agrees with `Precedes`, TLC is given texts
that leave no choice, and the theorems hold of every such order.  `PolicyRules`
combines the actions for the findings and the residency check.  `PolicyStore`
has the row (unique per organisation), the copy with a TTL, editors that load
the row, build the new one and write the columns that differ, and evaluations
that load the row, write the copy, and decide.  The Redis client decodes
answers and `get_cached_policy` decodes again, which raises and is caught: the
copy is written and deleted but never decides; the GeoIP cache has the same
flaw.  `create_org` commits the organisation and then seeds the policy, and may
die in between.

### RouteRules, RouteStore, ProviderStore

`RouteRules` are operators: complexity and category, the first matching rule by
priority, the chain of fallbacks with its last resort.  In `RouteStore` each
editor deletes the copy, selects, sends and commits; a reorder sends one rule's
priority with the next SELECT, holds the row, and two reorders may lock each
other, which the database breaks.  A reorder of no rules only deletes the copy
and commits.  Nothing keeps a client from naming a rule twice in one reorder; such
requests, which no test or client in the repository sends, are left out.  A
behaviour creates at most one rule, under an id of `Rules` that is not in the
table.  `ProviderStore` has upserts that select and then write, so two may both
insert, and a call takes whichever row comes first.

### ProxyPipeline

A request is its first user message, which the policy reads and redacts, and
`rest`: the other messages and the extra parameters, of which only matters what
personal data the detectors *would* find in them.  They never see it, and
`Payload` sends it on as given.  `req[r]` is what the handler of a request knows:
its verdict, its text after redaction, its chain and how far it got, who answered, status and cost.  Every
early return and exception of `execute_proxy` is an action: block, budget,
cache hit, test or rules, missing credentials (or, of a generic provider, a
missing URL), unavailable and rejecting
providers, an exhausted chain, anything that raises.  `tasks` are the
background tasks (violations, hit, savings, store, shadow, log), each of which
may run or be lost.  Attribution and budget, similarity and the life of cached
answers are in their own modules; here `Admit`/`Refuse` and `Hit`/`Miss` stand for
their outcomes.

### ApiKeys, RateLimiter

`ApiKeys` selects candidates by prefix, compares hashes, commits `last_used_at`
(abstracted: no guard reads it), and lets admin keys issue, edit and revoke keys
of their organisation; an edit holds a copy of the row and writes only the
columns that differ from it.  `RateLimiter` reads the clock once and then sends
one pipeline per window (prune, add, count, expire); requests may reach Redis
in another order than they read the clock, at most `Skew` apart.  Requests that
read the same time are one member of the set.

### Reports, Listings

A report is a sequence of statements (`Plan`), each with its table, days,
status and scope; what a statement aggregates is the set of rows it reads at
that time.  A listing is read page by page; `owed` are the rows it began with
that the client has yet to see.

## 3. Runs

Passing runs (states are distinct states):

| Run | Shows | Bounds |
|---|---|---|
| `gate_races` (372 thousand) | `StaleIsExplained`: a live sum of the current period is the log's, unless its DELETE is to come or never came, a sum read before a commit was stored after it, or midnight came. `AdmittedWasChecked`: who was let through had passed every hard budget the gate looks at. `OverrunByOneCall`: a hard limit is exceeded by less than one call, but by calls whose check was outrun. `KeepsPromise` (the refinement), `CacheSettles`. Handlers overlap, budgets are edited, Redis fails, handlers die and the day changes. | two requests in flight, costs below and at the limit, one daily user budget, one edit, two days |
| `alerts_races` (210 thousand) | `OneUnresolvedAlert`: an alert is doubled only by dispatches that ran at the same time. `FailureIsExplained`: a dispatch loses its alerts only to its session, a deadlock, a percentage that does not fit, a doubled alert or a deleted budget. `CommittedIsAlerted`: one that committed left them all. As part of `TypeOK`, `NoOrphanAlert`. | two dispatches that may overlap, two budgets with no, one or (left by an earlier race) two open alerts, one edited and deleted, spends of 120 and 1000 percent |
| `ab_races` (928 thousand) | `OneActiveTest`: two tests are active only if one was activated between another handler's look and its commit; as part of `TypeOK`, `OneSamplePerRequest`; `RoutingSettles`, all of it under overlap and failures; `SummaryIsTrue` (samples, stored summaries, routing) while nothing overlaps or fails | two tests (one shadow); either two requests beside one administrator or two administrators beside each other, two handlers busy at once |
| `cache_races` (594 thousand) | `ServedFits`, `HitsAreCounted`; `OrphansAreExplained`: an entry of Redis without a row is one whose row was not yet or never committed, or one a removal or flush missed because Redis failed or it was stored beside a flush; `OrphansExpire`. Lookups, stores, removals and flushes overlap, fail and die. | four requests of two organisations, one of them with PII, two near prompts, one FAQ |
| `settings` (271 thousand) | `VerdictFollowsPolicy` (a policy in force, the strictest action), `RedactionHides`, `EditsTakeEffect`, `EditsKeepToTheirColumns`; `RoutesByRules` (no half reorder), `RulesSettle`; `ReplacedKeyIsGone`; the types of all three | two evaluations and two editors, each pair beginning in one order, updates of overlapping and separate columns, one custom pattern; two rules, two requests, reorders in both orders and of nothing; three upserts or removals of two vendors; two busy at a time |
| `pipeline` (306 thousand) | `FirstMessageIsScreened`, `FailedOnlyAfterTrying`, `BooksAgree` (one log row, attributed, at the cost of the call that answered), `EveryRequestSettles` | one request of any of four kinds (plain, personal, streamed, from a blocked country) beside edits of a credential, or two of one prompt; two policies, with and without rules (one for a generic provider), with and without a shadow test |
| `tenants` (1.5 million) | keys: `BarredStaysOut`, `RevocationHolds`; limiter: `QuotaIsExact`; attribution: `ChargedRight`, `LostOnlyIfDoubled`; budgets: `LimitsAreHonest`; reports: `SectionsAgree`; listings: `PagesMissNothing`; the types and references of all six | four keys of two organisations and three calls (one issues, edits or revokes, one switches on or off or is a use, one is a use); four requests in one order, seven ticks, skew 1; two requests, with any of five and of three kinds of tags, and two administrators' edits; three upserts of two budgets; two rows over three days, weeks and months of two; three rows on pages of two |

Composite properties are conjunctions of named parts that stand before them in
their module, each with its own comment: `SummaryIsTrue`,
`VerdictFollowsPolicy`, `EditsTakeEffect`, `RoutesByRules`, `QuotaIsExact`,
`ChargedRight`, `LimitsAreHonest`, `SectionsAgree`, `BooksAgree`.

Why the bounds are enough to be of use.  The races the properties are about need
two actors and one key: a second budget, a third request or a third day only
repeats a pair already explored.  Where a third is needed it is there: four
limited requests so that a window fills, empties and fills; three upserts so that
a doubled row is met by a later one; two organisations for a shared user name;
two rules for a half reorder; a third key of another organisation.  Parts
of properties that hold for one handler at a time are guarded by a history
variable (`calm`, `smooth`, `orderly`, `inTurn`, `apart`), because what they
claim is false otherwise (see below).  Where the race itself can be named, the
property does not exclude it but says that nothing else breaks the claim
(`stale`, `outrun`, `edited`, `loose`, `met`, `overtaken`, `missed`, `doubled`).  Every bound is a constant with a comment: `LastDay`, `MaxInFlight`,
`MaxRunning`, `MaxBusy`, `MaxPolicyBusy`, `MaxRuleBusy`, `MaxSaverBusy`,
`MaxKeyBusy`, `MaxTime`, `MaxAttributed`, `MaxEdits`, `MaxUpserts`, `MaxDay`,
`MaxRows`, `MaxListed`, `MaxPages`; and a behaviour of `RouteStore` creates at
most one rule.  Finite sets of limits, costs and spends stand
for amounts of money, of which only sums and comparisons matter.  Deadlock is not
checked: every instance stops when its requests, edits and time are used up.  No
symmetry set is used; evaluations, editors and limited requests that are alike
begin in one order instead, which leaves out only renamings.

Runs in which TLC finds a behaviour that contradicts what the code says of
itself:

| Run | What happens |
|---|---|
| `gate_shared_user` | Two organisations budget the same user name. The Redis key has no organisation, so one compares its limit with the other's sum (`attribution_service.py:171`, against `:169`). |
| `gate_body_user` | A user whom only the body names has exhausted a hard budget, and calls go on being charged to it: `check_budget` looks at the user of the attribution alone (`proxy.py:273`, against `attribution_service.py:229`). |
| `pipeline_stream_hit` | A streaming request is answered from the cache with a dict; the stream wrapper iterates over it, fails and logs the request as 502, charged for the cached model (`proxy_svc.py:199`, against `:186`). |
| `pipeline_unscreened` | Personal data in a system, assistant or later user message reaches a provider and no policy reports it: the engine is given the first user message, and only that is replaced (`proxy_svc.py:106` and `:509`, against `policy_engine.py:41`). |
| `tenants_closed_project` | A closed project goes on being charged, because attribution never reads `is_active` (`attribution_service.py:109`, against `finops.py:262`). |

Further divergences follow from the same models and have no run of their own:

* a check reads its sum, another request's row is committed and its keys are
  deleted, then the first check stores the old sum: stale for up to 60 s
  (`attribution_service.py:213`, against `:356`); and a daily sum cached before
  midnight is compared with the limit of the next day, since the key has no date
  (`:171`, against `:169`).  `StaleIsExplained` counts these, a DELETE that
  failed and a handler that died before it, and finds no other;
* calls in flight at the same time pass the same check, so together they may
  overrun a hard limit by more than one call (`proxy_svc.py:152`):
  `OverrunByOneCall` leaves out what was charged to by a call that was outrun;
* one dispatch, no race: a budget used ten times over makes the row too wide for
  `usage_pct`, and no alert of that dispatch is saved, its other budgets'
  included (`attribution_service.py:339`, against `:311`):
  `FailureIsExplained` names it;
* two overlapping dispatches both insert an alert (`attribution_service.py:326`,
  against `:312`), and once doubled, that alert makes `scalar_one_or_none` raise
  in every later dispatch with the same warning, which loses its other warnings
  too (`:326`, against `:311`): `OneUnresolvedAlert` and `FailureIsExplained` show
  what it takes and what follows;
* two administrators pass the "is one active?" test before either commits
  (`routing.py:364`, against `:356`), and both tests are active: `OneActiveTest`
  shows that it takes just that;
* when the test changes while a request is served, `record_result` books the
  sample for the new one (`ab_test.py:152`, against `:144`), and a sample that
  arrives after its test was completed is missing in the stored summary
  (`routing.py:469`): `SummaryIsTrue` is guarded by `calm`; samples of streams
  cost nothing, as the cost is not known yet when they are recorded;
* a store task beside a flush can leave its Redis key or its row behind
  (`cache.py:221`, against "Clears all cache entries (exact & semantic) for the
  organization.", `:215`): `OrphansAreExplained` names it;
* two requests that name a new team both create it, and every later request of
  that name fails (`attribution_service.py:83`); two upserts of a new budget both
  insert it (`budget_service.py:250`), after which upserts, `get_spend` and
  forecasts of that scope fail: `OneRowPerName` and `LastLimitStands` are guarded;
* a budget deleted between the commit and the refresh of an upsert makes a
  successful one answer with an error; a log row whose team is deleted on the
  way violates its foreign key and is lost;
* of two spans of which one straddles the end of the other, the tail stays
  visible (`pii_detector.py:203`); residency is checked for the provider the client named, not for the one routing
  or a fallback picks;
* an organisation with only Gemini credentials fails without a call, as no chain
  of an Anthropic or OpenAI model leads to Gemini, and a chain whose last resort
  is OpenAI does not turn to Anthropic when OpenAI's credentials are removed on
  the way: `FailedOnlyAfterTrying` says that every target whose credentials
  stayed was called, and that a request routed by rules that lost no credentials
  is not given up without a call if it had OpenAI's or Anthropic's;
* the listing of both kinds of cache entries shows the first FAQs on every page
  that has room and counts them only on such pages: `PagesMissNothing` speaks of
  the embeddings of that listing; a row inserted between the count and the
  select of the last page hides another;
* neither the limiter nor `RequireScope` is mounted on a route: every active key
  may use the proxy, at any rate.

## 4. Fairness

* `SpendGate!Fairness`: weak fairness of each handler's own steps - the event
  loop runs every ready coroutine, database and Redis calls return or raise, and
  the provider call has a 60 second timeout in `httpx` - and of `Expire` for each
  key, since every entry is written by SETEX.  Arrivals, edits, failures,
  crashes and the calendar are not fair: none has to happen.
* `ABTests!Fairness`: the same for requests, administrators' handlers once they
  have begun, and the expiry of the one key.
* `ResponseCache!Fairness`: lookups, store tasks and administrators' handlers
  that have begun, and the expiry of each key, which is set with a TTL.
* `RouteStore!RouteFairness`: requests and edits under way, with the database's
  breaking of deadlocks, and the expiry of the copy (`setex` with 300 seconds).
* `MCPipeline!MCFairness`: the handler of each request and each background task.
  Providers may fail on every call; the chain is finite, so a handler ends.

## 5. Proofs

Eight modules hold theorems that TLAPS checks for every value of the constants
that the named assumptions of the modules allow (`CalendarAssumption`,
`BudgetAssumption`, `RequestAssumption`, `CostAssumption` and
`BoundsAssumption` of the gate, `AlertAssumption`, `TaskAssumption`, `ABAssumption`,
`CacheAssumption`, `PipeAssumption`, `CredentialsAssumption`,
`MeasureAssumption`, `PolicyAssumption`, `UpdateAssumption`, `TextAssumption`,
`RouteAssumption`, `RuleEditAssumption`, `ProviderAssumption`, `KeyAssumption`, `RateAssumption`,
`AttributionAssumption`, `ReportAssumption`, `ListingAssumption` and the
`BudgetAssumption` of `BudgetStore`).  TLC evaluates them in the runs.  Those
that say more than the type of a constant: periods start no later for an
earlier day; an id of a team or project is a UUID, which no name looks like;
updates set columns of the policy, and patches columns of a rule, to values the
request schema lets them have; a reorder names a rule once; a text has finitely
many matches, each with a start not after its end; a client may turn to the
first page; no dispatch is called "earlier" or "doubled", and no provider "nobody";
teams of a dashboard are distinct, a sample has a variant, and a forecast looks
back at least a month (60 days in the code).  `Listings` gives the
rows of a table distinct times, where `created_at` is the clock of the client in
microseconds and not unique: pages of rows with equal times are in no defined
order.  Three theorems have a further hypothesis, stated after ASSUME:
`OwnKeys` for two of the gate, without which they are false, and `Costs # {}`.

An invariant the runs check is seldom inductive.  For each component the
sections below name the inductive one and what it adds.

### SpendGateProofs

* `TypeCorrect`: `[]TypeOK`.
* `RefusalsHaveACause`: under `OwnKeys` - no two budgets share a Redis key -
  what a check compared with a limit was charged to that budget.  `CacheInv` has
  that what a handler has read and not yet stored (`ReadsSound`) and what is in
  Redis (`EntriesSound`) is at most the sum it stands for; sums never decrease
  (`SpentGrows`), which carries this over the steps of every other handler.  A hit takes
  its spend from an entry of *some* budget with the same key; `OwnKeys` makes it
  this one.  Without it the statement is false (`gate_shared_user`).
* `GateKeepsPromise`: under `OwnKeys`, the refinement of `BudgetPromise`.  Each
  step maps to a step of it or to a stutter; besides the above it needs
  `Answered` (only an answered call has a cost or status 200) and `OwnRows` (the
  rows a handler holds are of budgets of its own organisation).
* `StaleEntriesAreExplained`: `[]StaleIsExplained`, for every interleaving,
  failure and death.  An entry is explained only if the sum it was stored from
  is, so `ExplainedInv` adds that a sum in hand is the log's or `outrun`
  (`SumsExplained`), and that rows are in hand only during a check (`InHand`).
* `AdmittedIsChecked`: `[]AdmittedWasChecked`, without further hypotheses.
  `Covered` says of a running check that each row that applies, and was not set
  since, is still in `todo` or has been compared.
* `OverrunIsOneCall`: `[]OverrunByOneCall`, if there are costs at all.  It follows
  from both: a call whose sum was not outrun is charged on top of a sum that was
  the log's and below the limit (`OverrunStep`), so one cost separates them.

### BudgetAlertsProofs

* `AlertsTypeCorrect` (no alert outlives its budget, among the types) and
  `CommitsLeaveAlerts` follow from `AlertInv`: a session that has inserted a row
  keeps the budget it refers to from being deleted (`InsertsAreHeld`), and a
  warning of a running dispatch waits for its turn, is about to be inserted, or
  has an alert (`WarningsAreKept`).
* `AlertsAreDoubledByMeeting`: `[]OneUnresolvedAlert`, and `FailuresAreExplained`:
  `[]FailureIsExplained`, from `MetInv`.  A select-then-insert is only exact if
  what was not found is still not there when it is written: whoever inserted it
  meanwhile has met the dispatch (`InsertsAreNew`, `RunsMet`), and what was found
  is there as long as its budget (`FoundAreThere`).  The loop writes once for a
  warning (`WrittenOnce`).

### ABTestsProofs

* `RequestsSampleOnce`: at most one sample and one shadow pair per request, of
  the test that routed it, whatever administrators do.
* `TestsTypeCorrect`: `[]TypeOK`, with any number of administrators.
* `TestsAreDoubledByOvertaking`: `[]OneActiveTest`.  `RaceInv` adds that a handler
  that has looked for an active test and was not overtaken finds none but its
  own when it commits (`ChecksHold`).
* `SummariesAreTrue`: `[]SummaryIsTrue`, from `CalmInv`: while handlers do not
  overlap, one runs (`HandlersAlone`), the route of a request, the copy in Redis
  and the target of a sample are the active test (`RoutedByActive`,
  `CopyExact`), and the count about to be stored is of the samples there are
  (`CountsExact`).

### ResponseCacheProofs

* `CacheTypeCorrect`, `CacheServesWhatFits`: `[]ServedFits`, whatever overlaps,
  fails or dies.  What a lookup found was put there by a store task, so
  `FitsInv` adds that no task stores for a request with PII and everything
  stored carries the organisation and prompt of its own request.
* `CountersAreExact`: `[]HitsAreCounted`, whatever overlaps.  `CountInv` adds
  that a task stores an answer once (`StoredOnce`), so a counter is never
  restarted by a second row of one request, and that only a FAQ that was created
  is found (`FoundExists`).
* `RemovalsMissOnlyRaces`: `[]OrphansAreExplained`, whatever overlaps and fails.
  `RemovalInv` adds that an entry in Redis has a row, from which removals learn
  its key, or is excused (`EntriesHaveRows`), and that who is about to drop rows
  has dropped their entries, holds their keys or has `missed` them
  (`RemovalsAreAhead`).

### ProxyPipelineProofs and RulesProofs

* `FirstMessageLeavesScreened`: `[]FirstMessageIsScreened`, `NoTargetTwice` and
  `LogsAreAttributed` follow from `PipeInv`: a handler's text is the one its verdict left (`Sound`),
  only a request that was let through has a test, a target or a task
  (`Through`), and what was sent or stored belongs to a request whose verdict and
  text no longer change.  `Onward` and `Leaves` say once what every step of a
  handler may do to its request and leave behind; each action is shown to be
  such a step.
* `BooksAreKept`: `[]BooksAgree`, and `NothingIsGivenUp`: `[]FailedOnlyAfterTrying`,
  from `BooksInv`.  Rows are written by tasks that outlive the handler, so it
  relates what is known of an answer and its cost at every stage (`Booked`), what
  each task is going to write (`TaskBooked`) and what each row says (`RowBooked`);
  and of the chain, that every target before the next one was called or lost its
  credentials (`Tried`).
* `RulesProofs`, about operators.  `StrictestDecides`: for every policy whose
  actions the schema allows and all findings, the verdict is an action some
  finding asked for, and none asked for a stricter one.
  `DashboardAgreesWithGate`: for every row and spend, the dashboard shows
  "exceeded" exactly where the gate blocks, and "ok" exactly where no warning is
  raised.  `FirstMatchDecides`: the first matching rule gives the target, whatever
  follows it.
* `OverlapsResolve`: for every finite set of spans, `_resolve_overlaps` keeps
  spans that are found, in order and apart, and every found span lies within a
  kept one or straddles the end of one (`Resolves`).  `Kept` is a recursive
  function over the sorted spans.  That there is a sorting at all is by induction
  on the set of spans, one taking its place among the others (`PlaceInOrder`,
  `SortedExists`); that each prefix is resolved is by the least prefix that is
  not (`LeastNatural`, from the well-foundedness of the naturals, as induction
  over an operator is beyond the prover), where `KeepResolves` is the step.

### SettingsProofs

* `VerdictsFollow`: `[]VerdictFollowsPolicy`; `EditsAreKept`: `[]EditsTakeEffect`;
  `ColumnsAreKept`: `EditsKeepToTheirColumns`; `RedactionIsDue`:
  `[]RedactionHides`, by `OverlapsResolve` for whatever text and row an
  evaluation has loaded.  `PolicyInv` has that nobody works
  on a policy before its organisation is ready, and until there is a row the
  default is what it will be (`Begun`); that what an evaluation or editor loaded
  was in force since it began (`Judged`, `Edited`); and that in turn the row is
  what the edits so far ask for (`InTurn`).
* `RoutesAreByRules`: `[]RoutesByRules`.  `RouteInv`: the copy in Redis and the
  list a request holds are an order of some committed table (`Committed`), and
  without overlap or failure of the present one (`Following`): no copy is there
  while an editor that has dropped it has yet to commit.
* `ReplacedKeysGo`: `[]ReplacedKeyIsGone`.  `ProviderInv`: without overlap an
  edit has found the row there is, and a provider has at most one (`OneByOne`).
* Types: `PolicyTypeCorrect`, `RouteTypeCorrect`, `ProviderTypeCorrect`, and of
  the three interleaved `SettingsTypeCorrect`: `[]TypeOK`.  A rule's new columns
  come from payloads and reach the table through what an editor has yet to do and
  has sent, so `RouteTypeInv` types those (`Jobs`); an upsert found at most one
  credential (`FoundOne`).

### TenantsProofs

* Keys: `RevokedStaysOut`, `OrganisationKeepsItsKeys`,
  `RevocationIsUndoneOnPurpose`.  That a barred key stays out is not inductive:
  a candidate may have been selected while it was active, so `KeyInv` adds that a
  barred candidate has expired (`CandidateHasExpired`) - which the comparison
  checks -, that a barred key is no good (`BarredIsBad`), and that who edits
  holds an admin key of the organisation of the key it edits (`EditorIsAdmin`).
* Limiter: `QuotaIsKept`, from `AdmissionsInQuota` and `RefusalsAreBusy`.  A
  count is of scores that are in the set *now*; what has been pruned by a request
  with a later clock may still be in the window of one with an earlier clock.
  `RateInv` has that this is at most `Skew` (`InSkew`), that what has passed is
  in the set or has left the window (`KeptInWindow`), and that the passes of
  every shortened window are within the quota (`PassedInQuota`).
* Budgets: `LimitsStayHonest`, from `LastLimitAlwaysStands` and
  `FailuresAreExplained`.  `BudgetInv` has what an upsert found was a row and is
  there or was deleted (`FoundWereRows`), that in turn it found whatever row
  there is (`FoundAll`), and that doubles are recorded (`DoublesAreKnown`).
* Attribution: `AttributionTypeCorrect`, with the foreign keys of projects and
  the log, and `LossesAreExplained`: `[]LostOnlyIfDoubled`, under any overlap,
  from `ShapeInv`: what a handler has found by each stage (`StagesAgree`) and
  that its rows are there unless one was deleted (`LossesAreKnown`).
  `ChargesAreRight`: `[]ChargedRight` needs `ChargeInv` besides: without overlap
  and edits one request is handled at a time, and what it did not find is still
  not there (`SerialCharges`), so a name has one row (`OneRowPerName`).
* Listings: `ListingsAreComplete`: `[]PagesMissNothing`, for every page size.
  `ListingInv`: a row that is owed has at least as many newer rows as the pages
  read so far hold (`OwedLiesAhead`) - insertions push it back, never forward -
  so when the last page has been read it was on it (`LastShowsAll`).
  `PagesCover` is the arithmetic of the number of pages.  `ListingTypeCorrect`
  adds that a page is not overfull (`PageFits`): rows of a table have different
  times, so a select returns no more than it may (`SelectFits`), and the FAQs
  fill only what the embeddings left.
* Reports: `ReportsAgree`: `[]SectionsAgree`.  `ReportInv`: rows are numbered as
  they are logged (`RowsAreNumbered`); what a statement read is there until
  a team is deleted, a later statement reads it too, and on quiet data nothing
  else comes (`SectionsHold`); the teams of a dashboard share no row
  (`DashboardHolds`).  `ReportTypeCorrect` adds that what was counted is still
  there under its number when its team is deleted (`CountedStays`).
* `TenantsTypeCorrect`: `[]TypeOK` of the six interleaved, from `KeyTypeCorrect`,
  `RateTypeCorrect`, `AttributionTypeCorrect`, `BudgetTypeCorrect`,
  `ReportTypeCorrect` and `ListingTypeCorrect`.

### Only model-checked

All liveness - `CacheSettles`, `RoutingSettles`, `OrphansExpire`, `RulesSettle`,
`EveryRequestSettles` -, as TLAPS has no support for fairness and ENABLED.  Every
invariant and every action property that a passing run checks, and the
refinement, are theorems.

## 6. Not modelled

* Amounts are integers; the code uses `Numeric` and `Decimal` and, for Redis,
  text.  Rounding is not modelled.
* The content of answers, prompts, embeddings; what regular expressions, the
  NLP model and the GeoIP database match or return; encryption of credentials.
* Regression and smoothing of forecasts, significance tests and price tables:
  floating point without state.
* `update_org` (single columns), the plain list endpoints and the CSV download,
  health checks.
* `check_security_policies` and its helpers (`security_svc.py:127` to `:304`), an
  older evaluation no route calls.
* The limiter's `Retry-After` value, which is only an estimate; `last_used_at`.
* A reorder that names a rule twice (`RuleEditAssumption` excludes it): what its
  second item is compared with depends on what the session still holds.
* Seed scripts, migrations, SDKs and vendored code.
