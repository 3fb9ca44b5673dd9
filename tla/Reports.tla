------------------------------- MODULE Reports -------------------------------
(***************************************************************************)
(* The reports over requests_log, security_violations and ab_test_results:  *)
(* spend summaries, budget dashboard, forecast, model comparison,           *)
(* chargeback, statistics.  Each runs several statements, one after the     *)
(* other, and each statement sees what is committed by then; rows are       *)
(* logged and teams deleted in between.  What a statement aggregates is the *)
(* set of rows it reads; the arithmetic on them is left out.                *)
(***************************************************************************)
EXTENDS Integers, Sequences, FiniteSets

CONSTANTS
  Teams,       \* teams, in the order the database returns them
  Loggable,    \* rows that may be logged: table, success, team or A/B variant
  MonthDays,   \* days of a month
  WeekDays,    \* days of a week
  Window,      \* days of history a forecast and a comparison look at
  MaxDay,      \* bound: the last day
  MaxRows      \* bound: how many rows are logged

Org == "org"

NoTeam == "none"

\* A team has one row of the dashboard; a sample of an A/B test has a variant.
ASSUME ReportAssumption ==
  /\ MonthDays \in Nat \ {0} /\ WeekDays \in Nat \ {0}
  /\ Window \in Nat /\ Window >= MonthDays /\ MaxDay \in Nat \ {0} /\ MaxRows \in Nat
  /\ Teams \in Seq(STRING \ {Org, NoTeam, "A", "B"})
  /\ \A i, j \in DOMAIN Teams : Teams[i] = Teams[j] => i = j
  /\ \A new \in Loggable :
       /\ new.table \in {"requests_log", "security_violations", "ab_test_results"}
       /\ new.good \in BOOLEAN
       /\ new.scope \in {Teams[i] : i \in DOMAIN Teams} \cup {NoTeam, "A", "B"}
       /\ new.table = "ab_test_results" => new.scope \in {"A", "B"}

VARIABLES
  rows,        \* the rows of the three tables
  today,
  report,      \* the report being made, as a set of at most one
  quiet,       \* history: nothing was logged while the report is made
  deleted      \* history: a team was deleted while it is made

reportVars == <<rows, today, report, quiet, deleted>>

-----------------------------------------------------------------------------
MonthStart(day) == day - ((day - 1) % MonthDays)

\* _get_period_start.
PeriodStart(period, day) ==
  CASE period = "daily" -> day
    [] period = "weekly" -> day - ((day - 1) % WeekDays)
    [] period = "monthly" -> MonthStart(day)

\* A statement: its table, the days it looks at, whether it asks for status
\* 200, and the team or variant it asks for.
Section(table, from, to, good, scope) ==
  [table |-> table, from |-> from, to |-> to, good |-> good, scope |-> scope]

Reads(section) ==
  {row \in rows :
     /\ row.table = section.table
     /\ section.from <= row.day /\ row.day <= section.to
     /\ section.good => row.good
     /\ section.scope = Org \/ row.scope = section.scope}

Successes(from, to, scope) == Section("requests_log", from, to, TRUE, scope)

Times(n, section) == [i \in 1..n |-> section]

\* Mutant: each statement works out the start of the period for itself.
SpendByNow(r) == Times(3, Successes(PeriodStart(r.period, today), MaxDay, r.scope))

\* get_spend: the total, the days, the models.
Spend(r) == Times(3, Successes(PeriodStart(r.period, r.began), MaxDay, r.scope))

\* get_all_budgets over a budget of the organisation and one of each team; the
\* start of the period is worked out again for each of them.
Dashboard(r) ==
  LET from == PeriodStart(r.period, today)
  IN  <<Successes(from, MaxDay, Org)>> \o
      [i \in 1..Len(Teams) |-> Successes(from, MaxDay, Teams[i])]

\* forecast_spend: the days of the history, this month, last month, the oldest.
Forecast(r) ==
  LET month == MonthStart(r.began)
  IN  <<Successes(r.began - Window, MaxDay, r.scope), Successes(month, MaxDay, r.scope),
        Successes(MonthStart(month - 1), month - 1, r.scope),
        Successes(1, MaxDay, r.scope)>>

\* get_model_comparison: totals, mix, the tokens of each request.
Comparison(r) == Times(3, Successes(r.began - Window, MaxDay, Org))

\* get_chargeback_report: the total, the groups by team, project or department.
Chargeback(r) ==
  LET from == MonthStart(r.began)
  IN  Times(2, Successes(from, from + MonthDays - 1, Org))

\* get_aggregated_stats: totals, providers, models, time series.
Stats(r) == Times(4, Section("requests_log", 1, r.began, FALSE, Org))

\* get_security_violation_stats: actions, types, severities, hours, days.
Violations(r) == Times(5, Section("security_violations", 1, r.began, FALSE, Org))

\* get_routing_stats: models, then every row for its category and rule.
Routing(r) ==
  Times(2, Section("requests_log", r.began - Window, r.began, FALSE, Org))

\* _calculate_metrics: the variants together, then the costs of each.
Samples(r) ==
  <<Section("ab_test_results", 1, MaxDay, FALSE, Org),
    Section("ab_test_results", 1, MaxDay, FALSE, "A"),
    Section("ab_test_results", 1, MaxDay, FALSE, "B")>>

Plan(r) ==
  CASE r.kind = "spend" -> Spend(r)
    [] r.kind = "dashboard" -> Dashboard(r)
    [] r.kind = "forecast" -> Forecast(r)
    [] r.kind = "comparison" -> Comparison(r)
    [] r.kind = "chargeback" -> Chargeback(r)
    [] r.kind = "stats" -> Stats(r)
    [] r.kind = "violations" -> Violations(r)
    [] r.kind = "routing" -> Routing(r)
    [] r.kind = "samples" -> Samples(r)

Kinds == {"spend", "dashboard", "forecast", "comparison", "chargeback", "stats",
          "violations", "routing", "samples"}

-----------------------------------------------------------------------------
ReportInit ==
  /\ rows = {} /\ today = 1 /\ report = {} /\ quiet = TRUE /\ deleted = FALSE

BeginReport ==
  \E kind \in Kinds, period \in {"daily", "weekly", "monthly"},
     scope \in {Org} \cup {Teams[i] : i \in DOMAIN Teams} :
    /\ report = {}
    /\ kind \notin {"spend", "dashboard"} => period = "monthly"
    /\ kind \notin {"spend", "forecast"} => scope = Org
    /\ report' = {[kind |-> kind, period |-> period, scope |-> scope,
                   began |-> today, seen |-> <<>>]}
    /\ UNCHANGED <<rows, today, quiet, deleted>>

\* The next statement of the report.
ReadSection ==
  \E r \in report :
    /\ Len(r.seen) < Len(Plan(r))
    /\ report' = {[r EXCEPT !.seen = Append(@, Reads(Plan(r)[Len(r.seen) + 1]))]}
    /\ UNCHANGED <<rows, today, quiet, deleted>>

Complete(r) == Len(r.seen) = Len(Plan(r))

Answer ==
  /\ \E r \in report : Complete(r)
  /\ report' = {} /\ quiet' = TRUE /\ deleted' = FALSE
  /\ UNCHANGED <<rows, today>>

\* A request, a violation or a sample is committed.
LogRow ==
  \E new \in Loggable :
    /\ Cardinality(rows) < MaxRows
    /\ rows' = rows \cup {[id |-> Cardinality(rows) + 1, day |-> today,
                           table |-> new.table, good |-> new.good, scope |-> new.scope]}
    /\ quiet' = (report = {}) /\ UNCHANGED <<today, report, deleted>>

\* The foreign key of the rows of a deleted team becomes null.
Kept(team) ==
  {IF row.scope = team THEN [row EXCEPT !.scope = NoTeam] ELSE row : row \in rows}

DropTeam ==
  \E i \in DOMAIN Teams :
    /\ \E row \in rows : row.scope = Teams[i]
    /\ rows' = Kept(Teams[i])
    /\ deleted' = (report # {}) /\ UNCHANGED <<today, report, quiet>>

PassDay ==
  /\ today < MaxDay /\ today' = today + 1
  /\ UNCHANGED <<rows, report, quiet, deleted>>

ReportNext ==
  BeginReport \/ ReadSection \/ Answer \/ LogRow \/ DropTeam \/ PassDay

-----------------------------------------------------------------------------
Seen(r, sections) == {row.id : row \in UNION {r.seen[i] : i \in sections}}

\* The sections that break one total down: each part is read from the rows the
\* parts before it are, at a later time.
Parts(kind) ==
  CASE kind \in {"spend", "comparison"} -> <<{1}, {2}, {3}>>
    [] kind \in {"chargeback", "routing"} -> <<{1}, {2}>>
    [] kind = "stats" -> <<{1}, {2}, {3}, {4}>>
    [] kind = "violations" -> <<{1}, {2}, {3}, {4}, {5}>>
    [] kind = "samples" -> <<{1}, {2, 3}>>
    [] kind \in {"forecast", "dashboard"} -> <<>>

\* No row is counted under an id twice, and a section holds committed rows only.
ReportTypeOK ==
  /\ today \in 1..MaxDay
  /\ rows \subseteq [id : 1..MaxRows, day : 1..MaxDay,
                     table : {"requests_log", "security_violations", "ab_test_results"},
                     good : BOOLEAN, scope : {Teams[i] : i \in DOMAIN Teams}
                                               \cup {NoTeam, "A", "B"}]
  /\ \A a, b \in rows : a.id = b.id => a = b
  /\ \A r \in report :
       /\ r.kind \in Kinds /\ r.began <= today /\ Len(r.seen) <= Len(Plan(r))
       /\ Seen(r, DOMAIN r.seen) \subseteq {row.id : row \in rows}

\* If nothing is logged and no team deleted while a report is made, its
\* breakdowns are of the same rows as its total.
QuietReportAgrees ==
  quiet /\ ~deleted => \A r \in report : Complete(r) =>
    \A i, j \in DOMAIN Parts(r.kind) :
      Seen(r, Parts(r.kind)[i]) = Seen(r, Parts(r.kind)[j])

\* Whatever is logged and however late it gets: a breakdown misses nothing that
\* an earlier one counted, so shares of the total may only come out too high.
LaterSeesMore ==
  ~deleted => \A r \in report : Complete(r) =>
    \A i, j \in DOMAIN Parts(r.kind) :
      i < j => Seen(r, Parts(r.kind)[i]) \subseteq Seen(r, Parts(r.kind)[j])

\* What a forecast says was spent this month is part of the history it
\* extrapolates from, and the organisation's oldest row is not younger.
ForecastSumsAgree ==
  quiet /\ ~deleted => \A r \in report : r.kind = "forecast" /\ Complete(r) =>
    /\ Seen(r, {2}) = {row.id : row \in {x \in r.seen[1] : x.day >= MonthStart(r.began)}}
    /\ Seen(r, {1, 2, 3}) \subseteq Seen(r, {4})

\* On a quiet dashboard the teams share out the organisation's spend.
TeamsWithinOrg ==
  quiet => \A r \in report : r.kind = "dashboard" /\ Complete(r) =>
    /\ Seen(r, DOMAIN r.seen \ {1}) \subseteq Seen(r, {1})
    /\ \A i, j \in DOMAIN r.seen \ {1} :
         i # j => Seen(r, {i}) \cap Seen(r, {j}) = {}

\* The sections of a report agree with each other and its total as far as the
\* code's separate statements allow.
SectionsAgree ==
  QuietReportAgrees /\ LaterSeesMore /\ ForecastSumsAgree /\ TeamsWithinOrg
=============================================================================
