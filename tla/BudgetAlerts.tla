---------------------------- MODULE BudgetAlerts ----------------------------
(***************************************************************************)
(* dispatch_alerts: tasks that turn the warnings of a budget check into     *)
(* budget_alerts rows.  The gate starts one as a task on the request's own  *)
(* session, the logger awaits one on its session, and nothing orders them:  *)
(* each selects the unresolved alert of a warning, then updates it or adds  *)
(* a new one.  The session sends pending writes before the next SELECT and  *)
(* at the commit, and the database serialises writers of one row.  No code  *)
(* sets resolved_at, so an alert stays unresolved until its budget goes.    *)
(***************************************************************************)
EXTENDS Integers, FiniteSets, BudgetRules

CONSTANTS
  Tasks,         \* the dispatches that may run, each once
  Budgets,
  Limit,         \* the limit of every budget
  AlertPct,      \* the alert_pct of every budget
  Spends,        \* spends a check may find
  MaxRunning,    \* bound: how many dispatches run at the same time
  Doubled,       \* may earlier dispatches have raced and doubled an alert?
  SessionsFail,  \* may a dispatch fail on a session it shares, or die?
  AdminBudgets   \* the budgets the administrator edits and deletes

ASSUME AlertAssumption ==
  /\ Limit \in Nat \ {0} /\ AlertPct \in Nat /\ Spends \subseteq Nat
  /\ MaxRunning \in Nat /\ Doubled \in BOOLEAN /\ SessionsFail \in BOOLEAN
  /\ AdminBudgets \subseteq Budgets

\* Both words name what raised an alert before the dispatches at hand.
ASSUME TaskAssumption == "earlier" \notin Tasks /\ "doubled" \notin Tasks

VARIABLES
  table,    \* the budgets there are, and whether each is a hard limit
  alerts,   \* committed budget_alerts rows
  phase,    \* "new", "running", then how the task ended
  left,     \* warnings the loop has still to look at
  pending,  \* writes the session has not sent yet
  sent,     \* writes sent to the database, not committed
  warned,   \* history: the warnings the task was given
  met       \* history: the pairs of dispatches that ran at the same time

vars == <<table, alerts, phase, left, pending, sent, warned, met>>

-----------------------------------------------------------------------------
AlertTypes == {"hard_block", "soft_warning"}

Warning == [budget : Budgets, type : AlertTypes, usage : Spends]

\* A row's id is the dispatch and the budget that created it.
Alert == [id : (Tasks \cup {"earlier", "doubled"}) \X Budgets, budget : Budgets,
          type : AlertTypes, usage : Spends \cup {Limit}]

\* What the loop decided for a warning: the one unresolved row it found, if any.
Write == [warning : Warning, found : SUBSET Alert]

\* Mutant: only soft warnings are looked for.
UnresolvedSoft(w) ==
  {a \in alerts : a.budget = w.budget /\ a.type = w.type
                  /\ a.type = "soft_warning"}

\* The unresolved alerts of the warning's budget and type.
Unresolved(w) == {a \in alerts : a.budget = w.budget /\ a.type = w.type}

\* The UPDATEs a session sends: a row whose usage does not change is not one.
Updated(writes) ==
  UNION {{a \in m.found : a.usage # m.warning.usage} : m \in writes}

UpdatedIds(writes) == {a.id : a \in Updated(writes)}

Inserted(t, writes) ==
  {[id |-> <<t, m.warning.budget>>, budget |-> m.warning.budget,
    type |-> m.warning.type, usage |-> m.warning.usage] :
     m \in {n \in writes : n.found = {}}}

\* Rows another task has updated and not committed are locked.
WaitsFor(t) ==
  {u \in Tasks \ {t} : UpdatedIds(pending[t]) \cap UpdatedIds(sent[u]) # {}}

\* Rows a task has written and not committed keep their budget from going.
Holds(t, b) ==
  \E m \in sent[t] : m.warning.budget = b /\ (m.found = {} \/ Updated({m}) # {})

\* Mutant: alerts carry no foreign key.
CanSendAnything(t) == UpdatedIds(pending[t]) \subseteq {a.id : a \in alerts}

\* The foreign key of an INSERT needs its budget, an UPDATE its row.
CanSend(t) ==
  /\ \A a \in Inserted(t, pending[t]) : \E b \in table : b.budget = a.budget
  /\ UpdatedIds(pending[t]) \subseteq {a.id : a \in alerts}

\* usage_pct is a Numeric(5, 2): from 999.995 percent on it does not fit.
FitsColumn(usage) == 100000 * usage < 999995 * Limit

Fits(t) ==
  \A m \in pending[t] :
    m.found = {} \/ Updated({m}) # {} => FitsColumn(m.warning.usage)

Running == {t \in Tasks : phase[t] = "running"}

-----------------------------------------------------------------------------
\* An alert an earlier dispatch raised when the limit was reached.
Earlier(by, row) ==
  [id |-> <<by, row.budget>>, budget |-> row.budget, type |-> AlertType(row),
   usage |-> Limit]

\* Some budgets may have an alert already, or two where dispatches overlap.
Init ==
  /\ table \in SUBSET [budget : Budgets, hard : BOOLEAN]
  /\ \A b \in Budgets : Cardinality({row \in table : row.budget = b}) = 1
  /\ \E open \in SUBSET table :
       \E twice \in (IF Doubled THEN SUBSET open ELSE {{}}) :
         alerts = {Earlier("earlier", row) : row \in open}
                    \cup {Earlier("doubled", row) : row \in twice}
  /\ phase = [t \in Tasks |-> "new"]
  /\ left = [t \in Tasks |-> {}]
  /\ pending = [t \in Tasks |-> {}]
  /\ sent = [t \in Tasks |-> {}]
  /\ warned = [t \in Tasks |-> {}]
  /\ met = {}

\* The warnings check_budget returns when it finds these spends.
WarningsFor(spend) ==
  {[budget |-> row.budget, type |-> AlertType(row), usage |-> spend[row.budget]] :
     row \in {b \in table :
       Warned([limit |-> Limit, hard |-> b.hard, alertPct |-> AlertPct],
              spend[b.budget])}}

\* A dispatch is only started for a check that warns of something.
Start(t) ==
  /\ phase[t] = "new"
  /\ Cardinality(Running) < MaxRunning
  /\ \E spend \in [Budgets -> Spends] :
       /\ WarningsFor(spend) # {}
       /\ left' = [left EXCEPT ![t] = WarningsFor(spend)]
       /\ warned' = [warned EXCEPT ![t] = WarningsFor(spend)]
  /\ phase' = [phase EXCEPT ![t] = "running"]
  /\ met' = met \cup {{t, u} : u \in Running}
  /\ UNCHANGED <<table, alerts, pending, sent>>

\* The task ends without a commit: the session rolls back.
RollBack(t, how) ==
  /\ phase' = [phase EXCEPT ![t] = how]
  /\ left' = [left EXCEPT ![t] = {}]
  /\ pending' = [pending EXCEPT ![t] = {}]
  /\ sent' = [sent EXCEPT ![t] = {}]
  /\ UNCHANGED <<table, alerts, warned, met>>

\* Mutant: the new write replaces the earlier ones of the task.
LookForgets(t) ==
  /\ phase[t] = "running" /\ WaitsFor(t) = {}
  /\ CanSend(t) /\ Fits(t)
  /\ \E w \in left[t] :
       /\ Cardinality(Unresolved(w)) <= 1
       /\ left' = [left EXCEPT ![t] = @ \ {w}]
       /\ pending' = [pending EXCEPT ![t] =
                        {[warning |-> w, found |-> Unresolved(w)]}]
  /\ UNCHANGED <<table, alerts, phase, sent, warned, met>>

\* One turn of the loop: pending writes are sent, then the SELECT; finding at
\* most one row, the warning becomes an UPDATE or an INSERT.
Look(t) ==
  /\ phase[t] = "running" /\ WaitsFor(t) = {}
  /\ CanSend(t) /\ Fits(t)
  /\ \E w \in left[t] :
       /\ Cardinality(Unresolved(w)) <= 1
       /\ left' = [left EXCEPT ![t] = @ \ {w}]
       /\ pending' = [pending EXCEPT ![t] =
                        {[warning |-> w, found |-> Unresolved(w)]}]
  /\ sent' = [sent EXCEPT ![t] = @ \cup pending[t]]
  /\ UNCHANGED <<table, alerts, phase, warned, met>>

\* Mutant: scalar_one raises when it finds none, too.
LookFailsOnNone(t) ==
  /\ phase[t] = "running" /\ WaitsFor(t) = {}
  /\ CanSend(t) /\ Fits(t)
  /\ \E w \in left[t] : Cardinality(Unresolved(w)) # 1
  /\ RollBack(t, "failed")

\* scalar_one_or_none raises MultipleResultsFound.
LookFails(t) ==
  /\ phase[t] = "running" /\ WaitsFor(t) = {}
  /\ CanSend(t) /\ Fits(t)
  /\ \E w \in left[t] : Cardinality(Unresolved(w)) > 1
  /\ RollBack(t, "failed")

\* The budget, and with it its alerts, was deleted under the task.
SendFails(t) ==
  /\ phase[t] = "running" /\ WaitsFor(t) = {} /\ ~CanSend(t)
  /\ RollBack(t, "orphaned")

\* The database refuses a percentage that does not fit; nothing catches it.
SendOverflows(t) ==
  /\ phase[t] = "running" /\ WaitsFor(t) = {} /\ ~Fits(t)
  /\ RollBack(t, "failed")

\* The commit makes all writes of the task visible at once.
Commit(t) ==
  /\ phase[t] = "running" /\ left[t] = {} /\ WaitsFor(t) = {}
  /\ CanSend(t) /\ Fits(t)
  /\ LET writes == sent[t] \cup pending[t]
         New(a) == CHOOSE m \in writes : \E f \in m.found : f.id = a.id
     IN  alerts' =
           {IF a.id \in UpdatedIds(writes)
            THEN [a EXCEPT !.usage = New(a).warning.usage] ELSE a : a \in alerts}
           \cup Inserted(t, writes)
  /\ phase' = [phase EXCEPT ![t] = "committed"]
  /\ pending' = [pending EXCEPT ![t] = {}]
  /\ sent' = [sent EXCEPT ![t] = {}]
  /\ UNCHANGED <<table, left, warned, met>>

\* Two tasks wait for each other's rows: the database aborts one of them.
Deadlock(t) ==
  /\ \E u \in WaitsFor(t) : t \in WaitsFor(u)
  /\ RollBack(t, "aborted")

\* The request's handler uses or closes the shared session at the same time, or
\* the worker dies.
SessionFails(t) ==
  /\ SessionsFail /\ phase[t] = "running"
  /\ RollBack(t, "aborted")

-----------------------------------------------------------------------------
\* set_budget turns a limit hard or soft; open alerts keep their type.
SetHard(b) ==
  /\ \E row \in table :
       /\ row.budget = b
       /\ table' = (table \ {row}) \cup {[row EXCEPT !.hard = ~@]}
  /\ UNCHANGED <<alerts, phase, left, pending, sent, warned, met>>

\* The alerts go with the budget (ON DELETE CASCADE), once no open transaction
\* holds rows of it.
DeleteBudget(b) ==
  /\ \E row \in table : row.budget = b
  /\ \A t \in Tasks : ~Holds(t, b)
  /\ table' = {row \in table : row.budget # b}
  /\ alerts' = {a \in alerts : a.budget # b}
  /\ UNCHANGED <<phase, left, pending, sent, warned, met>>

Dispatch(t) ==
  \/ Look(t) \/ LookFails(t) \/ SendFails(t) \/ SendOverflows(t)
  \/ Commit(t) \/ Deadlock(t)

Next ==
  \/ \E t \in Tasks : Start(t) \/ Dispatch(t) \/ SessionFails(t)
  \/ \E b \in AdminBudgets : SetHard(b) \/ DeleteBudget(b)

Spec == Init /\ [][Next]_vars

-----------------------------------------------------------------------------
\* No alert outlives its budget, not even one that was being written while the
\* budget was deleted.
NoOrphanAlert ==
  \A a \in alerts : \E row \in table : row.budget = a.budget

\* Budgets, alerts and dispatches keep their types, and alerts their budgets.
TypeOK ==
  /\ NoOrphanAlert
  /\ table \subseteq [budget : Budgets, hard : BOOLEAN]
  /\ alerts \subseteq Alert
  /\ phase \in [Tasks -> {"new", "running", "committed", "failed", "orphaned",
                         "aborted"}]
  /\ left \in [Tasks -> SUBSET Warning]
  /\ pending \in [Tasks -> SUBSET Write]
  /\ sent \in [Tasks -> SUBSET Write]
  /\ warned \in [Tasks -> SUBSET Warning]
  /\ met \subseteq SUBSET Tasks

\* dispatch_alerts "deduplicates alerts by checking if an active/unresolved
\* alert of the same type exists": a budget gets a second one of a type only from
\* two dispatches that ran at the same time, however budgets change and sessions
\* fail between them.
OneUnresolvedAlert ==
  \A a, b \in alerts :
    a # b /\ a.budget = b.budget /\ a.type = b.type =>
      {a.id[1], b.id[1]} \in met \cup {{"earlier", "doubled"}}

Gone(w) == \A row \in table : row.budget # w.budget

HasAlert(w) == \E a \in alerts : a.budget = w.budget /\ a.type = w.type

HasTwo(w) == \E a, b \in Unresolved(w) : a # b

\* A dispatch that committed left an alert for every warning it was given,
\* unless the budget is gone, whatever ran beside it.
CommittedIsAlerted ==
  \A t \in Tasks : phase[t] = "committed" => \A w \in warned[t] : Gone(w) \/ HasAlert(w)

\* What keeps a dispatch from saving any of its alerts, its session and a
\* deadlock apart, lies with one of its warnings: a percentage too wide for the
\* column, an alert that overlapping dispatches doubled, or a budget that went.
FailureIsExplained ==
  \A t \in Tasks :
    /\ phase[t] = "failed" =>
         \E w \in warned[t] : ~FitsColumn(w.usage) \/ HasTwo(w) \/ Gone(w)
    /\ phase[t] = "orphaned" => \E w \in warned[t] : Gone(w)
=============================================================================
