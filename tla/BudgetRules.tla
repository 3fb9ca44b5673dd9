----------------------------- MODULE BudgetRules -----------------------------
(***************************************************************************)
(* The comparisons of spend with a budget, as check_budget makes them for   *)
(* the gate and get_all_budgets for the dashboard, in whole units of cost.  *)
(***************************************************************************)
EXTENDS Integers

\* A row of the budgets table; set_budget refuses a limit of zero or less.
BudgetRow == [limit : Nat \ {0}, hard : BOOLEAN, alertPct : Nat]

\* check_budget: the hard limit stops the request.
HardBlocked(row, spend) == row.hard /\ spend >= row.limit

\* check_budget: at the limit, or else from alert_pct percent of it.
Warned(row, spend) ==
  spend >= row.limit \/ 100 * spend >= row.limit * row.alertPct

\* dispatch_alerts: the type follows the budget, not what happened.
AlertType(row) == IF row.hard THEN "hard_block" ELSE "soft_warning"

\* get_all_budgets: usage_pct compared with 100 and with alert_pct.
Status(row, spend) ==
  CASE 100 * spend >= 100 * row.limit -> IF row.hard THEN "exceeded" ELSE "critical"
    [] 100 * spend < 100 * row.limit /\ 100 * spend >= row.alertPct * row.limit -> "warning"
    [] OTHER -> "ok"
=============================================================================
