--------------------------- MODULE MCBudgetAlerts ---------------------------
(***************************************************************************)
(* A small instance of BudgetAlerts: a limit of 10, alerts from 80 percent, *)
(* spends above the limit and one too high for the column of percentages.   *)
(***************************************************************************)
EXTENDS BudgetAlerts

CONSTANTS t1, t2, b1, b2
=============================================================================
