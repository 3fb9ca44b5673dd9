SPECIFICATION Spec
CONSTANTS
  t1 = t1
  t2 = t2
  b1 = b1
  b2 = b2
  Tasks = {t1, t2}
  Budgets = {b1, b2}
  Limit = 10
  AlertPct = 80
  Spends = {12, 100}
  MaxRunning = 2
  Doubled = TRUE
  SessionsFail = TRUE
  AdminBudgets = {b1}
INVARIANT TypeOK
INVARIANT OneUnresolvedAlert
INVARIANT FailureIsExplained
INVARIANT CommittedIsAlerted
CHECK_DEADLOCK FALSE
