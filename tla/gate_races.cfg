SPECIFICATION MCSpec
CONSTANTS
  acme = acme
  zeta = zeta
  ann = ann
  acmeDay = acmeDay
  acmeAnn = acmeAnn
  zetaAnn = zetaAnn
  r1 = r1
  r2 = r2
  Requests = {r1, r2}
  Orgs <- MCOrgs
  Scopes <- MCScopes
  Budgets = {acmeAnn}
  Kinds = {"daily", "monthly"}
  LastDay = 1
  PeriodStart <- MCPeriodStart
  BudgetOrg <- MCBudgetOrg
  BudgetScope <- MCBudgetScope
  BudgetKind <- MCBudgetKind
  RequestOrg <- AllAcme
  Attributed <- Nobody
  AttributedUser <- Ann
  BodyUser <- Nobody
  Limits = {3}
  InitialTable <- Hard3
  AdminBudgets = {acmeAnn}
  Costs = {2, 3}
  MaxInFlight = 2
  RedisFails = TRUE
  HandlersDie = TRUE
  MaxEdits = 1
INVARIANT StaleIsExplained
INVARIANT AdmittedWasChecked
INVARIANT OverrunByOneCall
PROPERTY KeepsPromise
PROPERTY CacheSettles
CHECK_DEADLOCK FALSE
