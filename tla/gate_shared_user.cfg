SPECIFICATION MCSpec
CONSTANTS
  acme = acme
  zeta = zeta
  ann = ann
  acmeDay = acmeDay
  acmeAnn = acmeAnn
  zetaAnn = zetaAnn
  r1 = r1
  r2 = r2
  Requests = {r1, r2}
  Orgs <- MCOrgs
  Scopes <- MCScopes
  Budgets = {acmeAnn, zetaAnn}
  Kinds = {"daily", "monthly"}
  LastDay = 0
  PeriodStart <- MCPeriodStart
  BudgetOrg <- MCBudgetOrg
  BudgetScope <- MCBudgetScope
  BudgetKind <- MCBudgetKind
  RequestOrg <- OneZeta
  Attributed <- Nobody
  AttributedUser <- Ann
  BodyUser <- Nobody
  Limits = {2}
  InitialTable <- Hard2
  AdminBudgets = {}
  Costs = {2}
  MaxInFlight = 1
  RedisFails = FALSE
  HandlersDie = FALSE
  MaxEdits = 0
INVARIANT CheckedSpendIsReal
CHECK_DEADLOCK FALSE
