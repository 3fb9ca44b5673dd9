SPECIFICATION MCSpec
CONSTANTS
  o1 = o1
  o2 = o2
  q1 = q1
  q2 = q2
  t1 = t1
  t2 = t2
  t3 = t3
  p1 = p1
  p2 = p2
  b1 = b1
  b2 = b2
  u1 = u1
  u2 = u2
  u3 = u3
  k1 = k1
  k2 = k2
  k3 = k3
  k4 = k4
  c1 = c1
  c2 = c2
  c3 = c3
  n1 = n1
  n2 = n2
  n3 = n3
  n4 = n4
  Keys = {k1, k2, k3, k4}
  Prefix <- MCPrefix
  KeyOrgs = {o1, o2}
  Issued <- MCIssued
  Wishes <- MCWishes
  Calls = {c1, c2, c3}
  MaxKeyBusy = 2
  Limited = {n1, n2, n3, n4}
  Size <- MCSize
  Quota <- MCQuota
  Skew = 1
  Buffer = 1
  MaxTime = 7
  Orgs = {o1, o2}
  Requests = {q1, q2}
  Names = {"core", "Core", "ops", "app"}
  Fold <- MCFold
  TeamIds = {t1, t2, t3}
  ProjectIds = {p1, p2}
  Tags <- MCTags
  TeamEdits <- MCTeamEdits
  MaxAttributed = 2
  MaxEdits = 2
  BudgetKeys = {b1, b2}
  Upserts = {u1, u2, u3}
  Limits = {1, 2}
  MaxUpserts = 2
  Teams <- MCTeams
  Loggable <- MCLoggable
  MonthDays = 2
  WeekDays = 2
  Window = 2
  MaxDay = 3
  MaxRows = 2
  Limit = 2
  MaxListed = 3
  MaxPages = 4
INVARIANT TypeOK
INVARIANT BarredStaysOut
INVARIANT QuotaIsExact
INVARIANT ChargedRight
INVARIANT LostOnlyIfDoubled
INVARIANT LimitsAreHonest
INVARIANT SectionsAgree
INVARIANT PagesMissNothing
PROPERTY RevocationHolds
CHECK_DEADLOCK FALSE
