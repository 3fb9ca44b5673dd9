SPECIFICATION MCSpec
CONSTANTS
  t1 = t1
  t2 = t2
  q1 = q1
  q2 = q2
  a1 = a1
  a2 = a2
  Tests = {t1, t2}
  Requests = {q1, q2}
  Admins = {a1, a2}
  Shadow = {t2}
  MaxBusy = 2
  RedisFails = TRUE
  HandlersDie = TRUE
INVARIANT TypeOK
INVARIANT OneActiveTest
INVARIANT SummaryIsTrue
PROPERTY RoutingSettles
CHECK_DEADLOCK FALSE
