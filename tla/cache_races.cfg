SPECIFICATION MCSpec
CONSTANTS
  acme = acme
  zeta = zeta
  hello = hello
  hi = hi
  q1 = q1
  q2 = q2
  q3 = q3
  q4 = q4
  faq1 = faq1
  Requests = {q1, q2, q3, q4}
  Orgs = {acme, zeta}
  Prompts = {hello, hi}
  Faqs = {faq1}
  RequestOrg <- MCOrg
  RequestPrompt <- MCPrompt
  Personal = {q1}
  FaqOrg <- MCFaqOrg
  Near <- MCNear
  VeryNear <- MCVeryNear
  Admins = {a1}
  a1 = a1
  MaxBusy = 2
  RedisFails = TRUE
  HandlersDie = TRUE
CHECK_DEADLOCK FALSE
INVARIANT ServedFits
INVARIANT HitsAreCounted
INVARIANT OrphansAreExplained
PROPERTY OrphansExpire
