SPECIFICATION MCSpec
CONSTANTS
  e1 = e1
  e2 = e2
  a1 = a1
  a2 = a2
  r1 = r1
  r2 = r2
  b1 = b1
  b2 = b2
  q1 = q1
  q2 = q2
  s1 = s1
  s2 = s2
  s3 = s3
  Countries = {"US", "DE"}
  Regions = {"NA", "EU"}
  Providers = {"openai", "gemini"}
  Evaluations = {e1, e2}
  Editors = {a1, a2}
  Texts <- MCTexts
  OriginOf <- MCOrigin
  ProviderOf <- MCProvider
  Patterns = {"badge"}
  Updates <- MCUpdates
  MaxPolicyBusy = 2
  Rules = {r1, r2}
  Bodies = {b1, b2}
  Priorities = {1, 2}
  NewRules <- MCNewRules
  Patches <- MCPatches
  Reorders <- MCReorders
  Routed = {q1, q2}
  RuleEditors = {a1, a2}
  MaxRuleBusy = 2
  CopyFails = TRUE
  Vendors = {"openai", "gemini"}
  Savers = {s1, s2, s3}
  MaxSaverBusy = 2
INVARIANT TypeOK
INVARIANT VerdictFollowsPolicy
INVARIANT RedactionHides
INVARIANT EditsTakeEffect
INVARIANT RoutesByRules
INVARIANT ReplacedKeyIsGone
PROPERTY EditsKeepToTheirColumns
PROPERTY RulesSettle
CHECK_DEADLOCK FALSE
