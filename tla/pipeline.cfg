SPECIFICATION MCSpec
CONSTANTS
  r1 = r1
  r2 = r2
  Countries = {"US", "CN"}
  Regions = {"NA"}
  Providers = {"openai", "anthropic"}
  Requests = {r1, r2}
  Asks <- MCAsks
  Policies <- MCPolicies
  Measure <- MCMeasure
  RuleSets <- MCRuleSets
  Tests <- MCTests
  Credentials = {{"openai"}, {"anthropic", "bedrock"}}
  Removable = {"openai"}
INVARIANT FirstMessageIsScreened
INVARIANT FailedOnlyAfterTrying
INVARIANT BooksAgree
PROPERTY EveryRequestSettles
CHECK_DEADLOCK FALSE
