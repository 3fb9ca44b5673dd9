----------------------------- MODULE PolicyRules -----------------------------
(***************************************************************************)
(* PolicyEngine.evaluate without its text: how an organisation's policy     *)
(* turns what the detectors found in a prompt, and where the request comes  *)
(* from, into one action, the redacted text and the violations to log.      *)
(***************************************************************************)
EXTENDS Integers, Sequences, FiniteSets

CONSTANTS
  Countries,  \* country codes GeoIP returns
  Regions,    \* region codes, which share the keys of a policy with countries
  Providers   \* providers an organisation may list for a region

Severities == {"low", "medium", "high", "critical"}

PiiActions == {"allow", "redact", "warn", "block"}

PolicyActions == {"allow", "warn", "block"}

\* The lists of providers a policy allows, by country or region.
Policy ==
  [active : BOOLEAN, pii : PiiActions, code : PolicyActions,
   sensitive : PolicyActions, blocked : SUBSET Countries,
   allowed : [Countries \cup Regions -> Seq(Providers)]]

\* What the detectors say of a prompt: a severity each, none if they found
\* nothing.
Findings == [pii : Severities \cup {"none"}, code : Severities \cup {"none"},
             sensitive : Severities \cup {"none"}]

\* A local origin has a loopback or private address, or none.
Origin == [local : BOOLEAN, country : Countries, region : Regions]

Kinds == {"data_residency", "pii", "source_code", "sensitive_content"}

-----------------------------------------------------------------------------
\* _evaluate_policy: the country's list and the region's, one after the other.
AllowedList(policy, origin) ==
  policy.allowed[origin.country] \o policy.allowed[origin.region]

Lists(list, provider) == \E i \in DOMAIN list : list[i] = provider

\* Local requests pass; a country may be blocked; an empty list restricts
\* nothing.
Resides(policy, origin, provider) ==
  \/ origin.local
  \/ /\ origin.country \notin policy.blocked
     /\ \/ AllowedList(policy, origin) = <<>>
        \/ Lists(AllowedList(policy, origin), provider)

\* A provider is suggested when only the provider was wrong.
ResidencySeverity(policy, origin) ==
  IF origin.country \in policy.blocked THEN "critical" ELSE "high"

-----------------------------------------------------------------------------
\* What each check asks for, "allow" where it found nothing.
Act(kind, policy, findings, resides) ==
  CASE kind = "data_residency" -> IF resides THEN "allow" ELSE "block"
    [] kind = "pii" -> IF findings.pii = "none" THEN "allow" ELSE policy.pii
    [] kind = "source_code" ->
         IF findings.code = "none" THEN "allow" ELSE policy.code
    [] kind = "sensitive_content" ->
         IF findings.sensitive = "none" THEN "allow" ELSE policy.sensitive

\* A check takes over the action decided so far unless that is stricter.
Combine(sofar, act) ==
  CASE act = "block" -> "block"
    [] act = "redact" -> IF sofar = "block" THEN sofar ELSE "redact"
    [] act = "warn" -> IF sofar \in {"block", "redact"} THEN sofar ELSE "warn"
    [] act = "allow" -> sofar

\* The checks in the order evaluate applies them.
Decide(policy, findings, resides) ==
  LET A(kind) == Act(kind, policy, findings, resides)
  IN  Combine(Combine(Combine(A("data_residency"), A("pii")), A("source_code")),
              A("sensitive_content"))

\* The text is replaced by the redacted one unless residency already blocks.
Redacts(policy, findings, resides) ==
  resides /\ Act("pii", policy, findings, resides) = "redact"

Applied(act) == [redact |-> "redacted", warn |-> "warned", block |-> "blocked"][act]

\* One violation for each check that does not just allow.
Violations(policy, origin, findings, resides) ==
  LET Severity(kind) ==
        CASE kind = "data_residency" -> ResidencySeverity(policy, origin)
          [] kind = "pii" -> findings.pii
          [] kind = "source_code" -> findings.code
          [] kind = "sensitive_content" -> findings.sensitive
      Asked(kind) == Act(kind, policy, findings, resides)
  IN  {[kind |-> k, severity |-> Severity(k), action |-> Applied(Asked(k))] :
         k \in {x \in Kinds : Asked(x) # "allow"}}

\* PolicyEngine.evaluate; a policy that is not active allows everything.
Evaluate(policy, origin, provider, findings) ==
  LET resides == Resides(policy, origin, provider)
  IN  IF policy.active
      THEN [action |-> Decide(policy, findings, resides),
            redacted |-> Redacts(policy, findings, resides),
            violations |-> Violations(policy, origin, findings, resides)]
      ELSE [action |-> "allow", redacted |-> FALSE, violations |-> {}]

=============================================================================
