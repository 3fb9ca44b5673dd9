------------------------------ MODULE MCTenants -----------------------------
(***************************************************************************)
(* The tenants on a small instance.  The six parts share no state in the    *)
(* models, so each behaviour here exercises one of them.                    *)
(***************************************************************************)
EXTENDS Tenants

CONSTANTS o1, o2, q1, q2, t1, t2, t3, p1, p2, b1, b2, u1, u2, u3,
          k1, k2, k3, k4, c1, c2, c3, n1, n2, n3, n4

VARIABLE area

\* Two admins' keys of two organisations and a key that expires; two of one prefix.
MCPrefix == [k \in Keys |-> IF k \in {k1, k2} THEN "nim_aaaa" ELSE "nim_bbbb"]

MCIssued ==
  {[id |-> k1, org |-> o1, admin |-> TRUE, active |-> TRUE, lapses |-> FALSE, expired |-> FALSE],
   [id |-> k2, org |-> o1, admin |-> FALSE, active |-> TRUE, lapses |-> TRUE, expired |-> FALSE],
   [id |-> k3, org |-> o2, admin |-> TRUE, active |-> TRUE, lapses |-> FALSE, expired |-> FALSE]}

\* One call issues, edits or revokes a key beside one that switches it on or off.
MCWishes ==
  [c \in Calls |->
     CASE c = c1 -> {[do |-> "create", key |-> k4, admin |-> TRUE, lapses |-> FALSE],
                     [do |-> "scopes", key |-> k2, admin |-> TRUE],
                     [do |-> "revoke", key |-> k2]}
       [] c = c2 -> {[do |-> "active", key |-> k2, active |-> TRUE],
                     [do |-> "revoke", key |-> k2], [do |-> "proxy"]}
       [] c = c3 -> {[do |-> "proxy"]}]

MCSize == [minute |-> 3, hour |-> 5]

MCQuota == [minute |-> 1, hour |-> 2]

MCFold == [n \in Names |-> IF n = "Core" THEN "core" ELSE n]

Tag(org, t, p, d) == [org |-> org, team |-> t, project |-> p, dept |-> d]

MCTags ==
  {Tag(o1, "core", "app", None), Tag(o1, "Core", "app", "ops"), Tag(o1, t3, None, None),
   Tag(o1, None, "app", "core"), Tag(o2, "core", "app", None)}

MCTeamEdits == {[org |-> o1, name |-> "core"], [org |-> o1, name |-> "ops"]}

MCTeams == <<"core", "ops">>

Logged(t, good, scope) == [table |-> t, good |-> good, scope |-> scope]

MCLoggable ==
  {Logged("requests_log", TRUE, "core"), Logged("requests_log", FALSE, "core"),
   Logged("requests_log", TRUE, "ops"),
   Logged("security_violations", TRUE, NoTeam),
   Logged("ab_test_results", TRUE, "A"), Logged("ab_test_results", TRUE, "B")}

Areas == {"keys", "rate", "attribution", "budgets", "reports", "listings"}

\* What is not exercised starts in one of its initial states.
MCInit ==
  /\ TenantsInit
  /\ area \in Areas
  \* The first request asks for any of the tags, the second for one of three.
  /\ tag[q2] \in {Tag(o1, "core", "app", None), Tag(o1, None, "app", "core"),
                 Tag(o2, "core", "app", None)}
  /\ area # "attribution" => \A r \in Requests : tag[r] = Tag(o1, "core", "app", None)
  /\ area # "budgets" => \A u \in Upserts : upsert[u].key = b1 /\ upsert[u].limit = 1

\* The limiter's requests are alike: they come in one order.
InOrder ==
  LET order == <<n1, n2, n3, n4>>
  IN  \A i \in 2..4 : stage[order[i]] # "new" => stage[order[i - 1]] # "new"

MCNext ==
  /\ \/ area = "keys" /\ KeysAlone
     \/ area = "rate" /\ RateAlone /\ InOrder'
     \/ area = "attribution" /\ AttributionAlone
     \/ area = "budgets" /\ BudgetsAlone
     \/ area = "reports" /\ ReportsAlone
     \/ area = "listings" /\ ListingsAlone
  /\ UNCHANGED area

MCSpec == MCInit /\ [][MCNext]_<<tenantsVars, area>>
=============================================================================
