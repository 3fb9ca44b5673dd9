----------------------------- MODULE MCSpendGate -----------------------------
(***************************************************************************)
(* Small instances of SpendGate for TLC: two organisations, acme and zeta,  *)
(* a user ann, and budgets named after the scope and the period they limit. *)
(***************************************************************************)
EXTENDS SpendGate

CONSTANTS acme, zeta, ann,
          acmeDay,              \* acme's own budget
          acmeAnn, zetaAnn,     \* the two organisations' budgets for ann
          MaxEdits              \* bound: how often the administrator edits

VARIABLE edits

MCOrgs == {acme, zeta}

MCScopes == {acme, zeta, ann}

\* Daily periods start every day, monthly ones on day 0.
MCPeriodStart ==
  [k \in Kinds |-> [d \in Days |-> IF k = "daily" THEN d ELSE 0]]

MCBudgetOrg == [b \in Budgets |-> IF b = zetaAnn THEN zeta ELSE acme]

MCBudgetScope ==
  [b \in Budgets |-> IF b \in {acmeAnn, zetaAnn} THEN ann ELSE acme]

MCBudgetKind == [b \in Budgets |-> "daily"]

\* All requests of the single-organisation runs are acme's.
AllAcme == [r \in Requests |-> acme]

\* In the run with two organisations one request is zeta's.
OneZeta ==
  [r \in Requests |-> IF r = CHOOSE s \in Requests : TRUE THEN zeta ELSE acme]

Nobody == [r \in Requests |-> {}]

Ann == [r \in Requests |-> {ann}]

HardAt(n) ==
  {[budget |-> b, limit |-> n, hard |-> TRUE] : b \in Budgets}

Hard2 == HardAt(2)

Hard3 == HardAt(3)

MCInit == Init /\ edits = 0

MCNext ==
  \/ Serve /\ UNCHANGED edits
  \/ Edit /\ edits < MaxEdits /\ edits' = edits + 1

MCSpec == MCInit /\ [][MCNext]_<<vars, edits>> /\ Fairness
=============================================================================
