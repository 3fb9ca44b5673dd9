---------------------------- MODULE BudgetPromise ----------------------------
(***************************************************************************)
(* What the budget gate promises, without caches, keys or interleavings: a  *)
(* ledger of what each budget was charged per period, and for each request  *)
(* a verdict.  A request is turned away at the gate only when a budget of   *)
(* its own organisation was charged up to a limit in some period; it is     *)
(* charged at most once, only after it was admitted, and only to budgets of *)
(* its own organisation.                                                    *)
(***************************************************************************)
EXTENDS Integers

CONSTANTS Requests, Orgs, Budgets, Periods, Limits, Costs, RequestOrg, BudgetOrg

VARIABLES ledger, verdict

vars == <<ledger, verdict>>

Verdicts == {"new", "waiting", "admitted", "refused", "settled"}

Own(r) == {b \in Budgets : BudgetOrg[b] = RequestOrg[r]}

Init ==
  /\ ledger = [b \in Budgets |-> [d \in Periods |-> 0]]
  /\ verdict = [r \in Requests |-> "new"]

Rule(r, from, to) ==
  /\ verdict[r] = from
  /\ verdict' = [verdict EXCEPT ![r] = to]

Enter(r) == Rule(r, "new", "waiting") /\ UNCHANGED ledger

\* The security policy refuses on its own account.
PolicyRefuse(r) == Rule(r, "new", "refused") /\ UNCHANGED ledger

Admit(r) == Rule(r, "waiting", "admitted") /\ UNCHANGED ledger

\* A refusal has a cause in the ledger.
Refuse(r) ==
  /\ \E b \in Own(r), d \in Periods, limit \in Limits : ledger[b][d] >= limit
  /\ Rule(r, "waiting", "refused")
  /\ UNCHANGED ledger

\* A refused request costs nothing; an abandoned one is never charged.
Close(r) ==
  /\ \E v \in Verdicts \ {"new", "settled"} : Rule(r, v, "settled")
  /\ UNCHANGED ledger

Charge(r) ==
  /\ Rule(r, "admitted", "settled")
  /\ \E S \in SUBSET Own(r), cost \in Costs, at \in [Budgets -> Periods] :
       ledger' = [b \in Budgets |->
                    IF b \in S THEN [ledger[b] EXCEPT ![at[b]] = @ + cost]
                               ELSE ledger[b]]

Next == \E r \in Requests :
  \/ Enter(r) \/ PolicyRefuse(r) \/ Admit(r) \/ Refuse(r) \/ Close(r)
  \/ Charge(r)

Spec == Init /\ [][Next]_vars
=============================================================================
