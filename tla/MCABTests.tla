------------------------------ MODULE MCABTests ------------------------------
(***************************************************************************)
(* A small instance of ABTests: a test that splits traffic and a shadow     *)
(* test.  Either two requests run beside one administrator, or two           *)
(* administrators beside each other.                                        *)
(***************************************************************************)
EXTENDS ABTests

CONSTANTS t1, t2, q1, q2, a1, a2

VARIABLE racing  \* do two administrators work at the same time?

MCInit == Init /\ racing \in BOOLEAN

\* Handlers are alike and so are requests: each kind begins in one order.
InOrder ==
  /\ IF racing THEN stage'[q1] = "new" ELSE op'[a2] = {}
  /\ stage'[q2] # "new" => stage'[q1] # "new"
  /\ Idle(a1) /\ Idle(a2) => op'[a2] = {}

MCNext == Next /\ InOrder /\ UNCHANGED racing

MCSpec == MCInit /\ [][MCNext]_<<vars, racing>> /\ Fairness
=============================================================================
