----------------------------- MODULE BudgetStore -----------------------------
(***************************************************************************)
(* The budgets administrators set: an upsert selects the budget of a scope   *)
(* and period, updates or inserts it, and reads it back; a budget is deleted *)
(* by its id.  Nothing makes scope and period unique.                        *)
(***************************************************************************)
EXTENDS Integers, FiniteSets

CONSTANTS
  BudgetKeys,     \* scope and period, of one organisation
  Upserts,        \* upserts, each once; also the ids of new rows
  Limits,
  MaxUpserts      \* bound: how many of them run at the same time

ASSUME BudgetAssumption == MaxUpserts \in Nat

VARIABLES
  budgets,        \* budgets rows: id, key, limit
  upsert,         \* each upsert: where it is, its key and limit, the rows it found
  lastLimit,      \* history: the limit a key has after the edits so far, if any
  doubledKeys,    \* history: the keys that have had two rows at a time
  dropped,        \* history: the ids of deleted rows
  inTurn          \* history: no two upserts overlapped

budgetVars == <<budgets, upsert, lastLimit, doubledKeys, dropped, inTurn>>

-----------------------------------------------------------------------------
Budget == [id : Upserts, key : BudgetKeys, limit : Limits]

BudgetsOf(key) == {b \in budgets : b.key = key}

Upserting == {u \in Upserts : upsert[u].at \notin {"new", "done", "failed"}}

UpsertGoes(u, at, found) == upsert' = [upsert EXCEPT ![u].at = at, ![u].found = found]

BudgetInit ==
  /\ budgets = {} /\ dropped = {} /\ doubledKeys = {} /\ inTurn = TRUE
  /\ upsert \in [Upserts -> [at : {"new"}, key : BudgetKeys, limit : Limits, found : {{}}]]
  /\ lastLimit = [k \in BudgetKeys |-> {}]

BeginSet(u) ==
  /\ upsert[u].at = "new" /\ Cardinality(Upserting) < MaxUpserts
  /\ UpsertGoes(u, "select", {})
  /\ inTurn' = (inTurn /\ Upserting = {})
  /\ UNCHANGED <<budgets, lastLimit, doubledKeys, dropped>>

\* scalar_one_or_none raises if there are several.
Doubled(found) == Cardinality(found) > 1

SelectBudget(u) ==
  LET found == BudgetsOf(upsert[u].key)
  IN  /\ upsert[u].at = "select"
      /\ UpsertGoes(u, IF Doubled(found) THEN "failed" ELSE "write", found)
      /\ UNCHANGED <<budgets, lastLimit, doubledKeys, dropped, inTurn>>

StillThere(u) == \A b \in upsert[u].found : \E c \in budgets : c.id = b.id

NewBudget(u) == [id |-> u, key |-> upsert[u].key, limit |-> upsert[u].limit]

\* Mutant: the budget is inserted whether or not there is one.
UpdatedAlso(u) == budgets \cup {NewBudget(u)}

\* A limit equal to the one that was read is not written.
Updated(u) ==
  {IF \E copy \in upsert[u].found : copy.id = b.id /\ copy.limit # upsert[u].limit
   THEN [b EXCEPT !.limit = upsert[u].limit] ELSE b : b \in budgets}

\* The insert, or the update if the row is still there, and the commit.
WriteBudget(u) ==
  LET found == upsert[u].found
  IN  /\ upsert[u].at = "write" /\ StillThere(u)
      /\ budgets' = IF found = {} THEN budgets \cup {NewBudget(u)} ELSE Updated(u)
      /\ UpsertGoes(u, "read", IF found = {} THEN {NewBudget(u)} ELSE found)
      /\ lastLimit' = [lastLimit EXCEPT ![upsert[u].key] = {upsert[u].limit}]
      /\ doubledKeys' = doubledKeys \cup {k \in BudgetKeys :
                                            \E a, b \in budgets' : a # b /\ a.key = k /\ b.key = k}
      /\ UNCHANGED <<dropped, inTurn>>

\* The refresh and get_all_budgets, in which create_budget looks for the row.
ReadBack(u) ==
  /\ upsert[u].at = "read" /\ StillThere(u)
  /\ UpsertGoes(u, "done", {})
  /\ UNCHANGED <<budgets, lastLimit, doubledKeys, dropped, inTurn>>

\* The row was deleted in between: the answer is an error, even after the commit.
RowIsGone(u) ==
  /\ upsert[u].at \in {"write", "read"} /\ ~StillThere(u)
  /\ UpsertGoes(u, "failed", upsert[u].found)
  /\ UNCHANGED <<budgets, lastLimit, doubledKeys, dropped, inTurn>>

\* delete_budget; of a doubled budget the other row remains.
DeleteBudget ==
  \E row \in budgets :
    /\ budgets' = budgets \ {row} /\ dropped' = dropped \cup {row.id}
    /\ lastLimit' = [lastLimit EXCEPT ![row.key] = {}]
    /\ UNCHANGED <<upsert, doubledKeys, inTurn>>

BudgetNext ==
  \/ \E u \in Upserts :
       BeginSet(u) \/ SelectBudget(u) \/ WriteBudget(u) \/ ReadBack(u) \/ RowIsGone(u)
  \/ DeleteBudget

BudgetSpec == BudgetInit /\ [][BudgetNext]_budgetVars

-----------------------------------------------------------------------------
\* Ids are keys, and an upsert works on rows of its scope and period.
BudgetTypeOK ==
  /\ budgets \subseteq Budget
  /\ \A a, b \in budgets : a.id = b.id => a = b
  /\ \A u \in Upserts : \A b \in upsert[u].found : b.key = upsert[u].key

\* While upserts do not overlap, a scope and period has the limit that was set
\* last, and no other.
LastLimitStands ==
  inTurn => \A k \in BudgetKeys :
    LET own == {b \in budgets : b.key = k}
    IN  {b.limit : b \in own} = lastLimit[k] /\ Cardinality(own) <= 1

\* An upsert is answered with an error only if two rows were there or its row
\* was deleted: an error never hides a limit that took force.
FailedSetNothing ==
  \A u \in Upserts : upsert[u].at = "failed" =>
    \/ upsert[u].key \in doubledKeys
    \/ \E b \in upsert[u].found : b.id \in dropped

\* What an upsert answers can be relied on: success left its limit as the only
\* one, and an error is explained by a doubled or deleted row.
LimitsAreHonest == LastLimitStands /\ FailedSetNothing
=============================================================================
