--------------------------- MODULE SpendGateProofs ---------------------------
(***************************************************************************)
(* Theorems about SpendGate for any requests, budgets, calendars and costs. *)
(***************************************************************************)
EXTENDS SpendGate, FiniteSetTheorems, TLAPS

-----------------------------------------------------------------------------
(* The spend sums. *)

\* The current period starts on a day.
LEMMA CurrentPeriodType ==
  ASSUME TypeOK, NEW b \in Budgets
  PROVE  CurrentPeriod(b) \in Days
BY CalendarAssumption, BudgetAssumption DEF TypeOK, CurrentPeriod

\* Logging a request keeps every sum a natural number and lowers none.
LEMMA ChargingOnlyAdds ==
  ASSUME TypeOK, NEW r \in Requests
  PROVE  /\ Charged(r) \in [Budgets -> [Days -> Nat]]
         /\ \A b \in Budgets, d \in Days : spent[b][d] <= Charged(r)[b][d]
<1>1. outcome[r].cost \in Nat
  <2>1. outcome[r] \in Outcome
    BY DEF TypeOK
  <2>2. outcome[r].cost \in Costs \cup {0}
    BY <2>1 DEF Outcome
  <2>3. \A c \in Costs \cup {0} : c \in Nat
    BY CostAssumption
  <2> QED BY <2>2, <2>3
<1>2. ASSUME NEW b \in Budgets
      PROVE  /\ Charged(r)[b] \in [Days -> Nat]
             /\ \A d \in Days : spent[b][d] <= Charged(r)[b][d]
  <2>1. CurrentPeriod(b) \in Days /\ spent[b] \in [Days -> Nat]
    BY CurrentPeriodType DEF TypeOK
  <2>2. CASE outcome[r].ok /\ Applies(b, r, RowScopes(r))
    <3>1. Charged(r)[b] =
            [spent[b] EXCEPT ![CurrentPeriod(b)] = @ + outcome[r].cost]
      BY <2>2 DEF Charged, Charges
    <3> QED BY <1>1, <2>1, <3>1
  <2>3. CASE ~(outcome[r].ok /\ Applies(b, r, RowScopes(r)))
    <3>1. Charged(r)[b] = spent[b]
      BY <2>3 DEF Charged, Charges
    <3> QED BY <2>1, <3>1
  <2> QED BY <2>2, <2>3
<1>3. Charged(r) = [b \in Budgets |-> Charged(r)[b]]
  BY DEF Charged, Charges
<1> QED BY <1>2, <1>3

\* The sums only grow: requests_log is never rewritten.
LEMMA SpentGrows ==
  ASSUME TypeOK, Next
  PROVE  \A b \in Budgets, d \in Days : spent[b][d] <= spent'[b][d]
<1>1. CASE \E r \in Requests : LogTransaction(r)
  BY <1>1, ChargingOnlyAdds DEF LogTransaction
<1>2. CASE spent' = spent
  BY <1>2 DEF TypeOK
<1> QED BY <1>1, <1>2 DEF Next, Serve, Edit, Arrive, ArriveBlocked, Handle, CacheHit,
      CacheMiss, ReadSpend, CacheSpend, Decide, Answer, Invalidate, Finish,
      Die, Leave, SetBudget, DeleteBudget, Expire, NextDay

-----------------------------------------------------------------------------
(* Types. *)

\* A cache key is a scope and a kind of period.
LEMMA KeyType == \A b \in Budgets : Key(b) \in Scopes \X Kinds
BY BudgetAssumption DEF Key

\* The types hold initially.
LEMMA TypeInit == Init => TypeOK
<1> SUFFICES ASSUME Init PROVE TypeOK
  OBVIOUS
<1> QED BY CalendarAssumption, BudgetAssumption
      DEF Init, TypeOK, HistoryOK, Days, Phases, Outcome, NoOutcome

\* What DELETE leaves behind are keys.
LEMMA UndeletedType ==
  ASSUME TypeOK, NEW r \in Requests
  PROVE  Undeleted(r) \subseteq Scopes \X Kinds
BY DEF TypeOK, HistoryOK, Undeleted, Entry

\* Every step keeps the types of the histories.
LEMMA HistoryStep == TypeOK /\ [Next]_vars => HistoryOK'
<1> SUFFICES ASSUME TypeOK, [Next]_vars PROVE HistoryOK'
  OBVIOUS
<1>1. HistoryOK /\ cache \subseteq Entry
  BY DEF TypeOK
<1> USE <1>1 DEF HistoryOK
<1>2. ASSUME NEW r \in Requests, Arrive(r) PROVE HistoryOK'
  BY <1>2 DEF Arrive, BeginCheck, OfOthers
<1>3. ASSUME NEW r \in Requests, CacheHit(r) PROVE HistoryOK'
  <2>1. PICK row \in todo[r] : outrun' \subseteq outrun \cup {<<r, row.budget>>}
    BY <1>3 DEF CacheHit
  <2>2. row.budget \in Budgets
    BY DEF TypeOK, Row
  <2> QED BY <1>3, <2>1, <2>2 DEF CacheHit
<1>4. ASSUME NEW r \in Requests, CacheSpend(r) PROVE HistoryOK'
  <2>1. PICK c \in fetched[r] : stale' = Stored(r, c.row.budget) \/ stale' = stale
    BY <1>4 DEF CacheSpend
  <2>2. c.row.budget \in Budgets
    BY DEF TypeOK, Check, Row
  <2>3. stale' \subseteq Scopes \X Kinds
    BY <2>1, <2>2, KeyType DEF Stored
  <2> QED BY <1>4, <2>3 DEF CacheSpend
<1>5. ASSUME NEW r \in Requests, LogTransaction(r) PROVE HistoryOK'
  BY <1>5 DEF LogTransaction, Outrun
<1>6. ASSUME NEW r \in Requests, Invalidate(r) PROVE HistoryOK'
  BY <1>6, UndeletedType DEF Invalidate, BeginCheck, OfOthers
<1>7. ASSUME NEW r \in Requests, Leave(r) PROVE HistoryOK'
  BY <1>7, UndeletedType DEF Leave, OfOthers
<1>8. ASSUME NEW b \in AdminBudgets, SetBudget(b) PROVE HistoryOK'
  BY <1>8, BudgetAssumption DEF SetBudget, Underway
<1>9. ASSUME NEW k \in Keys, Expire(k) PROVE HistoryOK'
  BY <1>9 DEF Expire
<1>10. ASSUME NextDay PROVE HistoryOK'
  BY <1>10 DEF NextDay, Outrun, Entry
<1>11. CASE UNCHANGED history
  BY <1>11 DEF history
<1> QED BY <1>2, <1>3, <1>4, <1>5, <1>6, <1>7, <1>8, <1>9, <1>10, <1>11
      DEF vars, Next, Serve, Edit, Handle, Finish, Die, ArriveBlocked, CacheMiss,
          ReadSpend, Decide, Answer, DeleteBudget

\* Every step keeps the types.
LEMMA TypeStep == TypeOK /\ [Next]_vars => TypeOK'
<1> SUFFICES ASSUME TypeOK, [Next]_vars PROVE TypeOK'
  OBVIOUS
<1>0. HistoryOK'
  BY HistoryStep
<1> USE <1>0 DEF TypeOK
<1>1. ASSUME NEW r \in Requests, Arrive(r) PROVE TypeOK'
  BY <1>1 DEF Arrive, BeginCheck, OfOthers, Phases
<1>2. ASSUME NEW r \in Requests, ArriveBlocked(r) PROVE TypeOK'
  BY <1>2 DEF ArriveBlocked, Phases, history
<1>3. ASSUME NEW r \in Requests, CacheHit(r) PROVE TypeOK'
  <2>1. PICK row \in todo[r], e \in cache : Record(r, row, e.spend, e.period)
    BY <1>3 DEF CacheHit
  <2>2. row \in Row /\ e.spend \in Nat /\ e.period \in Days
    BY DEF Entry
  <2>3. [row |-> row, spend |-> e.spend, period |-> e.period] \in Check
    BY <2>2 DEF Check
  <2> QED BY <1>3, <2>1, <2>3 DEF CacheHit, Record
<1>4. ASSUME NEW r \in Requests, CacheMiss(r) PROVE TypeOK'
  BY <1>4 DEF CacheMiss, history
<1>5. ASSUME NEW r \in Requests, ReadSpend(r) PROVE TypeOK'
  <2>1. PICK row \in missed[r] :
          fetched' = [fetched EXCEPT ![r] =
            {[row |-> row, spend |-> spent[row.budget][CurrentPeriod(row.budget)],
              period |-> CurrentPeriod(row.budget)]}]
    BY <1>5 DEF ReadSpend
  <2>2. row \in Row /\ row.budget \in Budgets
    BY DEF Row
  <2>3. /\ CurrentPeriod(row.budget) \in Days
        /\ spent[row.budget][CurrentPeriod(row.budget)] \in Nat
    BY <2>2, CurrentPeriodType
  <2>4. [row |-> row, spend |-> spent[row.budget][CurrentPeriod(row.budget)],
          period |-> CurrentPeriod(row.budget)] \in Check
    BY <2>2, <2>3 DEF Check
  <2> QED BY <1>5, <2>1, <2>4 DEF ReadSpend
<1>6. ASSUME NEW r \in Requests, CacheSpend(r) PROVE TypeOK'
  <2>1. PICK c \in fetched[r] : /\ cache' = Put(c) \/ cache' = cache
                                /\ Record(r, c.row, c.spend, c.period)
    BY <1>6 DEF CacheSpend
  <2>2. c \in Check /\ c.row \in Row /\ c.row.budget \in Budgets
    BY DEF Check, Row
  <2>3. [row |-> c.row, spend |-> c.spend, period |-> c.period] \in Check
    BY <2>2 DEF Check
  <2>4. [key |-> Key(c.row.budget), spend |-> c.spend,
         budget |-> c.row.budget, period |-> c.period] \in Entry
    BY <2>2, KeyType DEF Entry, Check
  <2>5. cache' \subseteq Entry
    BY <2>1, <2>4 DEF Put
  <2> QED BY <1>6, <2>1, <2>3, <2>5 DEF CacheSpend, Record
<1>7. ASSUME NEW r \in Requests, Decide(r) PROVE TypeOK'
  BY <1>7 DEF Decide, Phases, history
<1>8. ASSUME NEW r \in Requests, Answer(r) PROVE TypeOK'
  BY <1>8 DEF Answer, Phases, Outcome, history
<1>9. ASSUME NEW r \in Requests, LogTransaction(r) PROVE TypeOK'
  BY <1>9, ChargingOnlyAdds DEF LogTransaction, Phases
<1>10. ASSUME NEW r \in Requests, Invalidate(r) PROVE TypeOK'
  BY <1>10 DEF Invalidate, BeginCheck, Phases
<1>11. ASSUME NEW r \in Requests, Leave(r) PROVE TypeOK'
  BY <1>11 DEF Leave, Phases, Outcome, NoOutcome
<1>12. ASSUME NEW b \in AdminBudgets, SetBudget(b) PROVE TypeOK'
  BY <1>12, BudgetAssumption DEF SetBudget, Row
<1>13. ASSUME NEW b \in AdminBudgets, DeleteBudget(b) PROVE TypeOK'
  BY <1>13 DEF DeleteBudget, history
<1>14. ASSUME NEW k \in Keys, Expire(k) PROVE TypeOK'
  BY <1>14 DEF Expire
<1>15. ASSUME NextDay PROVE TypeOK'
  BY <1>15, CalendarAssumption DEF NextDay, Days
<1>16. CASE UNCHANGED vars
  BY <1>16 DEF vars, history
<1> QED BY <1>1, <1>2, <1>3, <1>4, <1>5, <1>6, <1>7, <1>8, <1>9, <1>10, <1>11,
      <1>12, <1>13, <1>14, <1>15, <1>16 DEF Next, Serve, Edit, Handle, Finish, Die

\* Every reachable state of the gate is well typed.
THEOREM TypeCorrect == Spec => []TypeOK
<1>1. Init => TypeOK
  BY TypeInit
<1>2. TypeOK /\ [Next]_vars => TypeOK'
  BY TypeStep
<1> QED BY <1>1, <1>2, PTL DEF Spec

-----------------------------------------------------------------------------
(* Nothing the gate believes about a budget exceeds what was charged to it. *)

EntriesSound ==
  \A e \in cache : /\ e.key = Key(e.budget)
                   /\ e.spend <= spent[e.budget][e.period]

ReadsSound ==
  \A r \in Requests : \A c \in fetched[r] :
    c.spend <= spent[c.row.budget][c.period]

\* A cached, fetched or checked spend stays sound while the sums grow.
LEMMA SoundSpendStays ==
  ASSUME TypeOK, Next, NEW b \in Budgets, NEW d \in Days, NEW n \in Nat,
         n <= spent[b][d]
  PROVE  n <= spent'[b][d]
<1>1. spent[b][d] <= spent'[b][d]
  BY SpentGrows
<1>2. spent[b][d] \in Nat /\ spent'[b][d] \in Nat
  BY TypeStep DEF TypeOK
<1> QED BY <1>1, <1>2

\* The types of the fields of a cache entry.
LEMMA EntryFields ==
  ASSUME TypeOK, NEW e \in cache
  PROVE  e.budget \in Budgets /\ e.period \in Days /\ e.spend \in Nat
BY DEF TypeOK, Entry

\* The types of the fields of a check.
LEMMA CheckFields ==
  ASSUME NEW c \in Check
  PROVE  /\ c.row \in Row /\ c.row.budget \in Budgets
         /\ c.period \in Days /\ c.spend \in Nat
BY DEF Check, Row

\* A sum just read is the sum itself.
LEMMA ReadsSoundStep ==
  ASSUME TypeOK, ReadsSound, [Next]_vars
  PROVE  ReadsSound'
<1>1. CASE UNCHANGED vars
  BY <1>1 DEF vars, history, ReadsSound
<1>2. CASE Next
  <2>1. ASSUME NEW r \in Requests, NEW c \in fetched'[r], c \in fetched[r]
        PROVE  c.spend <= spent'[c.row.budget][c.period]
    <3>1. c \in Check
      BY <2>1 DEF TypeOK
    <3> QED BY <2>1, <1>2, <3>1, CheckFields, SoundSpendStays DEF ReadsSound
  <2>2. ASSUME NEW q \in Requests, ReadSpend(q),
               NEW r \in Requests, NEW c \in fetched'[r], c \notin fetched[r]
        PROVE  c.spend <= spent'[c.row.budget][c.period]
    <3>1. PICK row \in missed[q] :
            fetched' = [fetched EXCEPT ![q] =
              {[row |-> row, spend |-> spent[row.budget][CurrentPeriod(row.budget)],
                period |-> CurrentPeriod(row.budget)]}]
      BY <2>2 DEF ReadSpend
    <3>2. row.budget \in Budgets
      BY DEF TypeOK, Row
    <3>3. spent[row.budget][CurrentPeriod(row.budget)] \in Nat
      BY <3>2, CurrentPeriodType DEF TypeOK
    <3>4. /\ c.row = row
          /\ c.period = CurrentPeriod(row.budget)
          /\ c.spend = spent[row.budget][CurrentPeriod(row.budget)]
      BY <2>2, <3>1 DEF TypeOK
    <3>5. spent' = spent
      BY <2>2 DEF ReadSpend
    <3> QED BY <3>3, <3>4, <3>5
  <2>3. ASSUME NEW r \in Requests, NEW c \in fetched'[r], c \notin fetched[r]
        PROVE  \E q \in Requests : ReadSpend(q)
    BY <1>2, <2>3 DEF TypeOK, Next, Serve, Edit, Arrive, ArriveBlocked, Handle, CacheHit,
      CacheMiss, CacheSpend, Decide, Answer, LogTransaction, Invalidate,
      Finish, Die, Leave, SetBudget, DeleteBudget, Expire, NextDay
  <2> QED BY <2>1, <2>2, <2>3 DEF ReadsSound
<1> QED BY <1>1, <1>2

\* SETEX stores what was read; every other step only removes entries.
LEMMA EntriesSoundStep ==
  ASSUME TypeOK, ReadsSound, EntriesSound, [Next]_vars
  PROVE  EntriesSound'
<1>1. CASE UNCHANGED vars
  BY <1>1 DEF vars, history, EntriesSound, Key
<1>2. CASE Next
  <2>1. ASSUME NEW e \in cache', e \in cache
        PROVE  e.key = Key(e.budget) /\ e.spend <= spent'[e.budget][e.period]
    BY <1>2, <2>1, EntryFields, SoundSpendStays DEF EntriesSound
  <2>2. ASSUME NEW r \in Requests, CacheSpend(r), NEW e \in cache', e \notin cache
        PROVE  e.key = Key(e.budget) /\ e.spend <= spent'[e.budget][e.period]
    <3>1. PICK c \in fetched[r] : cache' = Put(c) \/ cache' = cache
      BY <2>2 DEF CacheSpend
    <3>2. e = [key |-> Key(c.row.budget), spend |-> c.spend,
               budget |-> c.row.budget, period |-> c.period]
      BY <2>2, <3>1 DEF Put
    <3>3. c.spend <= spent[c.row.budget][c.period]
      BY DEF ReadsSound
    <3>4. spent' = spent
      BY <2>2 DEF CacheSpend
    <3> QED BY <3>2, <3>3, <3>4
  <2>3. ASSUME NEW e \in cache', e \notin cache
        PROVE  \E r \in Requests : CacheSpend(r)
    BY <1>2, <2>3 DEF Next, Serve, Edit, Arrive, ArriveBlocked, Handle, CacheHit,
      CacheMiss, ReadSpend, Decide, Answer, LogTransaction, Invalidate,
      Finish, Die, Leave, SetBudget, DeleteBudget, Expire, NextDay
  <2> QED BY <2>1, <2>2, <2>3 DEF EntriesSound, Key
<1> QED BY <1>1, <1>2

\* The inductive invariant: the cache can be sound only because what is read
\* and not yet cached is.
CacheInv == TypeOK /\ ReadsSound /\ EntriesSound

\* What was read and what is cached is at most what the log holds, in every behaviour.
LEMMA CacheInvariant == Spec => []CacheInv
<1>1. Init => CacheInv
  BY TypeInit DEF Init, CacheInv, ReadsSound, EntriesSound
<1>2. CacheInv /\ [Next]_vars => CacheInv'
  BY TypeStep, ReadsSoundStep, EntriesSoundStep DEF CacheInv
<1> QED BY <1>1, <1>2, PTL DEF Spec

-----------------------------------------------------------------------------
\* What a check finds is what was read or what was cached for the same key.
LEMMA ChecksSoundStep ==
  ASSUME OwnKeys, CacheInv, CheckedSpendIsReal, [Next]_vars
  PROVE  CheckedSpendIsReal'
<1> USE DEF CacheInv
<1>1. CASE UNCHANGED vars
  BY <1>1 DEF vars, history, CheckedSpendIsReal
<1>2. CASE Next
  <2>1. ASSUME NEW r \in Requests, NEW c \in checked'[r], c \in checked[r]
        PROVE  c.spend <= spent'[c.row.budget][c.period]
    <3>1. c \in Check
      BY <2>1 DEF TypeOK
    <3> QED BY <2>1, <1>2, <3>1, CheckFields, SoundSpendStays
          DEF CheckedSpendIsReal
  <2>2. ASSUME NEW q \in Requests, CacheHit(q),
               NEW r \in Requests, NEW c \in checked'[r], c \notin checked[r]
        PROVE  c.spend <= spent'[c.row.budget][c.period]
    <3>1. PICK row \in todo[q], e \in cache :
            /\ e.key = Key(row.budget)
            /\ Record(q, row, e.spend, e.period)
      BY <2>2 DEF CacheHit
    <3>2. c = [row |-> row, spend |-> e.spend, period |-> e.period]
      BY <2>2, <3>1 DEF Record, TypeOK
    <3>3. row.budget \in Budgets /\ e.budget \in Budgets
      BY EntryFields DEF TypeOK, Row
    <3>4. e.budget = row.budget
      BY <3>1, <3>3 DEF OwnKeys, EntriesSound
    <3>5. spent' = spent
      BY <2>2 DEF CacheHit
    <3> QED BY <3>2, <3>4, <3>5 DEF EntriesSound
  <2>3. ASSUME NEW q \in Requests, CacheSpend(q),
               NEW r \in Requests, NEW c \in checked'[r], c \notin checked[r]
        PROVE  c.spend <= spent'[c.row.budget][c.period]
    <3>1. PICK f \in fetched[q] : Record(q, f.row, f.spend, f.period)
      BY <2>3 DEF CacheSpend
    <3>2. c = [row |-> f.row, spend |-> f.spend, period |-> f.period]
      BY <2>3, <3>1 DEF Record, TypeOK
    <3>3. spent' = spent
      BY <2>3 DEF CacheSpend
    <3> QED BY <3>2, <3>3 DEF ReadsSound
  <2>4. ASSUME NEW r \in Requests, NEW c \in checked'[r], c \notin checked[r]
        PROVE  \E q \in Requests : CacheHit(q) \/ CacheSpend(q)
    BY <1>2, <2>4 DEF TypeOK, Next, Serve, Edit, Arrive, ArriveBlocked, BeginCheck, Handle,
      CacheMiss, ReadSpend, Decide, Answer, LogTransaction, Invalidate,
      Finish, Die, Leave, SetBudget, DeleteBudget, Expire, NextDay
  <2> QED BY <2>1, <2>2, <2>3, <2>4 DEF CheckedSpendIsReal
<1> QED BY <1>1, <1>2

\* Where no two budgets share a cache key, every spend compared with a limit
\* was charged to that very budget: no request is refused without a cause.
THEOREM RefusalsHaveACause ==
  ASSUME OwnKeys
  PROVE  Spec => []CheckedSpendIsReal
<1>1. Init => CheckedSpendIsReal
  BY DEF Init, CheckedSpendIsReal
<1>2. CacheInv /\ CheckedSpendIsReal /\ [Next]_vars => CheckedSpendIsReal'
  BY OwnKeys, ChecksSoundStep
<1> QED BY <1>1, <1>2, CacheInvariant, PTL DEF Spec

-----------------------------------------------------------------------------
(* The gate implements BudgetPromise. *)

\* Only an answered request carries attribution, and only such a row is charged.
Answered ==
  \A r \in Requests :
    /\ phase[r] \in {"new", "gate", "call"} => ~outcome[r].attributed
    /\ outcome[r].ok => outcome[r].attributed

\* Every step keeps that only an answered call has a cost or status 200.
LEMMA AnsweredStep ==
  ASSUME TypeOK, Answered, [Next]_vars
  PROVE  Answered'
<1> USE DEF TypeOK, Answered
<1>1. ASSUME NEW r \in Requests, Answer(r) PROVE Answered'
  BY <1>1 DEF Answer, Outcome
<1>2. ASSUME NEW r \in Requests, Leave(r) PROVE Answered'
  BY <1>2 DEF Leave, NoOutcome
<1>3. ASSUME NEW r \in Requests, Arrive(r) \/ ArriveBlocked(r) PROVE Answered'
  BY <1>3 DEF Arrive, ArriveBlocked
<1>4. ASSUME NEW r \in Requests,
             Decide(r) \/ LogTransaction(r) \/ Invalidate(r)
      PROVE  Answered'
  BY <1>4 DEF Decide, LogTransaction, Invalidate
<1>5. CASE UNCHANGED <<phase, outcome>>
  BY <1>5
<1> QED BY <1>1, <1>2, <1>3, <1>4, <1>5 DEF vars, history, Next, Serve, Edit, Handle, Finish, Die,
      CacheHit, CacheMiss, ReadSpend, CacheSpend, SetBudget, DeleteBudget,
      Expire, NextDay

\* A check only looks at budgets of the request's organisation.
RowsInHand(r) ==
  todo[r] \cup missed[r] \cup {c.row : c \in fetched[r] \cup checked[r]}

OwnRows ==
  \A r \in Requests : \A row \in RowsInHand(r) :
    BudgetOrg[row.budget] = RequestOrg[r]

\* Every step keeps that the rows a handler holds are of its own organisation.
LEMMA OwnRowsStep ==
  ASSUME TypeOK, OwnRows, [Next]_vars
  PROVE  OwnRows'
<1> USE DEF TypeOK, OwnRows, RowsInHand
<1>1. ASSUME NEW r \in Requests, NEW scopes, BeginCheck(r, scopes),
             UNCHANGED <<missed, fetched>>
      PROVE  OwnRows'
  BY <1>1 DEF BeginCheck, Applies
<1>2. ASSUME NEW r \in Requests, CacheHit(r) PROVE OwnRows'
  BY <1>2 DEF CacheHit, Record
<1>3. ASSUME NEW r \in Requests, CacheMiss(r) PROVE OwnRows'
  BY <1>3 DEF CacheMiss
<1>4. ASSUME NEW r \in Requests, ReadSpend(r) PROVE OwnRows'
  BY <1>4 DEF ReadSpend
<1>5. ASSUME NEW r \in Requests, CacheSpend(r) PROVE OwnRows'
  BY <1>5 DEF CacheSpend, Record
<1>6. ASSUME NEW r \in Requests, Leave(r) PROVE OwnRows'
  BY <1>6 DEF Leave
<1>7. CASE UNCHANGED <<todo, missed, fetched, checked>>
  BY <1>7
<1> QED BY <1>1, <1>2, <1>3, <1>4, <1>5, <1>6, <1>7
       DEF vars, history, Next, Serve, Edit, Handle, Finish, Die, Arrive, ArriveBlocked, Decide,
           Answer, LogTransaction, Invalidate, SetBudget, DeleteBudget, Expire,
           NextDay

VerdictOf == [r \in Requests |-> Verdict(r)]

\* The verdict of a request is one BudgetPromise knows.
LEMMA VerdictType ==
  ASSUME TypeOK, NEW r \in Requests
  PROVE  Verdict(r) \in {"new", "waiting", "admitted", "refused", "settled"}
BY DEF TypeOK, Phases, Verdict

\* A step of one handler moves the verdict of that request only.
LEMMA OneVerdict ==
  ASSUME TypeOK, NEW r \in Requests, NEW to,
         phase' = [phase EXCEPT ![r] = to],
         \A q \in Requests : q # r => outcome'[q] = outcome[q]
  PROVE  VerdictOf' = [VerdictOf EXCEPT ![r] = Verdict(r)']
<1>1. \A q \in Requests : q # r => Verdict(q)' = Verdict(q)
  BY DEF TypeOK, Verdict
<1> QED BY <1>1 DEF VerdictOf

\* Each step of the gate is a step of the promise or changes nothing it shows.
LEMMA PromiseStep ==
  ASSUME TypeOK, Answered, OwnRows, CheckedSpendIsReal, [Next]_vars
  PROVE  [Promise!Next]_(Promise!vars)
<1> DEFINE Stutter == UNCHANGED <<spent, VerdictOf>>
<1>0. Stutter => UNCHANGED Promise!vars
  BY DEF Promise!vars, VerdictOf
<1> USE DEF TypeOK
<1>1. ASSUME NEW r \in Requests, Arrive(r) PROVE Promise!Next
  <2>1. VerdictOf' = [VerdictOf EXCEPT ![r] = Verdict(r)']
    BY <1>1, OneVerdict DEF Arrive
  <2>2. Verdict(r) = "new" /\ Verdict(r)' = "waiting"
    BY <1>1 DEF Arrive, Verdict
  <2>3. Promise!Enter(r)
    BY <1>1, <2>1, <2>2 DEF Promise!Enter, Promise!Rule, VerdictOf, Arrive
  <2> QED BY <2>3 DEF Promise!Next
<1>2. ASSUME NEW r \in Requests, ArriveBlocked(r) PROVE Promise!Next
  <2>1. VerdictOf' = [VerdictOf EXCEPT ![r] = Verdict(r)']
    BY <1>2, OneVerdict DEF ArriveBlocked
  <2>2. Verdict(r) = "new" /\ Verdict(r)' = "refused"
    BY <1>2 DEF ArriveBlocked, Verdict, Answered
  <2>3. Promise!PolicyRefuse(r)
    BY <1>2, <2>1, <2>2
       DEF Promise!PolicyRefuse, Promise!Rule, VerdictOf, ArriveBlocked
  <2> QED BY <2>3 DEF Promise!Next
<1>3. ASSUME NEW r \in Requests, Decide(r) PROVE Promise!Next
  <2>1. VerdictOf' = [VerdictOf EXCEPT ![r] = Verdict(r)']
    BY <1>3, OneVerdict DEF Decide
  <2>2. CASE \E c \in checked[r] : Blocks(c)
    <3>1. PICK c \in checked[r] : Blocks(c)
      BY <2>2
    <3>2. /\ c.row.budget \in Budgets /\ c.period \in Days
          /\ c.row.limit \in Limits /\ c.row.limit \in Nat /\ c.spend \in Nat
      <4>1. c \in Check
        OBVIOUS
      <4>2. c.row \in Row
        BY <4>1, CheckFields
      <4>3. c.row.limit \in Limits
        BY <4>2 DEF Row
      <4> QED BY <4>1, <4>3, CheckFields, BudgetAssumption
    <3>3. spent[c.row.budget][c.period] >= c.row.limit
      BY <3>1, <3>2 DEF CheckedSpendIsReal, Blocks, HardBlocked
    <3>4. BudgetOrg[c.row.budget] = RequestOrg[r]
      BY DEF OwnRows, RowsInHand
    <3>5. Verdict(r) = "waiting" /\ Verdict(r)' = "refused"
      BY <1>3, <2>2 DEF Decide, Verdict, Answered
    <3>6. Promise!Refuse(r)
      BY <1>3, <2>1, <3>2, <3>3, <3>4, <3>5
         DEF Promise!Refuse, Promise!Rule, Promise!Own, VerdictOf, Decide
    <3> QED BY <3>6 DEF Promise!Next
  <2>3. CASE ~ \E c \in checked[r] : Blocks(c)
    <3>1. Verdict(r) = "waiting" /\ Verdict(r)' = "admitted"
      BY <1>3, <2>3 DEF Decide, Verdict
    <3>2. Promise!Admit(r)
      BY <1>3, <2>1, <3>1 DEF Promise!Admit, Promise!Rule, VerdictOf, Decide
    <3> QED BY <3>2 DEF Promise!Next
  <2> QED BY <2>2, <2>3
<1>4. ASSUME NEW r \in Requests, Answer(r) PROVE Stutter
  <2>1. VerdictOf' = [VerdictOf EXCEPT ![r] = Verdict(r)']
    BY <1>4, OneVerdict DEF Answer
  <2>2. Verdict(r) = "admitted" /\ Verdict(r)' = "admitted"
    BY <1>4 DEF Answer, Verdict
  <2> QED BY <1>4, <2>1, <2>2 DEF Answer, VerdictOf
<1>5. ASSUME NEW r \in Requests, LogTransaction(r) PROVE Promise!Next
  <2>1. VerdictOf' = [VerdictOf EXCEPT ![r] = Verdict(r)']
    BY <1>5, OneVerdict DEF LogTransaction
  <2>2. Verdict(r)' = "settled"
    BY <1>5 DEF LogTransaction, Verdict
  <2>3. CASE outcome[r].attributed
    <3> DEFINE S == {b \in Budgets : outcome[r].ok /\ Applies(b, r, RowScopes(r))}
               at == [b \in Budgets |-> CurrentPeriod(b)]
    <3>1. Verdict(r) = "admitted"
      BY <1>5, <2>3 DEF LogTransaction, Verdict
    <3>2. S \in SUBSET Promise!Own(r)
      BY DEF Promise!Own, Applies
    <3>3. at \in [Budgets -> Days]
      BY CurrentPeriodType
    <3>4. outcome[r].cost \in Costs \cup {0}
      BY DEF Outcome
    <3>5. spent' = [b \in Budgets |->
                     IF b \in S THEN [spent[b] EXCEPT ![at[b]] = @ + outcome[r].cost]
                                ELSE spent[b]]
      BY <1>5 DEF LogTransaction, Charged, Charges
    <3>6. Promise!Rule(r, "admitted", "settled")
      BY <2>1, <2>2, <3>1 DEF Promise!Rule, VerdictOf
    <3> HIDE DEF S, at
    <3>7. Promise!Charge(r)
      BY <3>2, <3>3, <3>4, <3>5, <3>6 DEF Promise!Charge
    <3> QED BY <3>7 DEF Promise!Next
  <2>4. CASE ~outcome[r].attributed
    <3>1. Verdict(r) = "refused"
      BY <1>5, <2>4 DEF LogTransaction, Verdict
    <3>2. Charged(r) = spent
      BY <2>4 DEF Charged, Charges, Answered
    <3>3. Promise!Close(r)
      BY <1>5, <2>1, <2>2, <3>1, <3>2
         DEF LogTransaction, Promise!Close, Promise!Rule, Promise!Verdicts,
             VerdictOf
    <3> QED BY <3>3 DEF Promise!Next
  <2> QED BY <2>3, <2>4
<1>6. ASSUME NEW r \in Requests, Invalidate(r) PROVE Stutter
  <2>1. VerdictOf' = [VerdictOf EXCEPT ![r] = Verdict(r)']
    BY <1>6, OneVerdict DEF Invalidate
  <2>2. Verdict(r) = "settled" /\ Verdict(r)' = "settled"
    BY <1>6 DEF Invalidate, Verdict
  <2> QED BY <1>6, <2>1, <2>2 DEF Invalidate, VerdictOf
<1>7. ASSUME NEW r \in InFlight, Leave(r) PROVE Promise!Next \/ Stutter
  <2>1. r \in Requests /\ phase[r] \notin {"new", "done"}
    BY DEF InFlight
  <2>2. VerdictOf' = [VerdictOf EXCEPT ![r] = Verdict(r)']
    BY <1>7, <2>1, OneVerdict DEF Leave
  <2>3. Verdict(r)' = "settled"
    BY <1>7, <2>1 DEF Leave, Verdict
  <2>4. Verdict(r) # "new"
    BY <2>1 DEF Verdict
  <2>5. CASE Verdict(r) = "settled"
    BY <1>7, <2>1, <2>2, <2>3, <2>5 DEF Leave, VerdictOf
  <2>6. CASE Verdict(r) # "settled"
    <3>1. Verdict(r) \in Promise!Verdicts \ {"new", "settled"}
      BY <2>1, <2>4, <2>6, VerdictType DEF Promise!Verdicts
    <3>2. Promise!Close(r)
      BY <1>7, <2>1, <2>2, <2>3, <3>1
         DEF Leave, Promise!Close, Promise!Rule, VerdictOf
    <3> QED BY <2>1, <3>2 DEF Promise!Next
  <2> QED BY <2>5, <2>6
<1>8. ASSUME UNCHANGED <<spent, phase, outcome>> PROVE Stutter
  BY <1>8 DEF VerdictOf, Verdict
<1>9. ASSUME NEW r \in Requests, Finish(r) PROVE Promise!Next \/ Stutter
  <2>1. r \in InFlight
    BY <1>9 DEF Finish, InFlight
  <2>2. Leave(r)
    BY <1>9 DEF Finish
  <2> QED BY <1>7, <2>1, <2>2
<1> HIDE DEF Stutter
<1>10. Promise!Next \/ Stutter
  BY <1>1, <1>2, <1>3, <1>4, <1>5, <1>6, <1>7, <1>8, <1>9
     DEF vars, history, Next, Serve, Edit, Handle, Die, CacheHit, CacheMiss, ReadSpend, CacheSpend,
         SetBudget, DeleteBudget, Expire, NextDay
<1> QED BY <1>0, <1>10

\* Every behaviour of the gate is one the promise allows: refusals have a cause
\* in the organisation's ledger, charges follow admissions, at most once each.
THEOREM GateKeepsPromise ==
  ASSUME OwnKeys
  PROVE  Spec => KeepsPromise
<1> DEFINE PInv == TypeOK /\ Answered /\ OwnRows
<1>1. Init => Promise!Init
  BY DEF Init, Promise!Init, Verdict
<1>2. Init => PInv
  BY TypeInit DEF Init, Answered, OwnRows, RowsInHand, NoOutcome
<1>3. PInv /\ [Next]_vars => PInv'
  BY TypeStep, AnsweredStep, OwnRowsStep
<1>4. PInv /\ CheckedSpendIsReal /\ [Next]_vars => [Promise!Next]_(Promise!vars)
  BY PromiseStep
<1>5. Spec => []CheckedSpendIsReal
  BY OwnKeys, RefusalsHaveACause
<1> HIDE DEF PInv
<1> QED BY <1>1, <1>2, <1>3, <1>4, <1>5, PTL DEF Spec, KeepsPromise, Promise!Spec

-----------------------------------------------------------------------------
(* What a handler or the cache holds is the sum of the log, or the history says
   why it is not. *)

Now(b) == spent[b][CurrentPeriod(b)]

\* A handler holds a row or its sum only while it checks one.
InHand ==
  \A r \in Requests : missed[r] # {} \/ fetched[r] # {} => Checking(r)

\* A sum a handler has read or compared is the budget's, or has been outrun.
SumsExplained ==
  \A r \in Requests : \A c \in fetched[r] \cup checked[r] :
    <<r, c.row.budget>> \in outrun \/ c.spend = Now(c.row.budget)

\* The inductive invariant: an entry is explained only if the sum it was stored
\* from is.
ExplainedInv == InHand /\ SumsExplained /\ StaleIsExplained

\* A row in hand is put down before the check goes on.
LEMMA InHandStep ==
  ASSUME TypeOK, InHand, [Next]_vars
  PROVE  InHand'
<1>1. ASSUME NEW r \in Requests, Handle(r) PROVE InHand'
  <2>1. CASE CacheHit(r)
    BY <2>1 DEF TypeOK, InHand, CacheHit, Record, BetweenRows, Checking
  <2>2. CASE CacheMiss(r)
    BY <2>2 DEF TypeOK, InHand, CacheMiss, BetweenRows, Checking
  <2>3. CASE ReadSpend(r)
    BY <2>3 DEF TypeOK, InHand, ReadSpend, Checking
  <2>4. CASE CacheSpend(r)
    BY <2>4 DEF TypeOK, InHand, CacheSpend, Record, Checking
  <2>5. CASE Decide(r)
    BY <2>5 DEF TypeOK, InHand, Decide, BetweenRows, Checking
  <2>6. CASE Answer(r) \/ LogTransaction(r)
    BY <2>6 DEF TypeOK, InHand, Answer, LogTransaction, Checking
  <2>7. CASE Invalidate(r)
    BY <2>7 DEF TypeOK, InHand, Invalidate, BeginCheck, Checking
  <2>8. CASE Finish(r)
    BY <2>8 DEF TypeOK, InHand, Finish, Leave, Checking
  <2> QED BY <1>1, <2>1, <2>2, <2>3, <2>4, <2>5, <2>6, <2>7, <2>8 DEF Handle
<1>2. ASSUME NEW r \in Requests, Arrive(r) PROVE InHand'
  BY <1>2 DEF TypeOK, InHand, Arrive, BeginCheck, Checking
<1>3. ASSUME NEW r \in Requests, ArriveBlocked(r) PROVE InHand'
  BY <1>3 DEF TypeOK, InHand, ArriveBlocked, Checking
<1>4. ASSUME NEW r \in Requests, Die(r) PROVE InHand'
  BY <1>4 DEF TypeOK, InHand, Die, Leave, Checking
<1>5. ASSUME UNCHANGED <<phase, missed, fetched>> PROVE InHand'
  BY <1>5 DEF InHand, Checking
<1> QED BY <1>1, <1>2, <1>3, <1>4, <1>5
      DEF vars, history, Next, Serve, Edit, SetBudget, DeleteBudget, Expire, NextDay

\* A DELETE that is still to come stays so until its own handler moves.
LEMMA AwaitedStays ==
  ASSUME NEW r \in Requests, NEW k, Awaited(k),
         ~(phase[r] = "invalidate" /\ k \in Invalidated(r)),
         \A q \in Requests : q # r => phase'[q] = phase[q] /\ outcome'[q] = outcome[q]
  PROVE  Awaited(k)'
<1>1. PICK q \in Requests : phase[q] = "invalidate" /\ k \in Invalidated(q)
  BY DEF Awaited
<1>2. q # r
  BY <1>1
<1>3. phase'[q] = "invalidate" /\ k \in Invalidated(q)'
  BY <1>1, <1>2 DEF Invalidated, RowScopes
<1> QED BY <1>3 DEF Awaited

\* What a log row is charged to is charged in the current period, and the key
\* of such a budget is among those to be deleted.
LEMMA ChargedNow ==
  ASSUME TypeOK, NEW r \in Requests, NEW b \in Budgets
  PROVE  /\ \A d \in Days : d # CurrentPeriod(b) => Charged(r)[b][d] = spent[b][d]
         /\ ~Charges(r, b) => Charged(r)[b] = spent[b]
         /\ Charges(r, b) =>
              Charged(r)[b][CurrentPeriod(b)] = spent[b][CurrentPeriod(b)] + outcome[r].cost
         /\ Charges(r, b) => Key(b) \in Invalidated(r)
<1>1. spent[b] \in [Days -> Nat] /\ CurrentPeriod(b) \in Days
  BY CurrentPeriodType DEF TypeOK
<1>2. BudgetKind[b] \in Kinds
  BY BudgetAssumption
<1>3. Charges(r, b) => Key(b) \in Invalidated(r)
  BY <1>2 DEF Charges, Applies, Key, Invalidated
<1> QED BY <1>1, <1>3 DEF Charged

\* Midnight outruns the sums of the periods it ends and of no others.
LEMMA MidnightKeeps ==
  ASSUME TypeOK, NextDay, NEW b \in Budgets,
         PeriodStart[BudgetKind[b]][day + 1] = CurrentPeriod(b)
  PROVE  Now(b)' = Now(b)
BY DEF NextDay, Now, CurrentPeriod

\* A sum is compared or outrun, never silently out of date.
LEMMA SumsExplainedStep ==
  ASSUME CacheInv, ExplainedInv, [Next]_vars
  PROVE  SumsExplained'
<1>. USE DEF ExplainedInv
<1>0. TypeOK
  BY DEF CacheInv
<1>1. SUFFICES ASSUME NEW q \in Requests, NEW c \in (fetched[q] \cup checked[q])'
               PROVE  <<q, c.row.budget>> \in outrun' \/ c.spend = Now(c.row.budget)'
  BY DEF SumsExplained
<1>2. ASSUME c \in fetched[q] \cup checked[q], outrun \subseteq outrun', UNCHANGED <<day, spent>>
      PROVE  <<q, c.row.budget>> \in outrun' \/ c.spend = Now(c.row.budget)'
  BY <1>2 DEF SumsExplained, Now, CurrentPeriod
<1>3. ASSUME NEW r \in Requests, NEW scopes, BeginCheck(r, scopes), fetched[r] = {},
             UNCHANGED <<day, spent, fetched>>
      PROVE  <<q, c.row.budget>> \in outrun' \/ c.spend = Now(c.row.budget)'
  <2>1. q # r /\ c \in fetched[q] \cup checked[q]
    BY <1>0, <1>3 DEF TypeOK, BeginCheck
  <2> QED BY <1>3, <2>1 DEF SumsExplained, Now, CurrentPeriod, BeginCheck, OfOthers
<1>4. ASSUME NEW r \in Requests, Arrive(r)
      PROVE  <<q, c.row.budget>> \in outrun' \/ c.spend = Now(c.row.budget)'
  <2>1. fetched[r] = {}
    BY <1>4 DEF InHand, Arrive, Checking
  <2> QED BY <1>3, <1>4, <2>1 DEF Arrive
<1>5. ASSUME NEW r \in Requests, Invalidate(r)
      PROVE  <<q, c.row.budget>> \in outrun' \/ c.spend = Now(c.row.budget)'
  <2>1. fetched[r] = {}
    BY <1>5 DEF InHand, Invalidate, Checking
  <2> QED BY <1>3, <1>5, <2>1 DEF Invalidate
<1>6. ASSUME NEW r \in Requests, Leave(r)
      PROVE  <<q, c.row.budget>> \in outrun' \/ c.spend = Now(c.row.budget)'
  <2>1. q # r /\ c \in fetched[q] \cup checked[q]
    BY <1>0, <1>6 DEF TypeOK, Leave
  <2> QED BY <1>6, <2>1 DEF SumsExplained, Now, CurrentPeriod, Leave, OfOthers
<1>7. ASSUME NEW r \in Requests, CacheHit(r)
      PROVE  <<q, c.row.budget>> \in outrun' \/ c.spend = Now(c.row.budget)'
  <2>1. PICK row \in todo[r], e \in cache :
          /\ e.key = Key(row.budget) /\ Record(r, row, e.spend, e.period)
          /\ outrun' = IF Unreliable(e, row.budget) THEN outrun \cup {<<r, row.budget>>}
                                                   ELSE outrun
    BY <1>7 DEF CacheHit
  <2>2. CASE c \in fetched[q] \cup checked[q]
    <3>1. outrun \subseteq outrun' /\ UNCHANGED <<day, spent>>
      BY <1>7, <2>1 DEF CacheHit
    <3> QED BY <1>2, <2>2, <3>1
  <2>3. CASE c \notin fetched[q] \cup checked[q]
    <3>1. q = r /\ c = [row |-> row, spend |-> e.spend, period |-> e.period]
      BY <1>0, <1>7, <2>1, <2>3 DEF TypeOK, Record, CacheHit
    <3>2. CASE Unreliable(e, row.budget)
      BY <2>1, <3>1, <3>2
    <3>3. CASE ~Unreliable(e, row.budget)
      <4>1. e.budget = row.budget /\ e.spend = Now(row.budget)
        BY <3>3 DEF StaleIsExplained, Unreliable, Now
      <4> QED BY <1>7, <3>1, <4>1 DEF CacheHit, Now, CurrentPeriod
    <3> QED BY <3>2, <3>3
  <2> QED BY <2>2, <2>3
<1>8. ASSUME NEW r \in Requests, ReadSpend(r)
      PROVE  <<q, c.row.budget>> \in outrun' \/ c.spend = Now(c.row.budget)'
  <2>1. PICK row \in missed[r] :
          fetched' = [fetched EXCEPT ![r] =
            {[row |-> row, spend |-> spent[row.budget][CurrentPeriod(row.budget)],
              period |-> CurrentPeriod(row.budget)]}]
    BY <1>8 DEF ReadSpend
  <2>2. UNCHANGED <<day, spent, checked, outrun>>
    BY <1>8 DEF ReadSpend, history
  <2>3. CASE c \in fetched[q] \cup checked[q]
    BY <1>2, <2>2, <2>3
  <2>4. CASE c \notin fetched[q] \cup checked[q]
    <3>1. c.row = row /\ c.spend = Now(row.budget)
      BY <1>0, <2>1, <2>2, <2>4 DEF TypeOK, Now
    <3> QED BY <2>2, <3>1 DEF Now, CurrentPeriod
  <2> QED BY <2>3, <2>4
<1>9. ASSUME NEW r \in Requests, CacheSpend(r)
      PROVE  <<q, c.row.budget>> \in outrun' \/ c.spend = Now(c.row.budget)'
  <2>1. PICK f \in fetched[r] : Record(r, f.row, f.spend, f.period)
    BY <1>9 DEF CacheSpend
  <2>2. UNCHANGED <<day, spent, outrun>>
    BY <1>9 DEF CacheSpend
  <2>3. CASE c \in fetched[q] \cup checked[q]
    BY <1>2, <2>2, <2>3
  <2>4. CASE c \notin fetched[q] \cup checked[q]
    <3>1. q = r /\ c.row = f.row /\ c.spend = f.spend
      BY <1>0, <1>9, <2>1, <2>4 DEF TypeOK, Record, CacheSpend
    <3>2. <<r, f.row.budget>> \in outrun \/ f.spend = Now(f.row.budget)
      BY DEF SumsExplained
    <3> QED BY <2>2, <3>1, <3>2 DEF Now, CurrentPeriod
  <2> QED BY <2>3, <2>4
<1>10. ASSUME NEW r \in Requests, LogTransaction(r)
       PROVE  <<q, c.row.budget>> \in outrun' \/ c.spend = Now(c.row.budget)'
  <2>1. c \in fetched[q] \cup checked[q] /\ c.row.budget \in Budgets
    BY <1>0, <1>10, CheckFields DEF LogTransaction, TypeOK
  <2>2. c.row.budget \in Sums(q)
    BY <2>1 DEF Sums
  <2>3. CASE Charges(r, c.row.budget)
    BY <1>10, <2>1, <2>2, <2>3 DEF LogTransaction, Outrun
  <2>4. CASE ~Charges(r, c.row.budget)
    <3>1. spent'[c.row.budget] = spent[c.row.budget]
      BY <1>0, <1>10, <2>1, <2>4, ChargedNow DEF LogTransaction
    <3>2. Now(c.row.budget)' = Now(c.row.budget)
      BY <1>10, <3>1 DEF LogTransaction, Now, CurrentPeriod
    <3> QED BY <1>10, <2>1, <3>2 DEF SumsExplained, LogTransaction, Outrun
  <2> QED BY <2>3, <2>4
<1>11. ASSUME NextDay
       PROVE  <<q, c.row.budget>> \in outrun' \/ c.spend = Now(c.row.budget)'
  <2>1. c \in fetched[q] \cup checked[q] /\ c.row.budget \in Budgets
    BY <1>0, <1>11, CheckFields DEF NextDay, TypeOK
  <2>2. c.row.budget \in Sums(q)
    BY <2>1 DEF Sums
  <2>3. CASE PeriodStart[BudgetKind[c.row.budget]][day + 1] # CurrentPeriod(c.row.budget)
    BY <1>11, <2>1, <2>2, <2>3 DEF NextDay, Outrun
  <2>4. CASE PeriodStart[BudgetKind[c.row.budget]][day + 1] = CurrentPeriod(c.row.budget)
    <3>1. Now(c.row.budget)' = Now(c.row.budget)
      BY <1>0, <1>11, <2>1, <2>4, MidnightKeeps
    <3> QED BY <1>11, <2>1, <3>1 DEF SumsExplained, NextDay, Outrun
  <2> QED BY <2>3, <2>4
<1>12. ASSUME UNCHANGED <<day, spent, fetched, checked, outrun>>
       PROVE  <<q, c.row.budget>> \in outrun' \/ c.spend = Now(c.row.budget)'
  BY <1>2, <1>12
<1> QED BY <1>4, <1>5, <1>6, <1>7, <1>8, <1>9, <1>10, <1>11, <1>12
      DEF vars, history, Next, Serve, Edit, Handle, Finish, Die, ArriveBlocked, CacheMiss,
          Decide, Answer, SetBudget, DeleteBudget, Expire

\* An entry that a step leaves in place stays explained.
LEMMA StaleIsExplainedStep ==
  ASSUME CacheInv, ExplainedInv, [Next]_vars
  PROVE  StaleIsExplained'
<1>. USE DEF ExplainedInv
<1>0. TypeOK
  BY DEF CacheInv
<1>1. SUFFICES ASSUME NEW e \in cache'
               PROVE  \/ e.spend = Now(e.budget)'
                      \/ Awaited(e.key)' \/ e.key \in stale'
  BY DEF StaleIsExplained, Now
<1>. DEFINE Goal == \/ e.spend = Now(e.budget)'
                    \/ Awaited(e.key)' \/ e.key \in stale'
<1>2. e \in cache => \/ e.spend = Now(e.budget)
                     \/ Awaited(e.key) \/ e.key \in stale
  BY DEF StaleIsExplained, Now
<1>3. e \in cache => e.budget \in Budgets /\ e.key = Key(e.budget)
  BY <1>0, EntryFields DEF CacheInv, EntriesSound
<1>4. ASSUME e \in cache, stale \subseteq stale', UNCHANGED <<day, spent>>,
             NEW r \in Requests, phase[r] # "invalidate",
             \A s \in Requests : s # r => phase'[s] = phase[s] /\ outcome'[s] = outcome[s]
      PROVE  Goal
  <2>1. Awaited(e.key) => Awaited(e.key)'
    BY <1>4, AwaitedStays
  <2> QED BY <1>2, <1>4, <2>1 DEF Now, CurrentPeriod
<1>5. ASSUME NEW r \in Requests, Invalidate(r) PROVE Goal
  <2>1. e \in cache /\ UNCHANGED <<day, spent, outcome>>
    BY <1>5 DEF Invalidate
  <2>2. e.key \in Invalidated(r) => e.key \in stale'
    BY <1>5 DEF Invalidate, Undeleted
  <2>3. e.key \in stale => e.key \in stale' \/ e.key \in Invalidated(r)
    BY <1>5 DEF Invalidate, Undeleted
  <2>4. Awaited(e.key) /\ e.key \notin Invalidated(r) => Awaited(e.key)'
    <3>1. \A s \in Requests : s # r => phase'[s] = phase[s] /\ outcome'[s] = outcome[s]
      BY <1>0, <1>5 DEF Invalidate, TypeOK
    <3> QED BY <3>1, AwaitedStays
  <2> QED BY <1>2, <2>1, <2>2, <2>3, <2>4 DEF Now, CurrentPeriod
<1>6. ASSUME NEW r \in Requests, Leave(r) PROVE Goal
  <2>1. /\ e \in cache /\ UNCHANGED <<day, spent>> /\ stale \subseteq stale'
        /\ \A s \in Requests : s # r => phase'[s] = phase[s] /\ outcome'[s] = outcome[s]
    BY <1>0, <1>6 DEF Leave, Undeleted, TypeOK
  <2>2. phase[r] = "invalidate" /\ e.key \in Invalidated(r) => e.key \in stale'
    BY <1>6, <2>1 DEF Leave, Undeleted
  <2>3. Awaited(e.key) /\ ~(phase[r] = "invalidate" /\ e.key \in Invalidated(r)) => Awaited(e.key)'
    BY <2>1, AwaitedStays
  <2> QED BY <1>2, <2>1, <2>2, <2>3 DEF Now, CurrentPeriod
<1>7. ASSUME NEW r \in Requests, CacheSpend(r) PROVE Goal
  <2>1. PICK c \in fetched[r] :
          \/ cache' = Put(c) /\ stale' = Stored(r, c.row.budget)
          \/ UNCHANGED <<cache, stale>>
    BY <1>7 DEF CacheSpend
  <2>2. UNCHANGED <<day, spent, phase, outcome>>
    BY <1>7 DEF CacheSpend
  <2>3. Awaited(e.key)' = Awaited(e.key)
    BY <2>2 DEF Awaited, Invalidated, RowScopes
  <2>4. CASE UNCHANGED <<cache, stale>>
    BY <1>2, <2>2, <2>3, <2>4 DEF Now, CurrentPeriod
  <2>5. CASE cache' = Put(c) /\ stale' = Stored(r, c.row.budget)
    <3>1. CASE e.key = Key(c.row.budget)
      <4>1. e.budget = c.row.budget /\ e.spend = c.spend
        BY <2>5, <3>1 DEF Put
      <4>2. CASE <<r, c.row.budget>> \in outrun
        BY <2>5, <3>1, <4>2 DEF Stored
      <4>3. CASE <<r, c.row.budget>> \notin outrun
        <5>1. c.spend = Now(c.row.budget)
          BY <4>3 DEF SumsExplained
        <5> QED BY <2>2, <4>1, <5>1 DEF Now, CurrentPeriod
      <4> QED BY <4>2, <4>3
    <3>2. CASE e.key # Key(c.row.budget)
      <4>1. e \in cache
        BY <2>5, <3>2 DEF Put
      <4>2. e.key \in stale => e.key \in stale'
        BY <2>5, <3>2 DEF Stored
      <4> QED BY <1>2, <2>2, <2>3, <4>1, <4>2 DEF Now, CurrentPeriod
    <3> QED BY <3>1, <3>2
  <2> QED BY <2>1, <2>4, <2>5
<1>8. ASSUME NEW r \in Requests, LogTransaction(r) PROVE Goal
  <2>1. /\ e \in cache /\ UNCHANGED <<day, outcome, stale>> /\ phase[r] = "log"
        /\ spent' = Charged(r) /\ phase'[r] = "invalidate"
    BY <1>0, <1>8 DEF LogTransaction, TypeOK
  <2>2. CASE Charges(r, e.budget)
    <3>1. e.key \in Invalidated(r)
      BY <1>0, <1>3, <2>1, <2>2, ChargedNow
    <3>2. e.key \in Invalidated(r)'
      BY <2>1, <3>1 DEF Invalidated, RowScopes
    <3> QED BY <2>1, <3>2 DEF Awaited
  <2>3. CASE ~Charges(r, e.budget)
    <3>1. Now(e.budget)' = Now(e.budget)
      BY <1>0, <1>3, <2>1, <2>3, ChargedNow DEF Now, CurrentPeriod
    <3>2. Awaited(e.key) => Awaited(e.key)'
      <4>1. \A s \in Requests : s # r => phase'[s] = phase[s] /\ outcome'[s] = outcome[s]
        BY <1>0, <1>8 DEF LogTransaction, TypeOK
      <4> QED BY <2>1, <4>1, AwaitedStays
    <3> QED BY <1>2, <2>1, <3>1, <3>2
  <2> QED BY <2>2, <2>3
<1>9. ASSUME NEW k \in Keys, Expire(k) PROVE Goal
  <2>1. e \in cache /\ e.key # k /\ UNCHANGED <<day, spent, phase, outcome>> /\ stale' = stale \ {k}
    BY <1>9 DEF Expire
  <2> QED BY <1>2, <2>1 DEF Now, CurrentPeriod, Awaited, Invalidated, RowScopes
<1>10. ASSUME NextDay PROVE Goal
  <2>1. e \in cache /\ UNCHANGED <<spent, phase, outcome>> /\ stale \subseteq stale'
    BY <1>10 DEF NextDay
  <2>2. CASE PeriodStart[BudgetKind[e.budget]][day + 1] # CurrentPeriod(e.budget)
    BY <1>3, <1>10, <2>1, <2>2 DEF NextDay
  <2>3. CASE PeriodStart[BudgetKind[e.budget]][day + 1] = CurrentPeriod(e.budget)
    <3>1. Now(e.budget)' = Now(e.budget)
      BY <1>0, <1>3, <1>10, <2>1, <2>3, MidnightKeeps
    <3> QED BY <1>2, <2>1, <3>1 DEF Awaited, Invalidated, RowScopes
  <2> QED BY <2>2, <2>3
<1>11. ASSUME UNCHANGED <<day, spent, cache, phase, outcome, stale>> PROVE Goal
  BY <1>2, <1>11 DEF Now, CurrentPeriod, Awaited, Invalidated, RowScopes
<1>12. ASSUME NEW r \in Requests,
              Arrive(r) \/ ArriveBlocked(r) \/ Decide(r) \/ Answer(r)
       PROVE  Goal
  <2>1. /\ UNCHANGED <<day, spent, cache, stale>> /\ phase[r] # "invalidate"
        /\ \A s \in Requests : s # r => phase'[s] = phase[s] /\ outcome'[s] = outcome[s]
    BY <1>0, <1>12 DEF TypeOK, history, Arrive, ArriveBlocked, Decide, Answer
  <2> QED BY <1>4, <2>1
<1>. HIDE DEF Goal
<1>13. Goal
  BY <1>5, <1>6, <1>7, <1>8, <1>9, <1>10, <1>11, <1>12
     DEF vars, history, Next, Serve, Edit, Handle, Finish, Die, CacheHit, CacheMiss,
         ReadSpend, SetBudget, DeleteBudget
<1> QED BY <1>13 DEF Goal

\* What is read, compared and cached is explained, in every behaviour.
LEMMA ExplainedInvariant == Spec => []ExplainedInv
<1>1. Init => ExplainedInv
  BY DEF Init, ExplainedInv, InHand, SumsExplained, StaleIsExplained
<1>2. CacheInv /\ ExplainedInv /\ [Next]_vars => ExplainedInv'
  BY InHandStep, SumsExplainedStep, StaleIsExplainedStep DEF ExplainedInv, CacheInv
<1> QED BY <1>1, <1>2, CacheInvariant, PTL DEF Spec

\* Whatever interleaves, fails, dies, expires or is edited: a live entry is the
\* sum over requests_log of the current period, unless a DELETE is on its way or
\* was lost, or a sum outrun by a commit was stored, or its period is over.
THEOREM StaleEntriesAreExplained == Spec => []StaleIsExplained
BY ExplainedInvariant, PTL DEF ExplainedInv

-----------------------------------------------------------------------------
(* What the gate lets through. *)

\* The rows the gate has to look at, and the hard ones among them once it lets a
\* request pass.
Covered ==
  \A r \in Requests : \A row \in table :
    Applies(row.budget, r, GateScopes(r)) /\ <<r, row.budget>> \notin edited =>
      /\ phase[r] = "gate" => row \in todo[r] \/ \E c \in checked[r] : c.row = row
      /\ row.hard /\ (phase[r] = "call" \/ (phase[r] = "log" /\ outcome[r].attributed)) =>
           Passed(r, row)

\* Every row that applies is looked at before the request passes.
LEMMA CoveredStep ==
  ASSUME TypeOK, Answered, Covered, [Next]_vars
  PROVE  Covered'
<1>1. ASSUME NEW r \in Requests, CacheHit(r) \/ CacheSpend(r) PROVE Covered'
  <2>0. PICK row \in Row : \E spend, period : Record(r, row, spend, period)
    BY <1>1 DEF CacheHit, CacheSpend, TypeOK, Check
  <2>1. PICK spend, period : Record(r, row, spend, period)
    BY <2>0
  <2>2. /\ todo' = [todo EXCEPT ![r] = @ \ {row}]
        /\ checked' = [checked EXCEPT ![r] =
                         @ \cup {[row |-> row, spend |-> spend, period |-> period]}]
    BY <2>1 DEF Record
  <2>3. PICK c : c = [row |-> row, spend |-> spend, period |-> period]
    OBVIOUS
  <2>4. c.row = row
    BY <2>3
  <2>5. /\ checked'[r] = checked[r] \cup {c} /\ todo'[r] = todo[r] \ {row}
        /\ \A s \in Requests : s # r => checked'[s] = checked[s] /\ todo'[s] = todo[s]
    BY <2>2, <2>3 DEF TypeOK
  <2>6. UNCHANGED <<table, phase, outcome, edited>>
    BY <1>1 DEF CacheHit, CacheSpend
  <2> QED BY <2>4, <2>5, <2>6 DEF Covered, Passed
<1>2. ASSUME NEW r \in Requests, Arrive(r) PROVE Covered'
  <2>1. /\ phase'[r] = "gate" /\ UNCHANGED <<table, outcome>>
        /\ todo'[r] = {row \in table : Applies(row.budget, r, GateScopes(r))}
    BY <1>2 DEF Arrive, BeginCheck, TypeOK
  <2>2. \A s \in Requests : s # r =>
          /\ phase'[s] = phase[s] /\ todo'[s] = todo[s] /\ checked'[s] = checked[s]
          /\ \A b : <<s, b>> \in edited => <<s, b>> \in edited'
    BY <1>2 DEF Arrive, BeginCheck, OfOthers, TypeOK
  <2> QED BY <2>1, <2>2 DEF Covered, Passed
<1>3. ASSUME NEW r \in Requests, ArriveBlocked(r) PROVE Covered'
  <2>1. /\ phase[r] = "new" /\ phase'[r] = "log" /\ ~outcome[r].attributed
        /\ UNCHANGED <<table, todo, checked, outcome, edited>>
        /\ \A s \in Requests : s # r => phase'[s] = phase[s]
    BY <1>3 DEF ArriveBlocked, history, TypeOK, Answered
  <2> QED BY <2>1 DEF Covered, Passed
<1>4. ASSUME NEW r \in Requests, Decide(r) PROVE Covered'
  <2>1. /\ \A s \in Requests : s # r => phase'[s] = phase[s]
        /\ UNCHANGED <<table, todo, checked, outcome, edited>>
        /\ todo[r] = {} /\ phase[r] = "gate"
        /\ ~outcome[r].attributed /\ phase'[r] \in {"log", "call"}
    BY <1>4 DEF Decide, history, TypeOK, Answered
  <2>2. phase'[r] = "call" => \A c \in checked[r] : ~Blocks(c)
    BY <1>4 DEF Decide, TypeOK
  <2>3. \A c \in checked[r] : ~Blocks(c) /\ c.row.hard => c.spend < c.row.limit
    <3>1. \A c \in checked[r] : c.spend \in Nat /\ c.row \in Row
      BY CheckFields DEF TypeOK
    <3>2. \A row \in Row : row.limit \in Nat
      BY BudgetAssumption DEF Row
    <3> QED BY <3>1, <3>2 DEF Blocks, HardBlocked
  <2>4. \A row \in table :
          Applies(row.budget, r, GateScopes(r)) /\ <<r, row.budget>> \notin edited =>
            \E c \in checked[r] : c.row = row
    BY <2>1 DEF Covered
  <2>5. \A row \in table :
          /\ Applies(row.budget, r, GateScopes(r)) /\ <<r, row.budget>> \notin edited
          /\ row.hard /\ phase'[r] = "call"
          => \E c \in checked[r] : c.row = row /\ c.spend < row.limit
    BY <2>2, <2>3, <2>4
  <2> QED BY <2>1, <2>5 DEF Covered, Passed
<1>5. ASSUME NEW r \in Requests, Answer(r) PROVE Covered'
  <2>1. /\ phase[r] = "call" /\ phase'[r] = "log" /\ UNCHANGED <<table, todo, checked, edited>>
        /\ \A s \in Requests : s # r => phase'[s] = phase[s] /\ outcome'[s] = outcome[s]
    BY <1>5 DEF Answer, history, TypeOK
  <2> QED BY <2>1 DEF Covered, Passed
<1>6. ASSUME NEW r \in Requests, phase'[r] \notin {"gate", "call", "log"}, table' = table,
             \A s \in Requests : s # r =>
               /\ phase'[s] = phase[s] /\ outcome'[s] = outcome[s]
               /\ todo'[s] = todo[s] /\ checked'[s] = checked[s]
               /\ \A b : <<s, b>> \in edited => <<s, b>> \in edited'
      PROVE  Covered'
  BY <1>6 DEF Covered, Passed
<1>7. ASSUME NEW r \in Requests, LogTransaction(r) PROVE Covered'
  <2>1. /\ phase'[r] = "invalidate" /\ UNCHANGED <<table, todo, checked, outcome, edited>>
        /\ \A s \in Requests : s # r => phase'[s] = phase[s]
    BY <1>7 DEF LogTransaction, TypeOK
  <2> QED BY <1>6, <2>1
<1>8. ASSUME NEW r \in Requests, Leave(r) PROVE Covered'
  <2>1. /\ phase'[r] = "done" /\ table' = table
        /\ \A s \in Requests : s # r =>
             /\ phase'[s] = phase[s] /\ outcome'[s] = outcome[s]
             /\ todo'[s] = todo[s] /\ checked'[s] = checked[s]
             /\ \A b : <<s, b>> \in edited => <<s, b>> \in edited'
    BY <1>8 DEF Leave, OfOthers, TypeOK
  <2> QED BY <1>6, <2>1
<1>9. ASSUME NEW r \in Requests, Invalidate(r) PROVE Covered'
  <2>1. /\ phase'[r] = "recheck" /\ table' = table
        /\ \A s \in Requests : s # r =>
             /\ phase'[s] = phase[s] /\ outcome'[s] = outcome[s]
             /\ todo'[s] = todo[s] /\ checked'[s] = checked[s]
             /\ \A b : <<s, b>> \in edited => <<s, b>> \in edited'
    BY <1>9 DEF Invalidate, BeginCheck, OfOthers, TypeOK
  <2> QED BY <1>6, <2>1
<1>10. ASSUME NEW b \in AdminBudgets, SetBudget(b) PROVE Covered'
  <2>1. /\ UNCHANGED <<phase, todo, checked, outcome>>
        /\ edited' = edited \cup (Underway \X {b})
        /\ \A row \in table' : row \in table \/ row.budget = b
    BY <1>10 DEF SetBudget
  <2>2. \A r \in Requests : phase[r] \in {"gate", "call", "log"} => <<r, b>> \in edited'
    BY <2>1 DEF Underway
  <2>3. edited \subseteq edited'
    BY <2>1
  <2> QED BY <2>1, <2>2, <2>3 DEF Covered, Passed
<1>11. ASSUME NEW b \in AdminBudgets, DeleteBudget(b) PROVE Covered'
  <2>1. UNCHANGED <<phase, todo, checked, outcome, edited>> /\ table' \subseteq table
    BY <1>11 DEF DeleteBudget, history
  <2> QED BY <2>1 DEF Covered, Passed
<1>12. ASSUME UNCHANGED <<table, phase, todo, checked, outcome, edited>> PROVE Covered'
  BY <1>12 DEF Covered, Passed
<1> QED BY <1>1, <1>2, <1>3, <1>4, <1>5, <1>7, <1>8, <1>9, <1>10, <1>11, <1>12
      DEF vars, history, Next, Serve, Edit, Handle, Finish, Die, CacheMiss, ReadSpend,
          Expire, NextDay

\* What the gate has looked at, in every behaviour.
LEMMA CoveredInvariant == Spec => [](TypeOK /\ Answered /\ Covered)
<1>1. Init => TypeOK /\ Answered /\ Covered
  BY TypeInit DEF Init, Answered, Covered, NoOutcome
<1>2. TypeOK /\ Answered /\ Covered /\ [Next]_vars => (TypeOK /\ Answered /\ Covered)'
  BY TypeStep, AnsweredStep, CoveredStep
<1> QED BY <1>1, <1>2, PTL DEF Spec

\* What a row is charged to was in the gate's scope, or is the body's user.
LEMMA ChargedWasSeen ==
  ASSUME NEW r \in Requests, NEW b, outcome[r].attributed, Applies(b, r, RowScopes(r))
  PROVE  Applies(b, r, GateScopes(r)) \/ ByBodyOnly(r, b)
BY DEF Applies, RowScopes, GateScopes, ByBodyOnly

\* However requests race, budgets are edited, Redis fails and handlers die:
\* check_budget has passed every hard budget that log_proxy_transaction charges,
\* but rows set after its select and the budgets of a user only the body names.
THEOREM AdmittedIsChecked == Spec => []AdmittedWasChecked
<1>1. Covered => AdmittedWasChecked
  BY ChargedWasSeen DEF Covered, AdmittedWasChecked
<1> QED BY <1>1, CoveredInvariant, PTL

\* A request whose check nothing outran is charged on top of a sum below the limit.
LEMMA OverrunStep ==
  ASSUME Costs # {}, TypeOK, Answered, Covered, SumsExplained, OverrunByOneCall, [Next]_vars
  PROVE  OverrunByOneCall'
<1>1. ASSUME NEW r \in Requests, LogTransaction(r), NEW row \in table, row.hard,
             row.budget \notin loose', NEW d \in Days
      PROVE  \E c \in Costs : spent'[row.budget][d] < row.limit + c
  <2>. DEFINE b == row.budget
  <2>1. b \in Budgets /\ row.limit \in Nat \ {0}
    BY BudgetAssumption DEF TypeOK, Row
  <2>2. spent' = Charged(r) /\ phase[r] = "log" /\ b \notin loose
    BY <1>1 DEF LogTransaction
  <2>3. \E c \in Costs : spent[b][d] < row.limit + c
    BY <1>1, <2>2 DEF OverrunByOneCall
  <2>4. CASE spent'[b][d] = spent[b][d]
    BY <2>3, <2>4
  <2>5. CASE spent'[b][d] # spent[b][d]
    <3>1. /\ d = CurrentPeriod(b) /\ Charges(r, b)
          /\ spent'[b][d] = spent[b][d] + outcome[r].cost
      BY <2>1, <2>2, <2>5, ChargedNow
    <3>2. Applies(b, r, GateScopes(r)) /\ <<r, b>> \notin outrun /\ <<r, b>> \notin edited
      BY <1>1, <2>1, <3>1 DEF LogTransaction, Unchecked
    <3>3. outcome[r].attributed
      BY <3>1 DEF Answered, Charges
    <3>4. PICK c \in checked[r] : c.row = row /\ c.spend < row.limit
      BY <1>1, <2>2, <3>2, <3>3 DEF Covered, Passed
    <3>5. c.spend = spent[b][d]
      BY <3>1, <3>2, <3>4 DEF SumsExplained, Now
    <3>6. spent[b][d] \in Nat /\ spent[b][d] < row.limit
      BY <2>1, <3>4, <3>5 DEF TypeOK
    <3>7. outcome[r].cost \in Costs \cup {0}
      BY DEF TypeOK, Outcome
    <3>8. outcome[r].cost # 0
      BY <2>5, <3>1, <3>6
    <3>9. outcome[r].cost \in Costs /\ outcome[r].cost \in Nat
      BY <3>7, <3>8, CostAssumption
    <3>10. spent'[b][d] < row.limit + outcome[r].cost
      BY <2>1, <3>1, <3>6, <3>9
    <3> QED BY <3>9, <3>10
  <2> QED BY <2>4, <2>5
<1>2. ASSUME NEW r \in Requests, LogTransaction(r) PROVE OverrunByOneCall'
  <2>1. table' = table
    BY <1>2 DEF LogTransaction
  <2> QED BY <1>1, <1>2, <2>1 DEF OverrunByOneCall
<1>3. ASSUME NEW b \in AdminBudgets, SetBudget(b) PROVE OverrunByOneCall'
  <2>1. PICK limit \in Limits, hard \in BOOLEAN :
          /\ table' = {row \in table : row.budget # b}
                        \cup {[budget |-> b, limit |-> limit, hard |-> hard]}
          /\ loose' = IF hard /\ \E d \in Days : spent[b][d] >= limit
                       THEN loose \cup {b} ELSE loose
    BY <1>3 DEF SetBudget
  <2>2. spent' = spent /\ loose \subseteq loose'
    BY <1>3, <2>1 DEF SetBudget
  <2>3. ASSUME NEW row \in table', row.hard, row.budget \notin loose', NEW d \in Days
        PROVE  \E c \in Costs : spent[row.budget][d] < row.limit + c
    <3>1. CASE row \in table
      BY <2>2, <2>3, <3>1 DEF OverrunByOneCall
    <3>2. CASE row \notin table
      <4>1. row.budget = b /\ row.limit = limit /\ hard
        BY <2>1, <2>3, <3>2
      <4>2. ~(spent[b][d] >= limit)
        BY <2>1, <2>3, <4>1
      <4>3. PICK c \in Costs : c \in Nat
        BY Costs # {}, CostAssumption
      <4>4. spent[b][d] \in Nat /\ limit \in Nat
        BY BudgetAssumption DEF TypeOK
      <4>5. spent[b][d] < limit + c
        BY <4>2, <4>3, <4>4
      <4> QED BY <4>1, <4>5
    <3> QED BY <3>1, <3>2
  <2> QED BY <2>2, <2>3 DEF OverrunByOneCall
<1>4. ASSUME table' \subseteq table, spent' = spent, loose' = loose PROVE OverrunByOneCall'
  BY <1>4 DEF OverrunByOneCall
<1>5. ASSUME NEW b \in AdminBudgets, DeleteBudget(b) PROVE OverrunByOneCall'
  BY <1>4, <1>5 DEF DeleteBudget, history
<1>6. ASSUME UNCHANGED <<table, spent, loose>> PROVE OverrunByOneCall'
  BY <1>4, <1>6
<1> QED BY <1>2, <1>3, <1>5, <1>6
      DEF vars, history, Next, Serve, Edit, Arrive, ArriveBlocked, Handle, CacheHit, CacheMiss,
          ReadSpend, CacheSpend, Decide, Answer, Invalidate, Finish, Die, Leave, Expire, NextDay

\* With any number of requests in flight, Redis and handlers failing, midnights
\* and edits, and two organisations on one key: a hard budget overrun by the cost
\* of a whole call was charged by a request whose check was outrun or skipped, or
\* cut below what it had spent.
THEOREM OverrunIsOneCall ==
  ASSUME Costs # {}
  PROVE  Spec => []OverrunByOneCall
<1>1. Init => OverrunByOneCall
  <2>. SUFFICES ASSUME Init PROVE OverrunByOneCall
    OBVIOUS
  <2>1. PICK c \in Costs : c \in Nat
    BY Costs # {}, CostAssumption
  <2>2. \A row \in table : row.limit \in Nat \ {0} /\ row.budget \in Budgets
    BY BudgetAssumption DEF Init, Row
  <2>3. \A row \in table, d \in Days : spent[row.budget][d] = 0
    BY <2>2 DEF Init
  <2>4. \A row \in table, d \in Days : spent[row.budget][d] < row.limit + c
    BY <2>1, <2>2, <2>3
  <2> QED BY <2>4 DEF OverrunByOneCall
<1>2. /\ ExplainedInv /\ TypeOK /\ Answered /\ Covered
      /\ OverrunByOneCall /\ [Next]_vars
      => OverrunByOneCall'
  BY Costs # {}, OverrunStep DEF ExplainedInv
<1> QED BY <1>1, <1>2, ExplainedInvariant, CoveredInvariant, PTL DEF Spec
=============================================================================
