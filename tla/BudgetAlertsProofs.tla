------------------------- MODULE BudgetAlertsProofs -------------------------
(***************************************************************************)
(* BudgetAlerts' invariants, for every set of dispatches and budgets, every *)
(* limit and percentage, and however many dispatches run at the same time.  *)
(***************************************************************************)
EXTENDS BudgetAlerts, FiniteSetTheorems, TLAPS

Writes(t) == sent[t] \cup pending[t]

Typed ==
  /\ table \in SUBSET [budget : Budgets, hard : BOOLEAN]
  /\ alerts \in SUBSET Alert
  /\ phase \in [Tasks -> {"new", "running", "committed", "failed", "orphaned",
                         "aborted"}]
  /\ left \in [Tasks -> SUBSET Warning]
  /\ pending \in [Tasks -> SUBSET Write]
  /\ sent \in [Tasks -> SUBSET Write]
  /\ warned \in [Tasks -> SUBSET Warning]
  /\ met \in SUBSET SUBSET Tasks

OneRowEach == \A r, s \in table : r.budget = s.budget => r = s

HasRow(b) == \E row \in table : row.budget = b

\* A row the session has inserted and not committed keeps its budget there.
InsertsAreHeld ==
  \A t \in Tasks : \A m \in sent[t] : m.found = {} => HasRow(m.warning.budget)

\* A warning of a running dispatch waits for its turn, or is about to be
\* inserted, or has an alert for as long as its budget is there.
WarningsAreKept ==
  \A t \in Tasks : phase[t] = "running" =>
    \A w \in warned[t] :
      \/ w \in left[t] \/ Gone(w)
      \/ \E m \in Writes(t) : m.warning = w /\ (m.found = {} \/ HasAlert(w))

AlertInv ==
  /\ Typed /\ OneRowEach /\ NoOrphanAlert /\ InsertsAreHeld
  /\ WarningsAreKept /\ CommittedIsAlerted

\* What is left and what is written are warnings of the dispatch.
WrittenWereWarned ==
  \A t \in Tasks :
    /\ left[t] \subseteq warned[t]
    /\ \A m \in Writes(t) : m.warning \in warned[t] \ left[t]

\* Only a running dispatch has anything to write.
OnlyRunningWrites == \A t \in Tasks : phase[t] # "running" => Writes(t) = {}

\* A check warns once of a budget.
WarnedOnce ==
  \A t \in Tasks : \A v, w \in warned[t] : v.budget = w.budget => v = w

\* The loop writes once for a warning.
WrittenOnce ==
  \A t \in Tasks : \A m, n \in Writes(t) : m.warning = n.warning => m = n

\* Dispatches that run together have met ...
RunsMet ==
  \A t, u \in Tasks : phase[t] = "running" /\ phase[u] = "running" /\ t # u => {t, u} \in met

\* ... and it takes two to meet.
MeetsAnother == \A t : {t} \notin met

\* What a dispatch is about to insert only one it met has inserted.
InsertsAreNew ==
  \A t \in Tasks : phase[t] = "running" =>
    \A m \in Writes(t) : m.found = {} =>
      \A a \in Unresolved(m.warning) : {t, a.id[1]} \in met

\* What a dispatch found is there for as long as its budget is.
FoundAreThere ==
  \A t \in Tasks : \A m \in Writes(t) : \A f \in m.found :
    \/ Gone(m.warning)
    \/ \E a \in alerts : a.id = f.id /\ a.budget = m.warning.budget

MetInv ==
  /\ WrittenWereWarned /\ OnlyRunningWrites /\ WarnedOnce /\ WrittenOnce
  /\ RunsMet /\ MeetsAnother /\ InsertsAreNew /\ FoundAreThere
  /\ OneUnresolvedAlert /\ FailureIsExplained
-----------------------------------------------------------------------------
\* The warnings of a check are warnings, one for each budget.
LEMMA WarningsTyped ==
  ASSUME Typed, OneRowEach, NEW spend \in [Budgets -> Spends]
  PROVE  /\ WarningsFor(spend) \in SUBSET Warning
         /\ \A v, w \in WarningsFor(spend) : v.budget = w.budget => v = w
<1>1. SUFFICES ASSUME NEW w \in WarningsFor(spend)
               PROVE  \E row \in table :
                        /\ w = [budget |-> row.budget, type |-> AlertType(row),
                                usage |-> spend[row.budget]]
                        /\ w \in Warning
  BY DEF OneRowEach
<1>2. PICK row \in table :
        w = [budget |-> row.budget, type |-> AlertType(row), usage |-> spend[row.budget]]
  BY DEF WarningsFor
<1>3. row.budget \in Budgets
  BY DEF Typed
<1>4. AlertType(row) \in AlertTypes /\ spend[row.budget] \in Spends
  BY <1>3 DEF AlertType, AlertTypes
<1>. QED
  BY <1>2, <1>3, <1>4 DEF Warning

\* An alert once raised stays as long as its budget does.
LEMMA AlertStays ==
  ASSUME \A a \in alerts : HasRow(a.budget)' =>
           \E b \in alerts' : b.budget = a.budget /\ b.type = a.type,
         \A b : HasRow(b)' => HasRow(b),
         NEW w, Gone(w) \/ HasAlert(w)
  PROVE  Gone(w)' \/ HasAlert(w)'
BY DEF HasAlert, HasRow, Gone

\* Two alerts of a warning are there until its budget goes.
LEMMA TwoStay ==
  ASSUME NEW F, \A a \in alerts : HasRow(a.budget)' => F[a] \in alerts',
         \A a \in alerts : F[a].budget = a.budget /\ F[a].type = a.type /\ F[a].id = a.id,
         NEW w, HasTwo(w), OneUnresolvedAlert, MeetsAnother
  PROVE  HasTwo(w)' \/ Gone(w)'
<1>1. SUFFICES ASSUME HasRow(w.budget)'  PROVE HasTwo(w)'
  BY DEF HasRow, Gone
<1>2. PICK a \in Unresolved(w), b \in Unresolved(w) : a # b
  BY DEF HasTwo
<1>3. {a.id[1], b.id[1]} \in met \cup {{"earlier", "doubled"}}
  BY <1>2 DEF Unresolved, OneUnresolvedAlert
<1>4. a.id[1] # b.id[1]
  <2>1. SUFFICES ASSUME a.id[1] = b.id[1]  PROVE FALSE
    OBVIOUS
  <2>2. {a.id[1]} \in met \cup {{"earlier", "doubled"}}
    <3>1. {a.id[1], b.id[1]} = {a.id[1]}
      BY <2>1
    <3>. QED
      BY <1>3, <3>1
  <2>3. {a.id[1]} # {"earlier", "doubled"}
    OBVIOUS
  <2>. QED
    BY <2>2, <2>3 DEF MeetsAnother
<1>5. F[a] \in Unresolved(w)' /\ F[b] \in Unresolved(w)'
  BY <1>1, <1>2 DEF Unresolved
<1>6. F[a] # F[b]
  BY <1>2, <1>4 DEF Unresolved
<1>. QED
  BY <1>5, <1>6 DEF HasTwo

\* A commit keeps the budgets and types of the alerts, and inserts the new ones.
LEMMA CommittedAlerts ==
  ASSUME Typed, NEW t \in Tasks, Commit(t)
  PROVE  \E F : /\ alerts' = {F[a] : a \in alerts} \cup Inserted(t, Writes(t))
                /\ \A a \in alerts : /\ F[a] \in Alert
                                     /\ F[a].budget = a.budget /\ F[a].type = a.type
                                     /\ F[a].id = a.id
<1>. DEFINE writes == Writes(t)
            New(a) == CHOOSE m \in writes : \E f \in m.found : f.id = a.id
            F == [a \in alerts |->
                    IF a.id \in UpdatedIds(writes)
                    THEN [a EXCEPT !.usage = New(a).warning.usage] ELSE a]
<1>1. alerts' = {F[a] : a \in alerts} \cup Inserted(t, Writes(t))
  BY DEF Commit, Writes
<1>2. ASSUME NEW a \in alerts
      PROVE  /\ F[a] \in Alert /\ F[a].budget = a.budget /\ F[a].type = a.type
             /\ F[a].id = a.id
  <2>1. a \in Alert
    BY DEF Typed
  <2>2. CASE a.id \notin UpdatedIds(writes)
    BY <2>1, <2>2
  <2>3. CASE a.id \in UpdatedIds(writes)
    <3>1. \E m \in writes : \E f \in m.found : f.id = a.id
      BY <2>3 DEF UpdatedIds, Updated
    <3>2. New(a) \in writes
      BY <3>1
    <3>3. writes \in SUBSET Write
      BY DEF Typed, Writes
    <3>4. New(a).warning.usage \in Spends
      BY <3>2, <3>3 DEF Write, Warning
    <3>5. F[a] = [a EXCEPT !.usage = New(a).warning.usage]
      BY <2>3
    <3>. HIDE DEF F, New, writes
    <3>. QED
      BY <2>1, <3>4, <3>5 DEF Alert
  <2>. QED
    BY <2>2, <2>3
<1>. HIDE DEF F
<1>. QED
  BY <1>1, <1>2

\* An insertion has the budget and type of its warning.
LEMMA InsertedAlerts ==
  ASSUME Typed, NEW t \in Tasks
  PROVE  /\ Inserted(t, Writes(t)) \in SUBSET Alert
         /\ \A a \in Inserted(t, Writes(t)) : \E m \in Writes(t) :
              m.found = {} /\ a.budget = m.warning.budget /\ a.type = m.warning.type
         /\ \A a \in Inserted(t, Writes(t)) : a.id[1] = t
         /\ \A m \in Writes(t) : m.found = {} =>
              \E a \in Inserted(t, Writes(t)) :
                a.budget = m.warning.budget /\ a.type = m.warning.type
         /\ WrittenOnce /\ WarnedOnce /\ WrittenWereWarned =>
              \A a, b \in Inserted(t, Writes(t)) : a.budget = b.budget => a = b
<1>. DEFINE Row(m) == [id |-> <<t, m.warning.budget>>, budget |-> m.warning.budget,
                       type |-> m.warning.type, usage |-> m.warning.usage]
<1>1. Inserted(t, Writes(t)) = {Row(m) : m \in {n \in Writes(t) : n.found = {}}}
  BY DEF Inserted
<1>2. ASSUME NEW m \in Writes(t)
      PROVE  /\ Row(m) \in Alert
             /\ Row(m).budget = m.warning.budget /\ Row(m).type = m.warning.type
             /\ Row(m).id[1] = t
  <2>1. m \in Write
    BY DEF Typed, Writes
  <2>2. /\ m.warning.budget \in Budgets /\ m.warning.type \in AlertTypes
        /\ m.warning.usage \in Spends
    BY <2>1 DEF Write, Warning
  <2>. QED
    BY <2>2 DEF Alert
<1>3. ASSUME WrittenOnce, WarnedOnce, WrittenWereWarned,
             NEW m \in Writes(t), NEW n \in Writes(t), m.warning.budget = n.warning.budget
      PROVE  m = n
  BY <1>3 DEF WrittenOnce, WarnedOnce, WrittenWereWarned
<1>. HIDE DEF Row
<1>. QED
  BY <1>1, <1>2, <1>3
-----------------------------------------------------------------------------
\* The invariants hold initially.
LEMMA AlertsBegin == Init => AlertInv /\ MetInv
<1>. SUFFICES ASSUME Init  PROVE AlertInv /\ MetInv
  OBVIOUS
<1>1. OneRowEach
  <2>1. SUFFICES ASSUME NEW r \in table, NEW s \in table, r.budget = s.budget  PROVE r = s
    BY DEF OneRowEach
  <2>. DEFINE rows == {row \in table : row.budget = r.budget}
  <2>2. table \in SUBSET [budget : Budgets, hard : BOOLEAN]
    BY DEF Init
  <2>3. r.budget \in Budgets
    BY <2>2
  <2>4. Cardinality(rows) = 1
    BY <2>3 DEF Init
  <2>5. IsFiniteSet(rows)
    <3>. DEFINE hard == [budget |-> r.budget, hard |-> TRUE]
                soft == [budget |-> r.budget, hard |-> FALSE]
    <3>1. rows \in SUBSET ({hard} \cup {soft})
      <4>1. SUFFICES ASSUME NEW row \in rows  PROVE row = hard \/ row = soft
        OBVIOUS
      <4>2. PICK h \in BOOLEAN : row = [budget |-> r.budget, hard |-> h]
        BY <2>2
      <4>. QED
        BY <4>2
    <3>. HIDE DEF hard, soft
    <3>2. IsFiniteSet({hard})
      BY FS_Singleton
    <3>3. IsFiniteSet({hard} \cup {soft})
      BY <3>2, FS_AddElement
    <3>. QED
      BY <3>1, <3>3, FS_Subset
  <2>6. PICK x : rows = {x}
    BY <2>4, <2>5, FS_Singleton
  <2>. QED
    BY <2>1, <2>6
<1>2. PICK open \in SUBSET table :
        \E twice \in SUBSET open :
          alerts = {Earlier("earlier", row) : row \in open}
                     \cup {Earlier("doubled", row) : row \in twice}
  BY DEF Init
<1>3. PICK twice \in SUBSET open :
        alerts = {Earlier("earlier", row) : row \in open}
                   \cup {Earlier("doubled", row) : row \in twice}
  BY <1>2
<1>4. ASSUME NEW by \in {"earlier", "doubled"}, NEW row \in table
      PROVE  /\ Earlier(by, row) \in Alert
             /\ Earlier(by, row).budget = row.budget /\ Earlier(by, row).id[1] = by
  <2>1. row.budget \in Budgets /\ AlertType(row) \in AlertTypes
    BY DEF Init, AlertType, AlertTypes
  <2>. QED
    BY <2>1 DEF Earlier, Alert
<1>5. Typed
  <2>1. alerts \in SUBSET Alert
    BY <1>3, <1>4
  <2>. QED
    BY <2>1 DEF Init, Typed
<1>6. NoOrphanAlert
  BY <1>3, <1>4 DEF NoOrphanAlert
<1>7. AlertInv
  BY <1>1, <1>5, <1>6 DEF AlertInv, Init, InsertsAreHeld, WarningsAreKept, CommittedIsAlerted
<1>8. OneUnresolvedAlert
  <2>1. SUFFICES ASSUME NEW a \in alerts, NEW b \in alerts, a.budget = b.budget, a # b
                 PROVE  {a.id[1], b.id[1]} = {"earlier", "doubled"}
    BY DEF OneUnresolvedAlert
  <2>2. PICK p \in {"earlier", "doubled"}, r \in table : a = Earlier(p, r)
    BY <1>3, <2>1
  <2>3. PICK q \in {"earlier", "doubled"}, u \in table : b = Earlier(q, u)
    BY <1>3, <2>1
  <2>4. r = u
    BY <1>1, <1>4, <2>1, <2>2, <2>3 DEF OneRowEach
  <2>5. p # q
    BY <2>1, <2>2, <2>3, <2>4
  <2>. QED
    BY <1>4, <2>2, <2>3, <2>5
<1>9. WrittenWereWarned /\ OnlyRunningWrites /\ WarnedOnce /\ WrittenOnce
  BY DEF Init, WrittenWereWarned, OnlyRunningWrites, WarnedOnce, WrittenOnce, Writes
<1>10. RunsMet /\ MeetsAnother /\ InsertsAreNew /\ FoundAreThere /\ FailureIsExplained
  BY DEF Init, RunsMet, MeetsAnother, InsertsAreNew, FoundAreThere, FailureIsExplained, Writes
<1>. QED
  BY <1>7, <1>8, <1>9, <1>10 DEF MetInv

\* A dispatch that begins keeps the invariants.
LEMMA StartInv ==
  ASSUME AlertInv, MetInv, NEW t \in Tasks, Start(t)
  PROVE  AlertInv' /\ MetInv'
<1>1. PICK spend \in [Budgets -> Spends] :
        /\ left' = [left EXCEPT ![t] = WarningsFor(spend)]
        /\ warned' = [warned EXCEPT ![t] = WarningsFor(spend)]
  BY DEF Start
<1>. DEFINE new == WarningsFor(spend)
<1>2. new \in SUBSET Warning /\ \A v, w \in new : v.budget = w.budget => v = w
  BY WarningsTyped DEF AlertInv
<1>. HIDE DEF new
<1>3. /\ left'[t] = new /\ warned'[t] = new /\ phase'[t] = "running" /\ phase[t] = "new"
      /\ \A u \in Tasks \ {t} : /\ left'[u] = left[u] /\ warned'[u] = warned[u]
                                /\ phase'[u] = phase[u]
      /\ UNCHANGED <<table, alerts, pending, sent>>
      /\ \A u \in Tasks : Writes(u)' = Writes(u)
      /\ met' = met \cup {{t, u} : u \in Running}
  BY <1>1 DEF AlertInv, Typed, Start, Writes, new
<1>4. Typed'
  <2>1. met' \in SUBSET SUBSET Tasks
    BY <1>3 DEF AlertInv, Typed, Running
  <2>2. /\ left' \in [Tasks -> SUBSET Warning] /\ warned' \in [Tasks -> SUBSET Warning]
        /\ phase' \in [Tasks -> {"new", "running", "committed", "failed", "orphaned",
                                 "aborted"}]
    BY <1>1, <1>2 DEF AlertInv, Typed, Start, new
  <2>. QED
    BY <1>3, <2>1, <2>2 DEF AlertInv, Typed
<1>5. AlertInv'
  <2>1. WarningsAreKept'
    BY <1>3 DEF AlertInv, WarningsAreKept, HasAlert, Gone
  <2>2. CommittedIsAlerted'
    BY <1>3 DEF AlertInv, CommittedIsAlerted, HasAlert, Gone
  <2>. QED
    BY <1>3, <1>4, <2>1, <2>2 DEF AlertInv, OneRowEach, NoOrphanAlert, InsertsAreHeld, HasRow
<1>6. Writes(t) = {}
  BY <1>3 DEF MetInv, OnlyRunningWrites
<1>7. WrittenWereWarned' /\ OnlyRunningWrites' /\ WarnedOnce' /\ WrittenOnce'
  BY <1>2, <1>3, <1>6 DEF MetInv, WrittenWereWarned, OnlyRunningWrites, WarnedOnce, WrittenOnce
<1>8. RunsMet'
  <2>1. SUFFICES ASSUME NEW u \in Tasks, NEW v \in Tasks, u # v,
                        phase'[u] = "running", phase'[v] = "running"
                 PROVE  {u, v} \in met'
    BY DEF RunsMet
  <2>2. CASE u # t /\ v # t
    BY <1>3, <2>1, <2>2 DEF MetInv, RunsMet
  <2>3. CASE u = t
    BY <1>3, <2>1, <2>3 DEF Running
  <2>4. CASE v = t
    <3>1. {u, v} = {t, u}
      BY <2>4
    <3>. QED
      BY <1>3, <2>1, <2>4, <3>1 DEF Running
  <2>. QED
    BY <2>2, <2>3, <2>4
<1>9. MeetsAnother'
  <2>1. SUFFICES ASSUME NEW v, {v} \in met'  PROVE FALSE
    BY DEF MeetsAnother
  <2>2. PICK u \in Running : {v} = {t, u}
    BY <1>3, <2>1 DEF MetInv, MeetsAnother
  <2>. QED
    BY <1>3, <2>2 DEF Running
<1>10. InsertsAreNew'
  <2>1. SUFFICES ASSUME NEW u \in Tasks, phase'[u] = "running",
                        NEW m \in Writes(u)', m.found = {}, NEW a \in Unresolved(m.warning)'
                 PROVE  {u, a.id[1]} \in met'
    BY DEF InsertsAreNew
  <2>2. m \in Writes(u) /\ u # t
    BY <1>3, <1>6, <2>1
  <2>3. phase[u] = "running"
    BY <1>3, <2>1, <2>2
  <2>4. a \in Unresolved(m.warning)
    BY <1>3, <2>1 DEF Unresolved
  <2>. QED
    BY <1>3, <2>1, <2>2, <2>3, <2>4 DEF MetInv, InsertsAreNew
<1>11. FoundAreThere'
  BY <1>3 DEF MetInv, FoundAreThere, Gone
<1>12. OneUnresolvedAlert'
  BY <1>3 DEF MetInv, OneUnresolvedAlert
<1>13. FailureIsExplained'
  <2>1. \A w : Gone(w)' = Gone(w) /\ HasTwo(w)' = HasTwo(w)
    BY <1>3 DEF Gone, HasTwo, Unresolved
  <2>. QED
    BY <1>3, <2>1 DEF MetInv, FailureIsExplained
<1>. QED
  BY <1>5, <1>7, <1>8, <1>9, <1>10, <1>11, <1>12, <1>13 DEF MetInv

\* A dispatch that rolls back, for any reason, keeps the invariants.
LEMMA RollBackInv ==
  ASSUME AlertInv, MetInv, NEW t \in Tasks, NEW how \in {"failed", "orphaned", "aborted"},
         RollBack(t, how),
         how = "failed" => \E w \in warned[t] : ~FitsColumn(w.usage) \/ HasTwo(w) \/ Gone(w),
         how = "orphaned" => \E w \in warned[t] : Gone(w)
  PROVE  AlertInv' /\ MetInv'
<1>1. /\ phase'[t] = how /\ left'[t] = {} /\ pending'[t] = {} /\ sent'[t] = {}
      /\ \A u \in Tasks \ {t} : /\ phase'[u] = phase[u] /\ left'[u] = left[u]
                                /\ pending'[u] = pending[u] /\ sent'[u] = sent[u]
      /\ UNCHANGED <<table, alerts, warned, met>>
  BY DEF AlertInv, Typed, RollBack
<1>2. Writes(t)' = {} /\ \A u \in Tasks \ {t} : Writes(u)' = Writes(u)
  BY <1>1 DEF Writes
<1>3. Typed'
  BY DEF AlertInv, Typed, RollBack
<1>4. \A w : HasAlert(w)' = HasAlert(w) /\ Gone(w)' = Gone(w)
  BY <1>1 DEF HasAlert, Gone
<1>5. WarningsAreKept' /\ CommittedIsAlerted'
  BY <1>1, <1>2, <1>4 DEF AlertInv, WarningsAreKept, CommittedIsAlerted
<1>6. OneRowEach' /\ NoOrphanAlert' /\ InsertsAreHeld'
  BY <1>1 DEF AlertInv, OneRowEach, NoOrphanAlert, InsertsAreHeld, HasRow
<1>7. WrittenWereWarned' /\ OnlyRunningWrites' /\ WarnedOnce' /\ WrittenOnce'
  BY <1>1, <1>2 DEF MetInv, WrittenWereWarned, OnlyRunningWrites, WarnedOnce, WrittenOnce
<1>8. RunsMet' /\ MeetsAnother' /\ OneUnresolvedAlert'
  BY <1>1 DEF MetInv, RunsMet, MeetsAnother, OneUnresolvedAlert
<1>9. InsertsAreNew' /\ FoundAreThere'
  BY <1>1, <1>2 DEF MetInv, InsertsAreNew, FoundAreThere, Unresolved, Gone
<1>10. FailureIsExplained'
  <2>1. \A w : Gone(w)' = Gone(w) /\ HasTwo(w)' = HasTwo(w)
    BY <1>1 DEF Gone, HasTwo, Unresolved
  <2>. QED
    BY <1>1, <2>1 DEF MetInv, FailureIsExplained
<1>. QED
  BY <1>3, <1>5, <1>6, <1>7, <1>8, <1>9, <1>10 DEF AlertInv, MetInv

\* So does a turn of the loop.
LEMMA LookInv ==
  ASSUME AlertInv, MetInv, NEW t \in Tasks, Look(t)
  PROVE  AlertInv' /\ MetInv'
<1>1. PICK w \in left[t] :
        /\ left' = [left EXCEPT ![t] = @ \ {w}]
        /\ pending' = [pending EXCEPT ![t] = {[warning |-> w, found |-> Unresolved(w)]}]
  BY DEF Look
<1>. DEFINE new == [warning |-> w, found |-> Unresolved(w)]
<1>2. /\ left'[t] = left[t] \ {w} /\ pending'[t] = {new} /\ sent'[t] = Writes(t)
      /\ \A u \in Tasks \ {t} : /\ left'[u] = left[u] /\ pending'[u] = pending[u]
                                /\ sent'[u] = sent[u]
      /\ phase[t] = "running" /\ UNCHANGED <<table, alerts, phase, warned, met>>
  BY <1>1 DEF AlertInv, Typed, Look, Writes
<1>3. new.warning = w /\ new.found = Unresolved(w) /\ new \in Write /\ w \in Warning
  BY DEF AlertInv, Typed, Write, Unresolved
<1>. HIDE DEF new
<1>4. Writes(t)' = Writes(t) \cup {new} /\ \A u \in Tasks \ {t} : Writes(u)' = Writes(u)
  BY <1>2 DEF Writes
<1>5. Typed'
  BY <1>1, <1>3 DEF AlertInv, Typed, Look, new
<1>6. \A v : HasAlert(v)' = HasAlert(v) /\ Gone(v)' = Gone(v)
  BY <1>2 DEF HasAlert, Gone
<1>7. Unresolved(w) = {} \/ HasAlert(w)
  BY DEF Unresolved, HasAlert
<1>8. WarningsAreKept'
  BY <1>2, <1>3, <1>4, <1>6, <1>7 DEF AlertInv, WarningsAreKept
<1>9. InsertsAreHeld'
  <2>1. \A m \in pending[t] : m.found = {} => HasRow(m.warning.budget)
    <3>1. SUFFICES ASSUME NEW m \in pending[t], m.found = {}  PROVE HasRow(m.warning.budget)
      OBVIOUS
    <3>2. [id |-> <<t, m.warning.budget>>, budget |-> m.warning.budget,
           type |-> m.warning.type, usage |-> m.warning.usage] \in Inserted(t, pending[t])
      BY <3>1 DEF Inserted
    <3>. QED
      BY <3>2 DEF Look, CanSend, HasRow
  <2>2. \A m \in Writes(t) : m.found = {} => HasRow(m.warning.budget)
    BY <2>1 DEF AlertInv, InsertsAreHeld, Writes
  <2>3. \A b : HasRow(b)' = HasRow(b)
    BY <1>2 DEF HasRow
  <2>. QED
    BY <1>2, <2>2, <2>3 DEF AlertInv, InsertsAreHeld
<1>10. CommittedIsAlerted' /\ OneRowEach' /\ NoOrphanAlert'
  BY <1>2, <1>6 DEF AlertInv, CommittedIsAlerted, OneRowEach, NoOrphanAlert
<1>11. WrittenWereWarned' /\ OnlyRunningWrites' /\ WarnedOnce'
  BY <1>2, <1>3, <1>4 DEF MetInv, WrittenWereWarned, OnlyRunningWrites, WarnedOnce
<1>12. WrittenOnce'
  <2>1. \A m \in Writes(t) : m.warning # new.warning
    BY <1>3 DEF MetInv, WrittenWereWarned
  <2>. QED
    BY <1>4, <2>1 DEF MetInv, WrittenOnce
<1>13. RunsMet' /\ MeetsAnother' /\ OneUnresolvedAlert'
  BY <1>2 DEF MetInv, RunsMet, MeetsAnother, OneUnresolvedAlert
<1>14. InsertsAreNew'
  <2>1. \A v : Unresolved(v)' = Unresolved(v)
    BY <1>2 DEF Unresolved
  <2>. QED
    BY <1>2, <1>3, <1>4, <2>1 DEF MetInv, InsertsAreNew
<1>15. FoundAreThere'
  <2>1. \A f \in new.found : \E a \in alerts : a.id = f.id /\ a.budget = new.warning.budget
    BY <1>3 DEF Unresolved
  <2>. QED
    BY <1>2, <1>4, <2>1 DEF MetInv, FoundAreThere, Gone
<1>16. FailureIsExplained'
  <2>1. \A v : Gone(v)' = Gone(v) /\ HasTwo(v)' = HasTwo(v)
    BY <1>2 DEF Gone, HasTwo, Unresolved
  <2>. QED
    BY <1>2, <2>1 DEF MetInv, FailureIsExplained
<1>. QED
  BY <1>5, <1>8, <1>9, <1>10, <1>11, <1>12, <1>13, <1>14, <1>15, <1>16 DEF AlertInv, MetInv

\* What a commit changes of the dispatch and of the alerts.
LEMMA CommitChanges ==
  ASSUME AlertInv, NEW t \in Tasks, Commit(t)
  PROVE  /\ phase[t] = "running" /\ left[t] = {} /\ phase'[t] = "committed"
         /\ pending'[t] = {} /\ sent'[t] = {}
         /\ \A u \in Tasks \ {t} : /\ phase'[u] = phase[u] /\ pending'[u] = pending[u]
                                   /\ sent'[u] = sent[u]
         /\ Writes(t)' = {} /\ \A u \in Tasks \ {t} : Writes(u)' = Writes(u)
         /\ UNCHANGED <<table, left, warned, met>>
         /\ \A m \in Writes(t) : m.found = {} => HasRow(m.warning.budget)
         /\ \A b : HasRow(b)' = HasRow(b)
<1>1. \A m \in pending[t] : m.found = {} => HasRow(m.warning.budget)
  <2>1. SUFFICES ASSUME NEW m \in pending[t], m.found = {}  PROVE HasRow(m.warning.budget)
    OBVIOUS
  <2>2. [id |-> <<t, m.warning.budget>>, budget |-> m.warning.budget,
         type |-> m.warning.type, usage |-> m.warning.usage] \in Inserted(t, pending[t])
    BY <2>1 DEF Inserted
  <2>. QED
    BY <2>2 DEF Commit, CanSend, HasRow
<1>2. \A m \in Writes(t) : m.found = {} => HasRow(m.warning.budget)
  BY <1>1 DEF AlertInv, InsertsAreHeld, Writes
<1>3. /\ phase[t] = "running" /\ left[t] = {} /\ phase'[t] = "committed"
      /\ pending'[t] = {} /\ sent'[t] = {}
      /\ \A u \in Tasks \ {t} : /\ phase'[u] = phase[u] /\ pending'[u] = pending[u]
                                /\ sent'[u] = sent[u]
      /\ UNCHANGED <<table, left, warned, met>>
  BY DEF AlertInv, Typed, Commit
<1>. QED
  BY <1>2, <1>3 DEF Writes, HasRow

\* The commit of a dispatch keeps the invariants.
LEMMA CommitInv ==
  ASSUME AlertInv, MetInv, NEW t \in Tasks, Commit(t)
  PROVE  AlertInv' /\ MetInv'
<1>. DEFINE Rows == Inserted(t, Writes(t))
<1>1. PICK F : /\ alerts' = {F[a] : a \in alerts} \cup Rows
               /\ \A a \in alerts : /\ F[a] \in Alert /\ F[a].id = a.id
                                    /\ F[a].budget = a.budget /\ F[a].type = a.type
  BY CommittedAlerts DEF AlertInv
<1>2. /\ Rows \in SUBSET Alert
      /\ \A a \in Rows : \E m \in Writes(t) :
           m.found = {} /\ a.budget = m.warning.budget /\ a.type = m.warning.type
      /\ \A a \in Rows : a.id[1] = t
      /\ \A m \in Writes(t) : m.found = {} =>
           \E a \in Rows : a.budget = m.warning.budget /\ a.type = m.warning.type
      /\ \A a, b \in Rows : a.budget = b.budget => a = b
  BY InsertedAlerts DEF AlertInv, MetInv
<1>. HIDE DEF Rows
<1>3. /\ phase[t] = "running" /\ left[t] = {} /\ phase'[t] = "committed"
      /\ \A u \in Tasks \ {t} : phase'[u] = phase[u] /\ sent'[u] = sent[u]
      /\ sent'[t] = {} /\ Writes(t)' = {} /\ \A u \in Tasks \ {t} : Writes(u)' = Writes(u)
      /\ UNCHANGED <<table, left, warned, met>>
      /\ \A m \in Writes(t) : m.found = {} => HasRow(m.warning.budget)
      /\ \A b : HasRow(b)' = HasRow(b)
  BY CommitChanges
<1>4. Typed'
  <2>1. alerts' \in SUBSET Alert
    BY <1>1, <1>2
  <2>2. /\ phase' = [phase EXCEPT ![t] = "committed"]
        /\ pending' = [pending EXCEPT ![t] = {}]
        /\ sent' = [sent EXCEPT ![t] = {}]
        /\ UNCHANGED <<table, left, warned, met>>
    BY DEF Commit
  <2>3. /\ phase \in [Tasks -> {"new", "running", "committed", "failed", "orphaned", "aborted"}]
        /\ pending \in [Tasks -> SUBSET Write] /\ sent \in [Tasks -> SUBSET Write]
    BY DEF AlertInv, Typed
  <2>4. phase' \in [Tasks -> {"new", "running", "committed", "failed", "orphaned", "aborted"}]
    BY <2>2, <2>3
  <2>5. pending' \in [Tasks -> SUBSET Write] /\ sent' \in [Tasks -> SUBSET Write]
    BY <2>2, <2>3
  <2>6. /\ table' \in SUBSET [budget : Budgets, hard : BOOLEAN]
        /\ left' \in [Tasks -> SUBSET Warning] /\ warned' \in [Tasks -> SUBSET Warning]
        /\ met' \in SUBSET SUBSET Tasks
    BY <2>2 DEF AlertInv, Typed
  <2>. QED
    BY <2>1, <2>4, <2>5, <2>6 DEF Typed
<1>5. NoOrphanAlert'
  <2>1. \A a \in alerts' : HasRow(a.budget)
    <3>1. SUFFICES ASSUME NEW a \in alerts'  PROVE HasRow(a.budget)
      OBVIOUS
    <3>2. CASE \E x \in alerts : a = F[x]
      BY <1>1, <3>2 DEF AlertInv, NoOrphanAlert, HasRow
    <3>3. CASE a \in Rows
      <4>1. PICK m \in Writes(t) : m.found = {} /\ a.budget = m.warning.budget
        BY <1>2, <3>3
      <4>. QED
        BY <1>3, <4>1
    <3>. QED
      BY <1>1, <3>2, <3>3
  <2>. QED
    BY <1>3, <2>1 DEF NoOrphanAlert, HasRow
<1>6. \A a \in alerts : \E b \in alerts' : b.budget = a.budget /\ b.type = a.type
  BY <1>1
<1>7. \A w : Gone(w) \/ HasAlert(w) => Gone(w)' \/ HasAlert(w)'
  BY <1>3, <1>6, AlertStays
<1>8. \A m \in Writes(t) : m.found = {} => HasAlert(m.warning)'
  BY <1>1, <1>2 DEF HasAlert
<1>9. CommittedIsAlerted'
  <2>1. \A w \in warned[t] : Gone(w)' \/ HasAlert(w)'
    <3>1. SUFFICES ASSUME NEW w \in warned[t]  PROVE Gone(w)' \/ HasAlert(w)'
      OBVIOUS
    <3>2. \/ Gone(w)
          \/ \E m \in Writes(t) : m.warning = w /\ (m.found = {} \/ HasAlert(w))
      BY <1>3 DEF AlertInv, WarningsAreKept
    <3>. QED
      BY <1>7, <1>8, <3>2
  <2>. QED
    BY <1>3, <1>7, <2>1 DEF AlertInv, CommittedIsAlerted
<1>10. WarningsAreKept'
  <2>1. SUFFICES ASSUME NEW u \in Tasks, phase'[u] = "running", NEW w \in warned[u],
                        w \notin left[u], ~Gone(w)'
                 PROVE  \E m \in Writes(u)' : m.warning = w /\ (m.found = {} \/ HasAlert(w)')
    BY <1>3 DEF WarningsAreKept
  <2>2. u # t /\ phase[u] = "running" /\ ~Gone(w)
    BY <1>3, <2>1 DEF Gone
  <2>3. PICK m \in Writes(u) : m.warning = w /\ (m.found = {} \/ HasAlert(w))
    BY <2>1, <2>2 DEF AlertInv, WarningsAreKept
  <2>. QED
    BY <1>3, <1>7, <2>1, <2>2, <2>3
<1>11. OneRowEach' /\ InsertsAreHeld'
  BY <1>3 DEF AlertInv, OneRowEach, InsertsAreHeld
<1>12. WrittenWereWarned' /\ OnlyRunningWrites' /\ WarnedOnce' /\ WrittenOnce'
  BY <1>3 DEF MetInv, WrittenWereWarned, OnlyRunningWrites, WarnedOnce, WrittenOnce
<1>13. RunsMet' /\ MeetsAnother'
  BY <1>3 DEF MetInv, RunsMet, MeetsAnother
<1>14. InsertsAreNew'
  <2>1. SUFFICES ASSUME NEW u \in Tasks, phase'[u] = "running",
                        NEW m \in Writes(u)', m.found = {}, NEW a \in Unresolved(m.warning)'
                 PROVE  {u, a.id[1]} \in met
    BY <1>3 DEF InsertsAreNew
  <2>2. u # t /\ phase[u] = "running" /\ m \in Writes(u)
    BY <1>3, <2>1
  <2>3. a \in alerts' /\ a.budget = m.warning.budget /\ a.type = m.warning.type
    BY <2>1 DEF Unresolved
  <2>4. CASE a \in Rows
    BY <1>2, <1>3, <2>2, <2>4 DEF MetInv, RunsMet
  <2>5. CASE \E x \in alerts : a = F[x]
    <3>1. PICK x \in alerts : a = F[x]
      BY <2>5
    <3>2. x \in Unresolved(m.warning) /\ a.id = x.id
      BY <1>1, <2>3, <3>1 DEF Unresolved
    <3>. QED
      BY <2>1, <2>2, <3>2 DEF MetInv, InsertsAreNew
  <2>. QED
    BY <1>1, <2>3, <2>4, <2>5
<1>15. FoundAreThere'
  <2>1. SUFFICES ASSUME NEW u \in Tasks, NEW m \in Writes(u)', NEW f \in m.found,
                        ~Gone(m.warning)'
                 PROVE  \E a \in alerts' : a.id = f.id /\ a.budget = m.warning.budget
    BY DEF FoundAreThere
  <2>2. m \in Writes(u)
    BY <1>3, <2>1
  <2>3. PICK a \in alerts : a.id = f.id /\ a.budget = m.warning.budget
    BY <1>3, <2>1, <2>2 DEF MetInv, FoundAreThere, Gone
  <2>. QED
    BY <1>1, <2>3
<1>16. OneUnresolvedAlert'
  <2>1. SUFFICES ASSUME NEW a \in alerts', NEW b \in alerts', a # b,
                        a.budget = b.budget, a.type = b.type
                 PROVE  {a.id[1], b.id[1]} \in met \cup {{"earlier", "doubled"}}
    BY <1>3 DEF OneUnresolvedAlert
  <2>2. ASSUME NEW x \in alerts, NEW y \in Rows, x.budget = y.budget, x.type = y.type
        PROVE  {x.id[1], y.id[1]} \in met
    <3>1. PICK m \in Writes(t) :
            m.found = {} /\ y.budget = m.warning.budget /\ y.type = m.warning.type
      BY <1>2
    <3>2. x \in Unresolved(m.warning)
      BY <2>2, <3>1 DEF Unresolved
    <3>3. {t, x.id[1]} \in met
      BY <1>3, <3>1, <3>2 DEF MetInv, InsertsAreNew
    <3>4. {t, x.id[1]} = {x.id[1], y.id[1]}
      BY <1>2
    <3>. QED
      BY <3>3, <3>4
  <2>3. CASE a \in Rows /\ b \in Rows
    BY <1>2, <2>1, <2>3
  <2>4. CASE \E x, y \in alerts : a = F[x] /\ b = F[y]
    <3>1. PICK x \in alerts, y \in alerts : a = F[x] /\ b = F[y]
      BY <2>4
    <3>2. /\ x # y /\ x.budget = y.budget /\ x.type = y.type
          /\ a.id = x.id /\ b.id = y.id
      BY <1>1, <2>1, <3>1
    <3>. QED
      BY <3>2 DEF MetInv, OneUnresolvedAlert
  <2>5. CASE a \in Rows /\ \E x \in alerts : b = F[x]
    <3>1. PICK x \in alerts : b = F[x]
      BY <2>5
    <3>2. {x.id[1], a.id[1]} \in met /\ b.id = x.id
      BY <1>1, <2>1, <2>2, <2>5, <3>1
    <3>3. {x.id[1], a.id[1]} = {a.id[1], b.id[1]}
      BY <3>2
    <3>. QED
      BY <3>2, <3>3
  <2>6. CASE b \in Rows /\ \E x \in alerts : a = F[x]
    <3>1. PICK x \in alerts : a = F[x]
      BY <2>6
    <3>2. {x.id[1], b.id[1]} \in met /\ a.id = x.id
      BY <1>1, <2>1, <2>2, <2>6, <3>1
    <3>. QED
      BY <3>2
  <2>. QED
    BY <1>1, <2>3, <2>4, <2>5, <2>6
<1>17. FailureIsExplained'
  <2>1. \A w : HasTwo(w) => HasTwo(w)' \/ Gone(w)'
    <3>1. \A a \in alerts : HasRow(a.budget)' => F[a] \in alerts'
      BY <1>1
    <3>. QED
      BY <1>1, <3>1, TwoStay DEF MetInv
  <2>2. \A w : Gone(w) => Gone(w)'
    BY <1>3 DEF Gone
  <2>. QED
    BY <1>3, <2>1, <2>2 DEF MetInv, FailureIsExplained
<1>. QED
  BY <1>4, <1>5, <1>9, <1>10, <1>11, <1>12, <1>13, <1>14, <1>15, <1>16, <1>17
     DEF AlertInv, MetInv

\* Administrators keep the invariants.
LEMMA SetHardInv ==
  ASSUME AlertInv, MetInv, NEW b \in AdminBudgets, SetHard(b)
  PROVE  AlertInv' /\ MetInv'
<1>1. PICK row \in table : row.budget = b /\ table' = (table \ {row}) \cup {[row EXCEPT !.hard = ~@]}
  BY DEF SetHard
<1>2. UNCHANGED <<alerts, phase, left, pending, sent, warned, met>>
  BY DEF SetHard
<1>. DEFINE new == [row EXCEPT !.hard = ~@]
<1>3. row \in [budget : Budgets, hard : BOOLEAN]
  BY DEF AlertInv, Typed
<1>4. new \in [budget : Budgets, hard : BOOLEAN] /\ new.budget = row.budget
  BY <1>3
<1>. HIDE DEF new
<1>5. table' \in SUBSET [budget : Budgets, hard : BOOLEAN] /\ OneRowEach'
  BY <1>1, <1>4 DEF AlertInv, Typed, OneRowEach, new
<1>6. \A c : HasRow(c)' = HasRow(c)
  BY <1>1, <1>4 DEF HasRow, new
<1>7. Typed'
  BY <1>2, <1>5 DEF AlertInv, Typed
<1>8. NoOrphanAlert' /\ InsertsAreHeld'
  BY <1>2, <1>6 DEF AlertInv, NoOrphanAlert, InsertsAreHeld, HasRow
<1>9. \A w : HasAlert(w)' = HasAlert(w) /\ Gone(w)' = Gone(w)
  BY <1>2, <1>6 DEF HasAlert, HasRow, Gone
<1>10. WarningsAreKept' /\ CommittedIsAlerted'
  BY <1>2, <1>9 DEF AlertInv, WarningsAreKept, CommittedIsAlerted, Writes
<1>11. \A w : Gone(w)' = Gone(w) /\ HasTwo(w)' = HasTwo(w)
  BY <1>2, <1>6 DEF HasRow, Gone, HasTwo, Unresolved
<1>12. FoundAreThere' /\ FailureIsExplained'
  BY <1>2, <1>11 DEF MetInv, FoundAreThere, FailureIsExplained, Writes
<1>13. MetInv'
  BY <1>2, <1>12 DEF MetInv, WrittenWereWarned, OnlyRunningWrites, WarnedOnce, WrittenOnce,
     RunsMet, MeetsAnother, InsertsAreNew, OneUnresolvedAlert, Writes, Unresolved
<1>. QED
  BY <1>5, <1>7, <1>8, <1>10, <1>13 DEF AlertInv

LEMMA DeleteBudgetInv ==
  ASSUME AlertInv, MetInv, NEW b \in AdminBudgets, DeleteBudget(b)
  PROVE  AlertInv' /\ MetInv'
<1>1. /\ table' = {row \in table : row.budget # b}
      /\ alerts' = {a \in alerts : a.budget # b}
      /\ UNCHANGED <<phase, left, pending, sent, warned, met>>
      /\ \A t \in Tasks : ~Holds(t, b)
  BY DEF DeleteBudget
<1>2. \A c : HasRow(c)' <=> HasRow(c) /\ c # b
  BY <1>1 DEF HasRow
<1>3. Typed' /\ OneRowEach'
  BY <1>1 DEF AlertInv, Typed, OneRowEach
<1>4. NoOrphanAlert'
  BY <1>1 DEF AlertInv, NoOrphanAlert
<1>5. InsertsAreHeld'
  BY <1>1, <1>2 DEF AlertInv, InsertsAreHeld, Holds
<1>6. \A w : Gone(w) \/ HasAlert(w) => Gone(w)' \/ HasAlert(w)'
  BY <1>1, <1>2, AlertStays
<1>7. WarningsAreKept' /\ CommittedIsAlerted'
  <2>1. \A t \in Tasks : Writes(t)' = Writes(t)
    BY <1>1 DEF Writes
  <2>2. WarningsAreKept'
    <3>1. SUFFICES ASSUME NEW t \in Tasks, phase[t] = "running", NEW w \in warned[t],
                          w \notin left[t], ~Gone(w)'
                   PROVE  \E m \in Writes(t) : m.warning = w /\ (m.found = {} \/ HasAlert(w)')
      BY <1>1, <2>1 DEF WarningsAreKept
    <3>2. ~Gone(w)
      BY <1>6, <3>1, <1>1 DEF Gone
    <3>3. PICK m \in Writes(t) : m.warning = w /\ (m.found = {} \/ HasAlert(w))
      BY <3>1, <3>2 DEF AlertInv, WarningsAreKept
    <3>. QED
      BY <1>6, <3>1, <3>3
  <2>3. CommittedIsAlerted'
    BY <1>1, <1>6 DEF AlertInv, CommittedIsAlerted
  <2>. QED
    BY <2>2, <2>3
<1>8. \A w : Unresolved(w)' \subseteq Unresolved(w)
  BY <1>1 DEF Unresolved
<1>9. InsertsAreNew'
  BY <1>1, <1>8 DEF MetInv, InsertsAreNew, Writes
<1>10. OneUnresolvedAlert'
  BY <1>1 DEF MetInv, OneUnresolvedAlert
<1>11. WrittenWereWarned' /\ OnlyRunningWrites' /\ WarnedOnce' /\ WrittenOnce'
       /\ RunsMet' /\ MeetsAnother'
  BY <1>1 DEF MetInv, WrittenWereWarned, OnlyRunningWrites, WarnedOnce, WrittenOnce,
     RunsMet, MeetsAnother, Writes
<1>12. \A w : Gone(w) => Gone(w)'
  BY <1>1 DEF Gone
<1>13. FoundAreThere'
  <2>1. SUFFICES ASSUME NEW t \in Tasks, NEW m \in Writes(t)', NEW f \in m.found,
                        ~Gone(m.warning)'
                 PROVE  \E a \in alerts' : a.id = f.id /\ a.budget = m.warning.budget
    BY DEF FoundAreThere
  <2>2. m \in Writes(t) /\ ~Gone(m.warning)
    BY <1>1, <1>12, <2>1 DEF Writes
  <2>3. PICK a \in alerts : a.id = f.id /\ a.budget = m.warning.budget
    BY <2>1, <2>2 DEF MetInv, FoundAreThere
  <2>4. m.warning.budget # b
    BY <1>1, <2>1 DEF Gone
  <2>. QED
    BY <1>1, <2>3, <2>4
<1>14. FailureIsExplained'
  <2>1. \A w : HasTwo(w) => HasTwo(w)' \/ Gone(w)'
    BY <1>1 DEF HasTwo, Gone, Unresolved
  <2>. QED
    BY <1>1, <1>12, <2>1 DEF MetInv, FailureIsExplained
<1>. QED
  BY <1>3, <1>4, <1>5, <1>7, <1>9, <1>10, <1>11, <1>13, <1>14 DEF AlertInv, MetInv

\* A select that raises has found two alerts, an overflow is of a percentage
\* that does not fit ...
LEMMA FailureHasCause ==
  ASSUME AlertInv, MetInv, NEW t \in Tasks, LookFails(t) \/ SendOverflows(t)
  PROVE  \E w \in warned[t] : ~FitsColumn(w.usage) \/ HasTwo(w)
<1>1. CASE LookFails(t)
  <2>1. PICK w \in left[t] : Cardinality(Unresolved(w)) > 1
    BY <1>1 DEF LookFails
  <2>2. Unresolved(w) # {}
    BY <2>1, FS_EmptySet
  <2>3. PICK a \in Unresolved(w) : TRUE
    BY <2>2
  <2>4. Unresolved(w) # {a}
    <3>1. Cardinality({a}) = 1
      BY FS_Singleton
    <3>. QED
      BY <2>1, <3>1
  <2>5. HasTwo(w)
    BY <2>3, <2>4 DEF HasTwo
  <2>. QED
    BY <2>5 DEF MetInv, WrittenWereWarned
<1>2. CASE SendOverflows(t)
  <2>1. PICK m \in pending[t] : ~FitsColumn(m.warning.usage)
    BY <1>2 DEF SendOverflows, Fits
  <2>. QED
    BY <2>1 DEF MetInv, WrittenWereWarned, Writes
<1>. QED
  BY <1>1, <1>2

\* ... and a row that cannot be written belongs to a budget that went.
LEMMA OrphanHasCause ==
  ASSUME AlertInv, MetInv, NEW t \in Tasks, SendFails(t)
  PROVE  \E w \in warned[t] : Gone(w)
<1>1. CASE \E a \in Inserted(t, pending[t]) : ~HasRow(a.budget)
  <2>1. PICK m \in pending[t] : ~HasRow(m.warning.budget)
    BY <1>1 DEF Inserted
  <2>. QED
    BY <2>1 DEF MetInv, WrittenWereWarned, Writes, HasRow, Gone
<1>2. CASE ~(UpdatedIds(pending[t]) \subseteq {a.id : a \in alerts})
  <2>1. PICK m \in pending[t] : \E f \in m.found : f.id \notin {a.id : a \in alerts}
    BY <1>2 DEF UpdatedIds, Updated
  <2>2. m \in Writes(t)
    BY <2>1 DEF Writes
  <2>3. Gone(m.warning)
    BY <2>1, <2>2 DEF MetInv, FoundAreThere
  <2>. QED
    BY <2>2, <2>3 DEF MetInv, WrittenWereWarned
<1>. QED
  BY <1>1, <1>2 DEF SendFails, CanSend, HasRow

\* The invariants are inductive.
LEMMA AlertsInvariant == Spec => [](AlertInv /\ MetInv)
<1>1. AlertInv /\ MetInv /\ [Next]_vars => (AlertInv /\ MetInv)'
  <2>. SUFFICES ASSUME AlertInv, MetInv, [Next]_vars  PROVE (AlertInv /\ MetInv)'
    OBVIOUS
  <2>1. ASSUME NEW t \in Tasks, Start(t)  PROVE (AlertInv /\ MetInv)'
    BY <2>1, StartInv
  <2>2. ASSUME NEW t \in Tasks, Look(t)  PROVE (AlertInv /\ MetInv)'
    BY <2>2, LookInv
  <2>3. ASSUME NEW t \in Tasks, LookFails(t) \/ SendOverflows(t)  PROVE (AlertInv /\ MetInv)'
    <3>1. RollBack(t, "failed")
      BY <2>3 DEF LookFails, SendOverflows
    <3>2. \E w \in warned[t] : ~FitsColumn(w.usage) \/ HasTwo(w)
      BY <2>3, FailureHasCause
    <3>. QED
      BY <3>1, <3>2, RollBackInv
  <2>4. ASSUME NEW t \in Tasks, SendFails(t)  PROVE (AlertInv /\ MetInv)'
    <3>1. RollBack(t, "orphaned")
      BY <2>4 DEF SendFails
    <3>2. \E w \in warned[t] : Gone(w)
      BY <2>4, OrphanHasCause
    <3>. QED
      BY <3>1, <3>2, RollBackInv
  <2>5. ASSUME NEW t \in Tasks, Deadlock(t) \/ SessionFails(t)  PROVE (AlertInv /\ MetInv)'
    <3>1. RollBack(t, "aborted")
      BY <2>5 DEF Deadlock, SessionFails
    <3>. QED
      BY <3>1, RollBackInv
  <2>6. ASSUME NEW t \in Tasks, Commit(t)  PROVE (AlertInv /\ MetInv)'
    BY <2>6, CommitInv
  <2>7. ASSUME NEW b \in AdminBudgets, SetHard(b)  PROVE (AlertInv /\ MetInv)'
    BY <2>7, SetHardInv
  <2>8. ASSUME NEW b \in AdminBudgets, DeleteBudget(b)  PROVE (AlertInv /\ MetInv)'
    BY <2>8, DeleteBudgetInv
  <2>9. ASSUME UNCHANGED vars  PROVE (AlertInv /\ MetInv)'
    <3>1. Typed' /\ OneRowEach' /\ NoOrphanAlert' /\ InsertsAreHeld'
      BY <2>9 DEF vars, AlertInv, Typed, OneRowEach, NoOrphanAlert, InsertsAreHeld, HasRow
    <3>2. WarningsAreKept' /\ CommittedIsAlerted'
      BY <2>9 DEF vars, AlertInv, WarningsAreKept, CommittedIsAlerted, Writes, HasAlert, Gone
    <3>3. MetInv'
      BY <2>9 DEF vars, MetInv, WrittenWereWarned, OnlyRunningWrites, WarnedOnce, WrittenOnce,
         RunsMet, MeetsAnother, InsertsAreNew, FoundAreThere, OneUnresolvedAlert,
         FailureIsExplained, Writes, Unresolved, HasTwo, Gone
    <3>. QED
      BY <3>1, <3>2, <3>3 DEF AlertInv
  <2>. QED
    BY <2>1, <2>2, <2>3, <2>4, <2>5, <2>6, <2>7, <2>8, <2>9 DEF Next, Dispatch
<1>. QED
  BY <1>1, AlertsBegin, PTL DEF Spec

-----------------------------------------------------------------------------
\* No alert outlives its budget, even one written while the budget was deleted:
\* the foreign key holds the budget from the INSERT to the commit.
THEOREM AlertsTypeCorrect == Spec => []TypeOK
<1>1. AlertInv => TypeOK
  BY DEF AlertInv, Typed, TypeOK
<1>. QED
  BY <1>1, AlertsInvariant, PTL

\* A dispatch that committed left an alert for each of its warnings whose budget
\* is still there, whatever other dispatches and administrators did beside it.
THEOREM CommitsLeaveAlerts == Spec => []CommittedIsAlerted
BY AlertsInvariant, PTL DEF AlertInv

\* A budget has a second unresolved alert of a type only from two dispatches
\* that ran at the same time: however many run after them, none doubles it again.
THEOREM AlertsAreDoubledByMeeting == Spec => []OneUnresolvedAlert
BY AlertsInvariant, PTL DEF MetInv

\* Its session and deadlocks apart, a dispatch saves its alerts unless a
\* percentage does not fit its column, an alert is there twice, or a budget went.
THEOREM FailuresAreExplained == Spec => []FailureIsExplained
BY AlertsInvariant, PTL DEF MetInv
=============================================================================
