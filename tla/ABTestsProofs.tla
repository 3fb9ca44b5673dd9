---------------------------- MODULE ABTestsProofs ----------------------------
(***************************************************************************)
(* ABTests' invariants, for every set of tests and requests and however     *)
(* many handlers run at the same time.                                      *)
(***************************************************************************)
EXTENDS ABTests, FiniteSetTheorems, TLAPS

AtMostOne(S) == \A x, y \in S : x = y

Typed ==
  /\ status \in [Tests -> Statuses]
  /\ snapshot \in [Tests -> SUBSET Nat]
  /\ samples \in SUBSET Sample
  /\ shadows \in SUBSET [request : Requests, test : Tests]
  /\ redis \in SUBSET SUBSET Tests
  /\ stage \in [Requests -> Stages]
  /\ route \in [Requests -> SUBSET Tests]
  /\ target \in [Requests -> SUBSET Tests]
  /\ op \in [Admins -> SUBSET Op]
  /\ calm \in BOOLEAN
  /\ overtaken \in SUBSET Admins
  /\ doubted \in SUBSET Tests

\* What is a set of at most one.
Singles ==
  /\ \A entry \in redis : AtMostOne(entry)
  /\ \A q \in Requests : AtMostOne(route[q]) /\ AtMostOne(target[q])
  /\ \A a \in Admins : AtMostOne(op[a])

\* Only a request with a test is served for it, only one of a shadow test
\* starts a shadow call.
ServedForTest ==
  \A q \in Requests :
    /\ stage[q] \in {"served", "recording", "shadow"} => route[q] # {}
    /\ stage[q] = "shadow" => route[q] \subseteq Shadow

\* A request that has a sample will record no other.
SampledOnce ==
  /\ IsFiniteSet(samples)
  /\ \A s \in samples : stage[s.request] \in {"shadow", "done"}
  /\ \A s, u \in samples : s.request = u.request => s = u

\* A request that has a shadow pair has ended, and its route is the pair's test.
PairedOnce ==
  /\ IsFiniteSet(shadows)
  /\ \A s \in shadows :
       stage[s.request] = "done" /\ route[s.request] = {s.test} /\ s.test \in Shadow

RowsInv == Typed /\ Singles /\ ServedForTest /\ SampledOnce /\ PairedOnce

\* One handler of an administrator runs at a time.
EditsAlone == \A a, b \in Admins : ~Idle(a) /\ ~Idle(b) => a = b

\* What it decided on is still so: nothing else changes a status.
EditsExact ==
  \A a \in Admins : \A o \in op[a] :
    /\ o.loaded = status[o.test]
    /\ o.loaded = "none" => o.to = "active" /\ o.at # "decide" /\ Active = {}
    /\ o.at = "commit" /\ o.to = "active" /\ o.loaded # "active" => Active = {}

\* While handlers do not overlap, one test is active.
AdminInv ==
  calm => AtMostOne(Active) /\ EditsAlone /\ EditsExact

\* One handler runs at a time.
HandlersAlone ==
  \A q \in Requests : stage[q] \notin {"new", "done"} =>
    /\ \A r \in Requests : stage[r] \notin {"new", "done"} => r = q
    /\ \A a \in Admins : Idle(a)

\* A request that has its route works with the test that is active.
RoutedByActive ==
  \A q \in Requests :
    /\ stage[q] \in {"read", "routed", "served", "recording", "shadow"} => route[q] = Active
    /\ stage[q] = "recording" => target[q] = Active

\* The copy is of the active test, and there is none while a status changes.
CopyExact ==
  /\ \A entry \in redis : entry = Active
  /\ \A a \in Admins : \A o \in op[a] : o.at # "invalidate" => redis = {}

\* A count is of what there is, and only a completion counts.
CountsExact ==
  \A a \in Admins : \A o \in op[a] :
    /\ o.count # {} => /\ o.at = "commit" /\ o.to = "completed"
                       /\ o.count = {Cardinality(Counted(o.test))}
    /\ o.at = "commit" /\ o.to = "completed" /\ o.loaded # "completed" => o.count # {}

CalmInv ==
  /\ calm => HandlersAlone /\ RoutedByActive /\ CopyExact /\ CountsExact
  /\ SampleOfRoutedTest /\ SnapshotCountsAll
-----------------------------------------------------------------------------
\* What a query for the active test finds.
LEMMA FoundActive ==
  ASSUME NEW found \in FirstActive
  PROVE  /\ AtMostOne(found) /\ found \in SUBSET Tests
         /\ AtMostOne(Active) => found = Active
BY DEF FirstActive, AtMostOne, Active

\* A step of a request that takes it from one stage to another.
LEMMA StageMoves ==
  ASSUME RowsInv, NEW q \in Requests, NEW to \in Stages, stage' = [stage EXCEPT ![q] = to],
         UNCHANGED <<samples, shadows>>,
         stage[q] \in {"shadow", "done"} => to \in {"shadow", "done"},
         stage[q] # "done",
         \A r \in Requests : route'[r] # route[r] => stage[r] # "done",
         to = "done" \/ stage[q] # "shadow"
  PROVE  SampledOnce' /\ PairedOnce'
<1>1. /\ stage'[q] = to /\ \A r \in Requests \ {q} : stage'[r] = stage[r]
      /\ samples \in SUBSET Sample /\ shadows \in SUBSET [request : Requests, test : Tests]
  BY DEF RowsInv, Typed
<1>2. SampledOnce'
  <2>1. \A s \in samples : s.request \in Requests /\ stage'[s.request] \in {"shadow", "done"}
    BY <1>1 DEF RowsInv, SampledOnce, Sample
  <2>. QED
    BY <2>1 DEF RowsInv, SampledOnce
<1>3. PairedOnce'
  <2>1. \A s \in shadows : s.request \in Requests /\ s.request # q
    BY <1>1 DEF RowsInv, PairedOnce
  <2>. QED
    BY <1>1, <2>1 DEF RowsInv, PairedOnce
<1>. QED
  BY <1>2, <1>3

\* What a request does until it records keeps the rows' invariant.
LEMMA LookupHitRows ==
  ASSUME RowsInv, NEW q \in Requests, LookupHit(q)  PROVE RowsInv'
<1>1. PICK entry \in redis : route' = [route EXCEPT ![q] = entry]
  BY DEF LookupHit
<1>2. /\ stage[q] = "new" /\ stage' = [stage EXCEPT ![q] = "routed"]
      /\ UNCHANGED <<op, status, snapshot, overtaken, doubted, redis, target, samples, shadows>>
      /\ calm' \in BOOLEAN
  BY DEF LookupHit, adminVars, raceVars
<1>3. entry \in SUBSET Tests /\ AtMostOne(entry)
  BY DEF RowsInv, Typed, Singles
<1>4. Typed'
  BY <1>1, <1>2, <1>3 DEF RowsInv, Typed, Stages
<1>5. Singles'
  BY <1>1, <1>2, <1>3 DEF RowsInv, Typed, Singles
<1>6. ServedForTest'
  BY <1>1, <1>2 DEF RowsInv, Typed, ServedForTest
<1>7. \A r \in Requests : route'[r] # route[r] => r = q
  BY <1>1 DEF RowsInv, Typed
<1>8. SampledOnce' /\ PairedOnce'
  BY <1>2, <1>7, StageMoves DEF Stages
<1>. QED
  BY <1>4, <1>5, <1>6, <1>8 DEF RowsInv

LEMMA ReadActiveRows ==
  ASSUME RowsInv, NEW q \in Requests, ReadActive(q)  PROVE RowsInv'
<1>1. PICK found \in FirstActive : route' = [route EXCEPT ![q] = found]
  BY DEF ReadActive
<1>2. /\ stage[q] = "missed" /\ stage' = [stage EXCEPT ![q] = "read"]
      /\ UNCHANGED <<calm, op, status, snapshot, overtaken, doubted, redis, target, samples, shadows>>
  BY DEF ReadActive, adminVars, raceVars
<1>3. found \in SUBSET Tests /\ AtMostOne(found)
  BY FoundActive
<1>4. Typed'
  BY <1>1, <1>2, <1>3 DEF RowsInv, Typed, Stages
<1>5. Singles'
  BY <1>1, <1>2, <1>3 DEF RowsInv, Typed, Singles
<1>6. ServedForTest'
  BY <1>1, <1>2 DEF RowsInv, Typed, ServedForTest
<1>7. \A r \in Requests : route'[r] # route[r] => r = q
  BY <1>1 DEF RowsInv, Typed
<1>8. SampledOnce' /\ PairedOnce'
  BY <1>2, <1>7, StageMoves DEF Stages
<1>. QED
  BY <1>4, <1>5, <1>6, <1>8 DEF RowsInv

LEMMA RecordLookupRows ==
  ASSUME RowsInv, NEW q \in Requests, RecordLookup(q)  PROVE RowsInv'
<1>1. PICK found \in FirstActive :
        /\ target' = [target EXCEPT ![q] = found]
        /\ stage' = [stage EXCEPT ![q] = IF found = {} THEN AfterRecord(q) ELSE "recording"]
  BY DEF RecordLookup
<1>. DEFINE to == IF found = {} THEN AfterRecord(q) ELSE "recording"
<1>2. /\ stage[q] = "served" /\ stage' = [stage EXCEPT ![q] = to]
      /\ UNCHANGED <<calm, op, status, snapshot, overtaken, doubted, redis, route, samples, shadows>>
  BY <1>1 DEF RecordLookup, adminVars, raceVars
<1>3. found \in SUBSET Tests /\ AtMostOne(found)
  BY FoundActive
<1>4. /\ to \in {"recording", "shadow", "done"} /\ to \in Stages
      /\ to = "shadow" => route[q] \subseteq Shadow
  BY DEF AfterRecord, Stages
<1>. HIDE DEF to
<1>5. Typed'
  BY <1>1, <1>2, <1>3, <1>4 DEF RowsInv, Typed
<1>6. Singles'
  BY <1>1, <1>2, <1>3 DEF RowsInv, Typed, Singles
<1>7. ServedForTest'
  BY <1>2, <1>4 DEF RowsInv, Typed, ServedForTest
<1>8. SampledOnce' /\ PairedOnce'
  BY <1>2, <1>4, StageMoves
<1>. QED
  BY <1>5, <1>6, <1>7, <1>8 DEF RowsInv

\* The steps that change neither route nor target.
LEMMA StageRows ==
  ASSUME RowsInv, NEW q \in Requests,
         \/ LookupMiss(q) \/ CacheActive(q) \/ ServeOutside(q) \/ Serve(q) \/ DieRequest(q)
  PROVE  RowsInv'
<1>1. PICK to \in {"missed", "routed", "served", "done"} :
        /\ stage' = [stage EXCEPT ![q] = to]
        /\ to = "served" => route[q] # {}
        /\ stage[q] # "done" /\ (to = "done" \/ stage[q] \notin {"shadow", "done"})
        /\ UNCHANGED <<op, status, snapshot, overtaken, doubted, route, target, samples, shadows>>
        /\ calm' \in BOOLEAN
        /\ redis' = redis \/ redis' = {route[q]}
  <2>1. CASE LookupMiss(q)
    BY <2>1 DEF LookupMiss, adminVars, raceVars
  <2>2. CASE CacheActive(q)
    BY <2>2 DEF CacheActive, adminVars, raceVars
  <2>3. CASE ServeOutside(q)
    BY <2>3 DEF ServeOutside, adminVars, raceVars, RowsInv, Typed
  <2>4. CASE Serve(q)
    BY <2>4 DEF Serve, adminVars, raceVars, RowsInv, Typed
  <2>5. CASE DieRequest(q)
    BY <2>5 DEF DieRequest, adminVars, raceVars
  <2>. QED
    BY <2>1, <2>2, <2>3, <2>4, <2>5
<1>2. route[q] \in SUBSET Tests /\ AtMostOne(route[q])
  BY DEF RowsInv, Typed, Singles
<1>3. Typed'
  BY <1>1, <1>2 DEF RowsInv, Typed, Stages
<1>4. Singles'
  BY <1>1, <1>2 DEF RowsInv, Singles
<1>5. ServedForTest'
  BY <1>1 DEF RowsInv, Typed, ServedForTest
<1>6. SampledOnce' /\ PairedOnce'
  BY <1>1, StageMoves DEF Stages
<1>. QED
  BY <1>3, <1>4, <1>5, <1>6 DEF RowsInv

\* A set of at most one adds at most one row.
LEMMA OneMore ==
  ASSUME NEW S, IsFiniteSet(S), NEW A, AtMostOne(A)
  PROVE  IsFiniteSet(S \cup A)
<1>1. CASE A = {}
  <2>1. S \cup A = S
    BY <1>1
  <2>. QED
    BY <2>1
<1>2. CASE A # {}
  <2>1. PICK x \in A : TRUE
    BY <1>2
  <2>2. A = {x}
    BY <2>1 DEF AtMostOne
  <2>. QED
    BY <2>2, FS_AddElement
<1>. QED
  BY <1>1, <1>2

\* A request records one sample.
LEMMA RecordRows ==
  ASSUME RowsInv, NEW q \in Requests, Record(q)  PROVE RowsInv'
<1>. DEFINE new == {[request |-> q, test |-> t, routed |-> r] : t \in target[q], r \in route[q]}
            to == AfterRecord(q)
<1>1. /\ stage[q] = "recording" /\ stage' = [stage EXCEPT ![q] = to]
      /\ samples' = samples \cup new
      /\ UNCHANGED <<calm, op, status, snapshot, overtaken, doubted, redis, route, target, shadows>>
  BY DEF Record, adminVars, raceVars
<1>2. /\ route[q] \in SUBSET Tests /\ target[q] \in SUBSET Tests
      /\ AtMostOne(route[q]) /\ AtMostOne(target[q])
  BY DEF RowsInv, Typed, Singles
<1>3. new \in SUBSET Sample /\ \A s \in new : s.request = q
  BY <1>2 DEF Sample
<1>4. AtMostOne(new)
  BY <1>2 DEF AtMostOne
<1>5. to \in {"shadow", "done"} /\ to \in Stages /\ (to = "shadow" => route[q] \subseteq Shadow)
  BY DEF AfterRecord, Stages
<1>. HIDE DEF new, to
<1>6. Typed'
  BY <1>1, <1>3, <1>5 DEF RowsInv, Typed
<1>7. Singles'
  BY <1>1 DEF RowsInv, Singles
<1>8. ServedForTest'
  BY <1>1, <1>5 DEF RowsInv, Typed, ServedForTest
<1>9. stage'[q] = to /\ \A r \in Requests \ {q} : stage'[r] = stage[r]
  BY <1>1 DEF RowsInv, Typed
<1>10. \A s \in samples : s.request \in Requests \ {q} /\ stage[s.request] \in {"shadow", "done"}
  BY <1>1 DEF RowsInv, Typed, SampledOnce, Sample
<1>11. SampledOnce'
  <2>1. IsFiniteSet(samples')
    BY <1>1, <1>4, OneMore DEF RowsInv, SampledOnce
  <2>2. \A s \in samples' : stage'[s.request] \in {"shadow", "done"}
    BY <1>1, <1>3, <1>5, <1>9, <1>10
  <2>3. \A s, u \in samples' : s.request = u.request => s = u
    BY <1>1, <1>3, <1>4, <1>10 DEF RowsInv, SampledOnce, AtMostOne
  <2>. QED
    BY <2>1, <2>2, <2>3 DEF SampledOnce
<1>12. PairedOnce'
  <2>1. \A s \in shadows : s.request \in Requests \ {q}
    BY <1>1 DEF RowsInv, Typed, PairedOnce
  <2>. QED
    BY <1>1, <1>9, <2>1 DEF RowsInv, PairedOnce
<1>. QED
  BY <1>6, <1>7, <1>8, <1>11, <1>12 DEF RowsInv

\* A shadow call adds a pair of the test that routed the request.
LEMMA RunShadowRows ==
  ASSUME RowsInv, NEW q \in Requests, RunShadow(q)  PROVE RowsInv'
<1>. DEFINE new == {[request |-> q, test |-> t] : t \in route[q]}
<1>1. /\ stage[q] = "shadow" /\ stage' = [stage EXCEPT ![q] = "done"]
      /\ shadows' = shadows \cup new \/ shadows' = shadows
      /\ UNCHANGED <<calm, op, status, snapshot, overtaken, doubted, redis, route, target, samples>>
  BY DEF RunShadow, adminVars, raceVars
<1>2. route[q] \in SUBSET Tests /\ AtMostOne(route[q]) /\ route[q] \subseteq Shadow
  BY <1>1 DEF RowsInv, Typed, Singles, ServedForTest
<1>3. /\ new \in SUBSET [request : Requests, test : Tests]
      /\ \A s \in new : s.request = q /\ s.test \in route[q]
  BY <1>2
<1>4. AtMostOne(new)
  BY <1>2 DEF AtMostOne
<1>. HIDE DEF new
<1>5. Typed'
  BY <1>1, <1>3 DEF RowsInv, Typed, Stages
<1>6. Singles'
  BY <1>1 DEF RowsInv, Singles
<1>7. ServedForTest'
  BY <1>1 DEF RowsInv, Typed, ServedForTest
<1>8. stage'[q] = "done" /\ \A r \in Requests \ {q} : stage'[r] = stage[r]
  BY <1>1 DEF RowsInv, Typed
<1>9. SampledOnce'
  <2>1. \A s \in samples : s.request \in Requests
    BY DEF RowsInv, Typed, Sample
  <2>. QED
    BY <1>1, <1>8, <2>1 DEF RowsInv, SampledOnce
<1>10. PairedOnce'
  <2>1. IsFiniteSet(shadows')
    BY <1>1, <1>4, OneMore DEF RowsInv, PairedOnce
  <2>2. \A s \in shadows : s.request \in Requests
    BY DEF RowsInv, Typed
  <2>3. \A s \in new : route[q] = {s.test} /\ s.test \in Shadow
    BY <1>2, <1>3 DEF AtMostOne
  <2>. QED
    BY <1>1, <1>3, <1>8, <2>1, <2>2, <2>3 DEF RowsInv, PairedOnce
<1>. QED
  BY <1>5, <1>6, <1>7, <1>9, <1>10 DEF RowsInv

\* A count is a number.
LEMMA CountedIsNumber ==
  ASSUME RowsInv, NEW t
  PROVE  Cardinality(Counted(t)) \in Nat
<1>1. IsFiniteSet({s \in shadows : s.test = t}) /\ IsFiniteSet({s \in samples : s.test = t})
  BY FS_Subset DEF RowsInv, SampledOnce, PairedOnce
<1>2. IsFiniteSet(Counted(t))
  BY <1>1 DEF Counted
<1>. QED
  BY <1>2, FS_CardinalityType

\* Administrators keep the rows' invariant.
LEMMA AdminRows ==
  ASSUME RowsInv, NEW a \in Admins,
         \/ \E t \in Tests : Create(a, t) \/ Load(a, t)
         \/ HandleAdmin(a) \/ DieAdmin(a)
  PROVE  RowsInv'
<1>1. UNCHANGED <<stage, route, target, samples, shadows>>
  BY DEF Create, Load, HandleAdmin, DieAdmin, Invalidate, DecideResume, DecideComplete,
     DecideOther, Commit, requestVars
<1>2. redis' = redis \/ redis' = {}
  BY DEF Create, Load, HandleAdmin, DieAdmin, Invalidate, DecideResume, DecideComplete,
     DecideOther, Commit
<1>3. calm' \in BOOLEAN
  BY DEF RowsInv, Typed, Create, Load, HandleAdmin, DieAdmin, Invalidate, DecideResume,
     DecideComplete, DecideOther, Commit
<1>. DEFINE OneOp == \E new : op' = [op EXCEPT ![a] = new] /\ new \in SUBSET Op /\ AtMostOne(new)
<1>4. OneOp
  <2>1. ASSUME NEW x \in Op, op' = [op EXCEPT ![a] = {x}]  PROVE OneOp
    <3>1. {x} \in SUBSET Op /\ AtMostOne({x})
      BY DEF AtMostOne
    <3>. QED
      BY <2>1, <3>1
  <2>2. End(a) => OneOp
    BY DEF End, AtMostOne
  <2>. HIDE DEF OneOp
  <2>3. \A o \in op[a] : o \in Op
    BY DEF RowsInv, Typed
  <2>4. ASSUME NEW o \in op[a], NEW at \in {"invalidate", "decide", "commit"}, Goto(a, o, at)
        PROVE  OneOp
    <3>1. [o EXCEPT !.at = at] \in Op
      BY <2>3 DEF Op
    <3>. QED
      BY <2>1, <2>4, <3>1 DEF Goto
  <2>5. ASSUME NEW t \in Tests, NEW to \in Statuses \ {"none"}, Begin(a, t, to)  PROVE OneOp
    <3>1. status[t] \in Statuses
      BY DEF RowsInv, Typed
    <3>2. [at |-> "invalidate", test |-> t, loaded |-> status[t], to |-> to, count |-> {}] \in Op
      BY <3>1 DEF Op
    <3>. QED
      BY <2>1, <2>5, <3>2 DEF Begin
  <2>6. ASSUME DecideComplete(a)  PROVE OneOp
    <3>1. PICK o \in op[a] :
            op' = [op EXCEPT ![a] = {[o EXCEPT !.at = "commit",
                                              !.count = {Cardinality(Counted(o.test))}]}]
      BY <2>6 DEF DecideComplete
    <3>2. {Cardinality(Counted(o.test))} \in SUBSET Nat
      BY CountedIsNumber
    <3>3. [o EXCEPT !.at = "commit", !.count = {Cardinality(Counted(o.test))}] \in Op
      BY <2>3, <3>2 DEF Op
    <3>. QED
      BY <2>1, <3>1, <3>3
  <2>. QED
    BY <2>2, <2>4, <2>5, <2>6 DEF Create, Load, HandleAdmin, DieAdmin, Invalidate, DecideResume,
       DecideOther, Commit, Statuses
<1>5. status' \in [Tests -> Statuses] /\ snapshot' \in [Tests -> SUBSET Nat]
  <2>1. CASE Commit(a)
    <3>1. PICK o \in op[a] :
            /\ status' = [status EXCEPT ![o.test] = IF o.to = o.loaded THEN @ ELSE o.to]
            /\ snapshot' = [snapshot EXCEPT ![o.test] = IF o.count = {} THEN @ ELSE o.count]
      BY <2>1 DEF Commit
    <3>2. o.to \in Statuses /\ o.count \in SUBSET Nat /\ o.test \in Tests
      BY DEF RowsInv, Typed, Op
    <3>. QED
      BY <3>1, <3>2 DEF RowsInv, Typed
  <2>2. CASE ~Commit(a)
    <3>1. UNCHANGED <<status, snapshot>>
      BY <2>2 DEF Create, Load, HandleAdmin, DieAdmin, Invalidate, DecideResume, DecideComplete,
         DecideOther
    <3>. QED
      BY <3>1 DEF RowsInv, Typed
  <2>. QED
    BY <2>1, <2>2
<1>6. Typed'
  <2>1. overtaken' \in SUBSET Admins
    BY DEF RowsInv, Typed, Create, Load, HandleAdmin, DieAdmin, Invalidate, DecideResume,
       DecideComplete, DecideOther, Commit, Overtakes, raceVars
  <2>2. doubted' \in SUBSET Tests
    <3>1. CASE Commit(a)
      <4>1. PICK o \in op[a] :
              doubted' = IF Activates(o) /\ a \in overtaken THEN doubted \cup {o.test}
                         ELSE IF o.to # o.loaded THEN doubted \ {o.test} ELSE doubted
        BY <3>1 DEF Commit
      <4>2. o.test \in Tests
        BY DEF RowsInv, Typed, Op
      <4>. QED
        BY <4>1, <4>2 DEF RowsInv, Typed
    <3>2. CASE ~Commit(a)
      BY <3>2 DEF RowsInv, Typed, Create, Load, HandleAdmin, DieAdmin, Invalidate, DecideResume,
         DecideComplete, DecideOther, raceVars
    <3>. QED
      BY <3>1, <3>2
  <2>. QED
    BY <1>1, <1>2, <1>3, <1>4, <1>5, <2>1, <2>2 DEF RowsInv, Typed
<1>7. Singles'
  BY <1>1, <1>2, <1>4 DEF RowsInv, Typed, Singles
<1>. QED
  BY <1>1, <1>6, <1>7 DEF RowsInv, ServedForTest, SampledOnce, PairedOnce

LEMMA ExpireRows == RowsInv /\ Expire => RowsInv'
BY DEF Expire, requestVars, adminVars, raceVars, RowsInv, Typed, Singles, ServedForTest, SampledOnce,
   PairedOnce

\* The rows' invariant is inductive.
LEMMA RowsInvariant == Spec => []RowsInv
<1>1. Init => RowsInv
  BY FS_EmptySet DEF Init, RowsInv, Typed, Singles, ServedForTest, SampledOnce, PairedOnce,
     AtMostOne, Statuses, Stages
<1>2. RowsInv /\ [Next]_vars => RowsInv'
  <2>. SUFFICES ASSUME RowsInv, [Next]_vars  PROVE RowsInv'
    OBVIOUS
  <2>1. ASSUME NEW q \in Requests,
               LookupHit(q) \/ LookupMiss(q) \/ HandleRequest(q) \/ DieRequest(q)
        PROVE  RowsInv'
    BY <2>1, LookupHitRows, ReadActiveRows, RecordLookupRows, StageRows, RecordRows, RunShadowRows
    DEF HandleRequest
  <2>2. ASSUME NEW a \in Admins,
               \/ \E t \in Tests : Create(a, t) \/ Load(a, t)
               \/ HandleAdmin(a) \/ DieAdmin(a)
        PROVE  RowsInv'
    BY <2>2, AdminRows
  <2>3. CASE Expire
    BY <2>3, ExpireRows
  <2>4. CASE UNCHANGED vars
    BY <2>4 DEF vars, RowsInv, Typed, Singles, ServedForTest, SampledOnce, PairedOnce
  <2>. QED
    BY <2>1, <2>2, <2>3, <2>4 DEF Next
<1>. QED
  BY <1>1, <1>2, PTL DEF Spec

-----------------------------------------------------------------------------
\* Where nothing is busy, no handler runs.
LEMMA NothingRuns ==
  ASSUME Busy = {}
  PROVE  /\ \A q \in Requests : stage[q] \in {"new", "done"}
         /\ \A a \in Admins : Idle(a)
BY DEF Busy

\* A step of a request changes nothing administrators work with.
LEMMA RequestAdmin ==
  ASSUME AdminInv, UNCHANGED <<op, status>>, calm' => calm  PROVE AdminInv'
<1>1. Active' = Active
  BY DEF Active
<1>. QED
  BY <1>1 DEF AdminInv, EditsAlone, EditsExact, AtMostOne, Idle

\* A request that begins finds nothing running, and a copy of the active test.
LEMMA LookupCalm ==
  ASSUME RowsInv, AdminInv, CalmInv, NEW q \in Requests, LookupHit(q) \/ LookupMiss(q)
  PROVE  AdminInv' /\ CalmInv'
<1>1. /\ UNCHANGED <<op, status, snapshot, redis, target, samples, shadows>>
      /\ calm' => calm /\ Busy = {}
  BY DEF LookupHit, LookupMiss, adminVars, raceVars
<1>2. AdminInv'
  BY <1>1, RequestAdmin
<1>3. SampleOfRoutedTest' /\ SnapshotCountsAll'
  BY <1>1 DEF CalmInv, SampleOfRoutedTest, SnapshotCountsAll, Counted
<1>4. ASSUME calm'  PROVE (HandlersAlone /\ RoutedByActive /\ CopyExact /\ CountsExact)'
  <2>1. /\ \A r \in Requests : stage[r] \in {"new", "done"}
        /\ \A a \in Admins : Idle(a)
    BY <1>1, <1>4, NothingRuns
  <2>2. Active' = Active
    BY <1>1 DEF Active
  <2>3. /\ stage'[q] \in {"missed", "routed"}
        /\ \A r \in Requests \ {q} : stage'[r] = stage[r]
        /\ stage'[q] = "routed" => route'[q] \in redis
    BY DEF LookupHit, LookupMiss, RowsInv, Typed
  <2>4. \A entry \in redis : entry = Active
    BY <1>1, <1>4 DEF CalmInv, CopyExact
  <2>5. \A a \in Admins : Idle(a)'
    BY <1>1, <2>1 DEF Idle
  <2>6. HandlersAlone'
    BY <2>1, <2>3, <2>5 DEF HandlersAlone
  <2>7. RoutedByActive'
    BY <2>1, <2>2, <2>3, <2>4 DEF RoutedByActive
  <2>8. CopyExact' /\ CountsExact'
    BY <1>1, <2>2, <2>4, <2>5 DEF CopyExact, CountsExact, Idle
  <2>. QED
    BY <2>6, <2>7, <2>8
<1>. QED
  BY <1>2, <1>3, <1>4 DEF CalmInv

\* A request that is being handled runs alone, and is not overtaken by an edit.
LEMMA HandleCalm ==
  ASSUME RowsInv, AdminInv, CalmInv, NEW q \in Requests, HandleRequest(q)
  PROVE  AdminInv' /\ CalmInv'
<1>1. /\ UNCHANGED <<op, status, snapshot>> /\ (calm' => calm)
      /\ stage[q] \notin {"new", "done"}
      /\ \A r \in Requests \ {q} : /\ stage'[r] = stage[r] /\ route'[r] = route[r]
                                   /\ target'[r] = target[r]
      /\ stage'[q] # "new"
  BY DEF HandleRequest, ReadActive, CacheActive, ServeOutside, Serve, RecordLookup, Record,
     RunShadow, AfterRecord, adminVars, raceVars, RowsInv, Typed
<1>2. AdminInv'
  BY <1>1, RequestAdmin
<1>3. SUFFICES ASSUME calm'
               PROVE  /\ (HandlersAlone /\ RoutedByActive /\ CopyExact /\ CountsExact)'
                      /\ SampleOfRoutedTest' /\ SnapshotCountsAll'
  BY <1>2 DEF CalmInv, SampleOfRoutedTest, SnapshotCountsAll
<1>4. /\ calm /\ HandlersAlone /\ RoutedByActive /\ CopyExact /\ CountsExact
      /\ \A s \in samples : s.test = s.routed
      /\ \A t \in Tests : status[t] = "completed" => snapshot[t] = {Cardinality(Counted(t))}
  BY <1>1, <1>3 DEF CalmInv, SampleOfRoutedTest, SnapshotCountsAll
<1>5. AtMostOne(Active) /\ Active' = Active /\ \A a \in Admins : Idle(a)
  BY <1>1, <1>4 DEF AdminInv, Active, HandlersAlone
<1>6. \A a \in Admins : Idle(a)'
  BY <1>1, <1>5 DEF Idle
<1>7. HandlersAlone'
  BY <1>1, <1>4, <1>6 DEF HandlersAlone
<1>8. CountsExact'
  BY <1>6 DEF CountsExact, Idle
<1>9. RoutedByActive'
  <2>1. /\ stage'[q] \in {"read", "routed", "served", "recording", "shadow"} => route'[q] = Active
        /\ stage'[q] = "recording" => target'[q] = Active
    <3>1. CASE ReadActive(q)
      BY <1>5, <3>1, FoundActive DEF ReadActive, RowsInv, Typed
    <3>2. CASE CacheActive(q) \/ ServeOutside(q) \/ Serve(q) \/ RunShadow(q)
      BY <1>4, <3>2 DEF CacheActive, ServeOutside, Serve, RunShadow, RowsInv, Typed, RoutedByActive
    <3>3. CASE RecordLookup(q)
      BY <1>4, <1>5, <3>3, FoundActive DEF RecordLookup, AfterRecord, RowsInv, Typed, RoutedByActive
    <3>4. CASE Record(q)
      BY <1>4, <3>4 DEF Record, AfterRecord, RowsInv, Typed, RoutedByActive
    <3>. QED
      BY <3>1, <3>2, <3>3, <3>4 DEF HandleRequest
  <2>. QED
    BY <1>1, <1>4, <1>5, <2>1 DEF RoutedByActive
<1>10. CopyExact'
  <2>1. redis' = redis \/ (CacheActive(q) /\ redis' = {route[q]})
    <3>1. CASE CacheActive(q)
      BY <3>1 DEF CacheActive
    <3>2. CASE ReadActive(q) \/ ServeOutside(q) \/ Serve(q) \/ RecordLookup(q)
      BY <3>2 DEF ReadActive, ServeOutside, Serve, RecordLookup
    <3>3. CASE Record(q) \/ RunShadow(q)
      BY <3>3 DEF Record, RunShadow
    <3>. QED
      BY <3>1, <3>2, <3>3 DEF HandleRequest
  <2>2. CacheActive(q) => route[q] = Active
    BY <1>4 DEF CacheActive, RoutedByActive
  <2>. QED
    BY <1>4, <1>5, <1>6, <2>1, <2>2 DEF CopyExact, Idle
<1>11. SampleOfRoutedTest'
  <2>1. CASE Record(q)
    <3>1. route[q] = Active /\ target[q] = Active
      BY <1>4, <2>1 DEF Record, RoutedByActive
    <3>. QED
      BY <1>4, <1>5, <2>1, <3>1 DEF Record, SampleOfRoutedTest, AtMostOne
  <2>2. CASE ~Record(q)
    <3>1. samples' = samples
      BY <2>2 DEF HandleRequest, ReadActive, CacheActive, ServeOutside, Serve, RecordLookup, RunShadow
    <3>. QED
      BY <1>4, <3>1 DEF SampleOfRoutedTest
  <2>. QED
    BY <2>1, <2>2
<1>12. SnapshotCountsAll'
  <2>1. ASSUME NEW t \in Tests \ Active  PROVE Counted(t)' = Counted(t)
    <3>1. CASE Record(q)
      <4>1. target[q] = Active
        BY <1>4, <3>1 DEF Record, RoutedByActive
      <4>. DEFINE new == {[request |-> q, test |-> u, routed |-> r] :
                            u \in target[q], r \in route[q]}
      <4>2. samples' = samples \cup new /\ shadows' = shadows
        BY <3>1 DEF Record
      <4>3. \A s \in new : s.test # t
        BY <2>1, <4>1
      <4>. HIDE DEF new
      <4>. QED
        BY <4>2, <4>3 DEF Counted
    <3>2. CASE RunShadow(q)
      <4>1. route[q] = Active
        BY <1>4, <3>2 DEF RunShadow, RoutedByActive
      <4>. DEFINE new == {[request |-> q, test |-> u] : u \in route[q]}
      <4>2. samples' = samples /\ (shadows' = shadows \cup new \/ shadows' = shadows)
        BY <3>2 DEF RunShadow
      <4>3. \A s \in new : s.test # t
        BY <2>1, <4>1
      <4>. HIDE DEF new
      <4>. QED
        BY <4>2, <4>3 DEF Counted
    <3>3. CASE ~Record(q) /\ ~RunShadow(q)
      <4>1. UNCHANGED <<samples, shadows>>
        BY <3>3 DEF HandleRequest, ReadActive, CacheActive, ServeOutside, Serve, RecordLookup
      <4>. QED
        BY <4>1 DEF Counted
    <3>. QED
      BY <3>1, <3>2, <3>3
  <2>2. \A t \in Tests : status[t] = "completed" => t \notin Active
    BY DEF Active
  <2>. QED
    BY <1>1, <1>4, <2>1, <2>2 DEF SnapshotCountsAll
<1>. QED
  BY <1>7, <1>8, <1>9, <1>10, <1>11, <1>12

\* An administrator's handler that begins finds no other running.
LEMMA BeginInv ==
  ASSUME RowsInv, AdminInv, CalmInv, NEW a \in Admins, NEW t \in Tests,
         Create(a, t) \/ Load(a, t)
  PROVE  AdminInv' /\ CalmInv'
<1>1. PICK to \in Statuses \ {"none"} :
        /\ op' = [op EXCEPT ![a] = {[at |-> "invalidate", test |-> t, loaded |-> status[t],
                                     to |-> to, count |-> {}]}]
        /\ status[t] = "none" => to = "active" /\ Active = {}
  BY DEF Create, Load, Begin, Statuses
<1>. DEFINE o == [at |-> "invalidate", test |-> t, loaded |-> status[t], to |-> to, count |-> {}]
<1>2. /\ o.at = "invalidate" /\ o.test = t /\ o.loaded = status[t] /\ o.to = to /\ o.count = {}
      /\ op'[a] = {o} /\ \A b \in Admins \ {a} : op'[b] = op[b]
  BY <1>1 DEF RowsInv, Typed
<1>. HIDE DEF o
<1>3. /\ UNCHANGED <<stage, route, target, samples, shadows, redis, status, snapshot>>
      /\ (calm' => calm /\ Busy = {})
  BY DEF Create, Load, requestVars
<1>4. Active' = Active
  BY <1>3 DEF Active
<1>5. calm' => \A b \in Admins \ {a} : Idle(b)
  <2>1. Idle(a)
    BY DEF Create, Load
  <2>. QED
    BY <1>3, <2>1, NothingRuns
<1>6. AdminInv'
  <2>1. SUFFICES ASSUME calm'
                 PROVE  AtMostOne(Active') /\ EditsAlone' /\ EditsExact'
    BY DEF AdminInv
  <2>2. AtMostOne(Active) /\ \A b \in Admins \ {a} : op'[b] = {}
    BY <1>2, <1>3, <1>5, <2>1 DEF AdminInv, Idle
  <2>3. EditsAlone'
    BY <2>2 DEF EditsAlone, Idle
  <2>4. EditsExact'
    BY <1>1, <1>2, <1>3, <1>4, <2>2 DEF EditsExact
  <2>. QED
    BY <1>4, <2>2, <2>3, <2>4
<1>7. SampleOfRoutedTest' /\ SnapshotCountsAll'
  BY <1>3 DEF CalmInv, SampleOfRoutedTest, SnapshotCountsAll, Counted
<1>8. ASSUME calm'  PROVE (HandlersAlone /\ RoutedByActive /\ CopyExact /\ CountsExact)'
  <2>1. /\ \A q \in Requests : stage'[q] \in {"new", "done"}
        /\ \A b \in Admins \ {a} : op'[b] = {}
    BY <1>2, <1>3, <1>5, <1>8, NothingRuns DEF Idle
  <2>2. HandlersAlone' /\ RoutedByActive'
    BY <2>1 DEF HandlersAlone, RoutedByActive
  <2>3. CopyExact' /\ CountsExact'
    BY <1>2, <1>3, <1>4, <1>8, <2>1 DEF CalmInv, CopyExact, CountsExact
  <2>. QED
    BY <2>2, <2>3
<1>. QED
  BY <1>6, <1>7, <1>8 DEF CalmInv

\* What an operation is after a step that keeps the status of its test.
Follows(o, p) ==
  /\ p.at # "invalidate" /\ p.test = o.test /\ p.loaded = o.loaded /\ p.to = o.to
  /\ o.loaded = "none" => p.at = "commit"
  /\ calm' => redis' = {}
  /\ calm =>
       (p.at = "commit" /\ p.to = "active" /\ p.loaded # "active" => Active = {})
  /\ calm => /\ p.count # {} => /\ p.at = "commit" /\ p.to = "completed"
                                /\ p.count = {Cardinality(Counted(p.test))}
             /\ p.at = "commit" /\ p.to = "completed" /\ p.loaded # "completed" =>
                  p.count # {}

\* A step of an administrator's handler that moves its operation on, or ends it.
LEMMA EditMoves ==
  ASSUME RowsInv, AdminInv, CalmInv, NEW a \in Admins, NEW o \in op[a], NEW new,
         op' = [op EXCEPT ![a] = new],
         UNCHANGED <<stage, route, target, samples, shadows, status, snapshot>>,
         calm' => calm,
         redis' = redis \/ redis' = {},
         \A p \in new : Follows(o, p)
  PROVE  AdminInv' /\ CalmInv'
<1>1. op'[a] = new /\ \A b \in Admins \ {a} : op'[b] = op[b]
  BY DEF RowsInv, Typed
<1>2. Active' = Active /\ \A t : Counted(t)' = Counted(t)
  BY DEF Active, Counted
<1>3. AdminInv'
  <2>1. SUFFICES ASSUME calm'
                 PROVE  AtMostOne(Active') /\ EditsAlone' /\ EditsExact'
    BY DEF AdminInv
  <2>2. AtMostOne(Active) /\ EditsAlone /\ EditsExact
    BY <2>1 DEF AdminInv
  <2>3. \A b \in Admins \ {a} : op'[b] = {}
    BY <1>1, <2>2 DEF EditsAlone, Idle
  <2>4. EditsAlone'
    BY <2>3 DEF EditsAlone, Idle
  <2>5. EditsExact'
    BY <1>1, <1>2, <2>1, <2>2, <2>3 DEF EditsExact, Follows
  <2>. QED
    BY <1>2, <2>2, <2>4, <2>5
<1>4. SampleOfRoutedTest' /\ SnapshotCountsAll'
  BY <1>2 DEF CalmInv, SampleOfRoutedTest, SnapshotCountsAll
<1>5. ASSUME calm'  PROVE (HandlersAlone /\ RoutedByActive /\ CopyExact /\ CountsExact)'
  <2>1. HandlersAlone /\ RoutedByActive /\ CopyExact /\ EditsAlone
    BY <1>5 DEF CalmInv, AdminInv
  <2>2. /\ \A q \in Requests : stage'[q] \in {"new", "done"}
        /\ \A b \in Admins \ {a} : op'[b] = {}
    BY <1>1, <2>1 DEF HandlersAlone, EditsAlone, Idle
  <2>3. HandlersAlone' /\ RoutedByActive'
    BY <2>2 DEF HandlersAlone, RoutedByActive
  <2>4. CopyExact'
    BY <1>1, <1>2, <1>5, <2>1, <2>2 DEF CopyExact, Follows
  <2>5. CountsExact'
    BY <1>1, <1>2, <1>5, <2>2 DEF CountsExact, Follows
  <2>. QED
    BY <2>3, <2>4, <2>5
<1>. QED
  BY <1>3, <1>4, <1>5 DEF CalmInv

\* What an operation still knows when it is moved on.
LEMMA EditKnows ==
  ASSUME RowsInv, AdminInv, CalmInv, NEW a \in Admins, NEW o \in op[a]
  PROVE  /\ o \in Op
         /\ calm => /\ o.loaded = status[o.test]
                    /\ o.loaded = "none" =>
                         o.to = "active" /\ o.at # "decide" /\ Active = {}
         /\ calm => /\ o.at # "invalidate" => redis = {}
                    /\ o.at # "commit" => o.count = {}
  BY DEF RowsInv, Typed, AdminInv, EditsExact, CalmInv, CopyExact, CountsExact

LEMMA InvalidateInv ==
  ASSUME RowsInv, AdminInv, CalmInv, NEW a \in Admins, Invalidate(a)
  PROVE  AdminInv' /\ CalmInv'
<1>1. PICK o \in op[a] :
        /\ o.at = "invalidate"
        /\ Goto(a, o, IF o.loaded = "none" THEN "commit" ELSE "decide")
  BY DEF Invalidate
<1>. DEFINE at == IF o.loaded = "none" THEN "commit" ELSE "decide"
            p == [o EXCEPT !.at = at]
<1>2. /\ UNCHANGED <<stage, route, target, samples, shadows, status, snapshot>>
      /\ (calm' => calm /\ redis' = {}) /\ (redis' = redis \/ redis' = {})
  BY DEF Invalidate, requestVars
<1>3. op' = [op EXCEPT ![a] = {p}]
  BY <1>1 DEF Goto
<1>4. /\ o \in Op
      /\ calm => (o.loaded = "none" => o.to = "active" /\ Active = {})
      /\ calm => o.count = {}
  BY <1>1, EditKnows
<1>5. /\ p.at = at /\ p.test = o.test /\ p.loaded = o.loaded /\ p.to = o.to
      /\ p.count = o.count
  BY <1>4 DEF Op
<1>. HIDE DEF p
<1>6. /\ p.at # "invalidate" /\ (o.loaded = "none" => p.at = "commit")
      /\ calm =>
           (p.at = "commit" /\ p.to = "active" /\ p.loaded # "active" => Active = {})
      /\ calm => /\ p.count = {}
                 /\ ~(p.at = "commit" /\ p.to = "completed" /\ p.loaded # "completed")
  BY <1>4, <1>5
<1>7. Follows(o, p)
  BY <1>2, <1>5, <1>6 DEF Follows
<1>. PICK new : new = {p}
  OBVIOUS
<1>8. op' = [op EXCEPT ![a] = new] /\ \A x \in new : Follows(o, x)
  BY <1>3, <1>7
<1>9. calm' => calm
  BY <1>2
<1>10. redis' = redis \/ redis' = {}
  BY <1>2
<1>11. UNCHANGED <<stage, route, target, samples, shadows, status, snapshot>>
  BY <1>2
<1>. QED
  BY <1>8, <1>9, <1>10, <1>11, EditMoves, Zenon

LEMMA DecideResumeInv ==
  ASSUME RowsInv, AdminInv, CalmInv, NEW a \in Admins, DecideResume(a)
  PROVE  AdminInv' /\ CalmInv'
<1>1. PICK o \in op[a] :
        /\ o.at = "decide" /\ o.to = "active" /\ o.loaded # "active"
        /\ IF Active \ {o.test} # {} THEN End(a) ELSE Goto(a, o, "commit")
  BY DEF DecideResume
<1>. DEFINE p == [o EXCEPT !.at = "commit"]
<1>2. /\ UNCHANGED <<stage, route, target, samples, shadows, status, snapshot, calm, redis>>
  BY DEF DecideResume, requestVars
<1>3. /\ o \in Op
      /\ calm => o.loaded = status[o.test]
      /\ calm => redis = {} /\ o.count = {}
  BY <1>1, EditKnows
<1>4. /\ p.at = "commit" /\ p.test = o.test /\ p.loaded = o.loaded /\ p.to = o.to
      /\ p.count = o.count
  BY <1>3 DEF Op
<1>. HIDE DEF p
<1>5. CASE Active \ {o.test} # {}
  <2>1. op' = [op EXCEPT ![a] = {}]
    BY <1>1, <1>5 DEF End
  <2>. QED
    BY <1>2, <2>1, EditMoves
<1>6. CASE Active \ {o.test} = {}
  <2>1. op' = [op EXCEPT ![a] = {p}]
    BY <1>1, <1>6 DEF Goto, p
  <2>2. calm => Active = {}
    BY <1>1, <1>3, <1>6 DEF Active
  <2>3. Follows(o, p)
    BY <1>1, <1>2, <1>3, <1>4, <2>2 DEF Follows
  <2>4. \A x \in {p} : Follows(o, x)
    BY <2>3
  <2>. QED
    BY <1>2, <2>1, <2>4, EditMoves
<1>. QED
  BY <1>5, <1>6

LEMMA DecideCompleteInv ==
  ASSUME RowsInv, AdminInv, CalmInv, NEW a \in Admins, DecideComplete(a)
  PROVE  AdminInv' /\ CalmInv'
<1>1. PICK o \in op[a] :
        /\ o.at = "decide" /\ o.to = "completed" /\ o.loaded # "completed"
        /\ op' = [op EXCEPT ![a] = {[o EXCEPT !.at = "commit",
                                              !.count = {Cardinality(Counted(o.test))}]}]
  BY DEF DecideComplete
<1>. DEFINE p == [o EXCEPT !.at = "commit", !.count = {Cardinality(Counted(o.test))}]
<1>2. /\ UNCHANGED <<stage, route, target, samples, shadows, status, snapshot, calm, redis>>
  BY DEF DecideComplete, requestVars
<1>3. o \in Op /\ (calm => redis = {})
  BY <1>1, EditKnows
<1>4. /\ p.at = "commit" /\ p.test = o.test /\ p.loaded = o.loaded /\ p.to = o.to
      /\ p.count = {Cardinality(Counted(p.test))}
  BY <1>3 DEF Op
<1>5. op' = [op EXCEPT ![a] = {p}]
  BY <1>1
<1>. HIDE DEF p
<1>6. Follows(o, p)
  BY <1>1, <1>2, <1>3, <1>4 DEF Follows
<1>7. \A x \in {p} : Follows(o, x)
  BY <1>6
<1>. QED
  BY <1>2, <1>5, <1>7, EditMoves

LEMMA DecideOtherInv ==
  ASSUME RowsInv, AdminInv, CalmInv, NEW a \in Admins, DecideOther(a)
  PROVE  AdminInv' /\ CalmInv'
<1>1. PICK o \in op[a] :
        o.at = "decide" /\ (o.to = "paused" \/ o.to = o.loaded) /\ Goto(a, o, "commit")
  BY DEF DecideOther
<1>. DEFINE p == [o EXCEPT !.at = "commit"]
<1>2. /\ UNCHANGED <<stage, route, target, samples, shadows, status, snapshot, calm, redis>>
  BY DEF DecideOther, requestVars
<1>3. o \in Op /\ (calm => redis = {} /\ o.count = {})
  BY <1>1, EditKnows
<1>4. /\ p.at = "commit" /\ p.test = o.test /\ p.loaded = o.loaded /\ p.to = o.to
      /\ p.count = o.count
  BY <1>3 DEF Op
<1>5. op' = [op EXCEPT ![a] = {p}]
  BY <1>1 DEF Goto
<1>. HIDE DEF p
<1>6. Follows(o, p)
  BY <1>1, <1>2, <1>3, <1>4 DEF Follows
<1>7. \A x \in {p} : Follows(o, x)
  BY <1>6
<1>. QED
  BY <1>2, <1>5, <1>7, EditMoves

LEMMA DieInv ==
  ASSUME RowsInv, AdminInv, CalmInv,
         \/ \E q \in Requests : DieRequest(q)
         \/ \E a \in Admins : DieAdmin(a)
  PROVE  AdminInv' /\ CalmInv'
<1>1. calm' = FALSE
  BY DEF DieRequest, DieAdmin
<1>2. CalmInv'
  BY <1>1 DEF CalmInv, SampleOfRoutedTest, SnapshotCountsAll
<1>3. /\ \A b \in Admins : op'[b] \subseteq op[b]
      /\ status' = status
  BY DEF DieRequest, DieAdmin, End, adminVars, raceVars, RowsInv, Typed
<1>4. Active' = Active
  BY <1>3 DEF Active
<1>5. AdminInv'
  BY <1>1, <1>3, <1>4 DEF AdminInv, EditsAlone, EditsExact, Idle
<1>. QED
  BY <1>2, <1>5

LEMMA ExpireInv == AdminInv /\ CalmInv /\ Expire => AdminInv' /\ CalmInv'
<1>. SUFFICES ASSUME AdminInv, CalmInv, Expire  PROVE AdminInv' /\ CalmInv'
  OBVIOUS
<1>1. /\ UNCHANGED <<stage, route, target, samples, shadows, op, status, snapshot, calm>>
      /\ redis' = {}
  BY DEF Expire, requestVars, adminVars, raceVars
<1>2. AdminInv'
  BY <1>1, RequestAdmin
<1>3. Active' = Active /\ \A t : Counted(t)' = Counted(t)
  BY <1>1 DEF Active, Counted
<1>4. CalmInv'
  BY <1>1, <1>3 DEF CalmInv, HandlersAlone, RoutedByActive, CopyExact, CountsExact,
     SampleOfRoutedTest, SnapshotCountsAll, Idle
<1>. QED
  BY <1>2, <1>4

\* A commit makes active a test beside which none is, and completes one with
\* all its samples counted.
LEMMA CommitInv ==
  ASSUME RowsInv, AdminInv, CalmInv, NEW a \in Admins, Commit(a)
  PROVE  AdminInv' /\ CalmInv'
<1>1. PICK o \in op[a] :
        /\ o.at = "commit"
        /\ status' = [status EXCEPT ![o.test] = IF o.to = o.loaded THEN @ ELSE o.to]
        /\ snapshot' = [snapshot EXCEPT ![o.test] = IF o.count = {} THEN @ ELSE o.count]
  BY DEF Commit
<1>2. /\ UNCHANGED <<stage, route, target, samples, shadows, redis, calm>>
      /\ op'[a] = {} /\ \A b \in Admins \ {a} : op'[b] = op[b]
  BY DEF Commit, End, requestVars, RowsInv, Typed
<1>3. o \in Op /\ o.test \in Tests
  BY EditKnows DEF Op
<1>4. /\ status'[o.test] = (IF o.to = o.loaded THEN status[o.test] ELSE o.to)
      /\ snapshot'[o.test] = (IF o.count = {} THEN snapshot[o.test] ELSE o.count)
      /\ \A t \in Tests \ {o.test} : status'[t] = status[t] /\ snapshot'[t] = snapshot[t]
  BY <1>1, <1>3 DEF RowsInv, Typed
<1>5. \A t : Counted(t)' = Counted(t)
  BY <1>2 DEF Counted
<1>6. calm => /\ AtMostOne(Active) /\ \A b \in Admins : op'[b] = {}
              /\ o.loaded = status[o.test]
              /\ o.to = "active" /\ o.loaded # "active" => Active = {}
  BY <1>1, <1>2 DEF AdminInv, EditsAlone, EditsExact, Idle
<1>7. AdminInv'
  <2>1. SUFFICES ASSUME calm  PROVE AtMostOne(Active') /\ EditsAlone' /\ EditsExact'
    BY <1>2 DEF AdminInv
  <2>2. EditsAlone' /\ EditsExact'
    BY <1>6, <2>1 DEF EditsAlone, EditsExact, Idle
  <2>3. CASE o.to = "active" /\ o.loaded # "active"
    <3>1. Active = {}
      BY <1>6, <2>1, <2>3
    <3>2. Active' \subseteq {o.test}
      BY <1>4, <3>1 DEF Active
    <3>. QED
      BY <2>2, <3>2 DEF AtMostOne
  <2>4. CASE ~(o.to = "active" /\ o.loaded # "active")
    <3>1. Active' \subseteq Active
      BY <1>3, <1>4, <1>6, <2>1, <2>4 DEF Active
    <3>. QED
      BY <1>6, <2>1, <2>2, <3>1 DEF AtMostOne
  <2>. QED
    BY <2>3, <2>4
<1>8. SampleOfRoutedTest'
  BY <1>2 DEF CalmInv, SampleOfRoutedTest
<1>9. SnapshotCountsAll'
  <2>1. SUFFICES ASSUME calm, NEW t \in Tests, status'[t] = "completed"
                 PROVE  snapshot'[t] = {Cardinality(Counted(t))}
    BY <1>2, <1>5 DEF SnapshotCountsAll
  <2>2. \A u \in Tests : status[u] = "completed" => snapshot[u] = {Cardinality(Counted(u))}
    BY <2>1 DEF CalmInv, SnapshotCountsAll
  <2>3. /\ o.count # {} => o.count = {Cardinality(Counted(o.test))}
        /\ o.to = "completed" /\ o.loaded # "completed" => o.count # {}
    BY <1>1, <2>1 DEF CalmInv, CountsExact
  <2>4. CASE t # o.test
    BY <1>4, <2>1, <2>2, <2>4
  <2>5. CASE t = o.test /\ o.count # {}
    BY <1>4, <2>3, <2>5
  <2>6. CASE t = o.test /\ o.count = {}
    <3>1. status[t] = "completed"
      BY <1>4, <1>6, <2>1, <2>3, <2>6
    <3>. QED
      BY <1>4, <2>2, <2>6, <3>1
  <2>. QED
    BY <2>4, <2>5, <2>6
<1>10. ASSUME calm  PROVE (HandlersAlone /\ RoutedByActive /\ CopyExact /\ CountsExact)'
  <2>1. redis = {}
    BY <1>1, <1>10 DEF CalmInv, CopyExact
  <2>2. \A q \in Requests : stage'[q] \in {"new", "done"}
    BY <1>2, <1>10 DEF CalmInv, HandlersAlone, Idle
  <2>3. \A b \in Admins : op'[b] = {}
    BY <1>6, <1>10
  <2>4. HandlersAlone' /\ RoutedByActive'
    BY <2>2 DEF HandlersAlone, RoutedByActive
  <2>5. CopyExact' /\ CountsExact'
    BY <1>2, <2>1, <2>3 DEF CopyExact, CountsExact
  <2>. QED
    BY <2>4, <2>5
<1>. QED
  BY <1>2, <1>7, <1>8, <1>9, <1>10 DEF CalmInv

\* The invariants are inductive, the two of administrators and of calm together.
LEMMA ABInvariant == Spec => [](RowsInv /\ AdminInv /\ CalmInv)
<1>1. Init => AdminInv /\ CalmInv
  BY DEF Init, AdminInv, EditsAlone, EditsExact, CalmInv, HandlersAlone, RoutedByActive, CopyExact,
     CountsExact, SampleOfRoutedTest, SnapshotCountsAll, Active, AtMostOne, Idle
<1>2. RowsInv /\ AdminInv /\ CalmInv /\ [Next]_vars => (AdminInv /\ CalmInv)'
  <2>. SUFFICES ASSUME RowsInv, AdminInv, CalmInv, [Next]_vars  PROVE (AdminInv /\ CalmInv)'
    OBVIOUS
  <2>1. ASSUME NEW q \in Requests, LookupHit(q) \/ LookupMiss(q)  PROVE (AdminInv /\ CalmInv)'
    BY <2>1, LookupCalm
  <2>2. ASSUME NEW q \in Requests, HandleRequest(q)  PROVE (AdminInv /\ CalmInv)'
    BY <2>2, HandleCalm
  <2>3. ASSUME NEW a \in Admins, NEW t \in Tests, Create(a, t) \/ Load(a, t)
        PROVE  (AdminInv /\ CalmInv)'
    BY <2>3, BeginInv
  <2>4. ASSUME NEW a \in Admins, HandleAdmin(a)  PROVE (AdminInv /\ CalmInv)'
    BY <2>4, InvalidateInv, DecideResumeInv, DecideCompleteInv, DecideOtherInv, CommitInv
    DEF HandleAdmin
  <2>5. CASE (\E q \in Requests : DieRequest(q)) \/ (\E a \in Admins : DieAdmin(a))
    BY <2>5, DieInv
  <2>6. CASE Expire
    BY <2>6, ExpireInv
  <2>7. CASE UNCHANGED vars
    <3>1. /\ UNCHANGED <<status, snapshot, samples, shadows, redis, stage, route, target, op, calm>>
          /\ Active' = Active /\ \A t : Counted(t)' = Counted(t)
      BY <2>7 DEF vars, Active, Counted
    <3>2. AdminInv'
      BY <3>1, RequestAdmin
    <3>3. CalmInv'
      BY <3>1 DEF CalmInv, HandlersAlone, RoutedByActive, CopyExact, CountsExact,
         SampleOfRoutedTest, SnapshotCountsAll, Idle
    <3>. QED
      BY <3>2, <3>3
  <2>. QED
    BY <2>1, <2>2, <2>3, <2>4, <2>5, <2>6, <2>7 DEF Next
<1>. QED
  BY <1>1, <1>2, RowsInvariant, PTL DEF Spec

-----------------------------------------------------------------------------
\* A handler that has looked for an active test and was not overtaken finds none
\* but its own when it commits.
ChecksHold ==
  \A a \in Admins \ overtaken : \A o \in op[a] : Checked(o) => Active \subseteq {o.test}

RaceInv == ChecksHold /\ OneActiveTest

\* A step that changes no status keeps it, unless a handler checks: then none is
\* active but its own test.
LEMMA RaceMoves ==
  ASSUME RaceInv, NEW a \in Admins, status' = status, doubted' = doubted,
         overtaken' = overtaken \/ (overtaken' = overtaken \ {a} /\ op'[a] = {}),
         \A b \in Admins \ {a} : op'[b] = op[b],
         \A p \in op'[a] : Checked(p) =>
           \/ Active \subseteq {p.test}
           \/ \E o \in op[a] : Checked(o) /\ o.test = p.test
  PROVE  RaceInv'
<1>1. Active' = Active
  BY DEF Active
<1>2. OneActiveTest'
  BY <1>1 DEF RaceInv, OneActiveTest
<1>3. ChecksHold'
  <2>1. SUFFICES ASSUME NEW b \in Admins, b \notin overtaken', NEW p \in op'[b], Checked(p)
                 PROVE  Active \subseteq {p.test}
    BY <1>1 DEF ChecksHold, Checked, Activates
  <2>2. b \notin overtaken
    BY <2>1
  <2>. QED
    BY <2>1, <2>2 DEF RaceInv, ChecksHold
<1>. QED
  BY <1>2, <1>3 DEF RaceInv

\* Handlers that begin and go on keep it.
LEMMA EditRace ==
  ASSUME RowsInv, RaceInv, NEW a \in Admins,
         \/ \E t \in Tests : Create(a, t) \/ Load(a, t)
         \/ Invalidate(a) \/ DecideResume(a) \/ DecideComplete(a) \/ DecideOther(a) \/ DieAdmin(a)
  PROVE  RaceInv'
<1>. DEFINE Kept(p) == Checked(p) =>
                         \/ Active \subseteq {p.test}
                         \/ \E o \in op[a] : Checked(o) /\ o.test = p.test
<1>1. \A o \in op[a] : o \in Op
  BY DEF RowsInv, Typed
<1>2. /\ status' = status /\ doubted' = doubted
      /\ overtaken' = overtaken \/ (overtaken' = overtaken \ {a} /\ op'[a] = {})
      /\ \A b \in Admins \ {a} : op'[b] = op[b]
  BY DEF Create, Load, Invalidate, DecideResume, DecideComplete, DecideOther, DieAdmin, Begin,
     Goto, End, raceVars, RowsInv, Typed
<1>3. \A p \in op'[a] : Kept(p)
  <2>1. ASSUME NEW t \in Tests, Create(a, t) \/ Load(a, t)  PROVE \A p \in op'[a] : Kept(p)
    BY <2>1 DEF Create, Load, Begin, RowsInv, Typed, Checked
  <2>2. ASSUME NEW o \in op[a], NEW at \in {"decide", "commit"}, Goto(a, o, at),
               at = "commit" => \/ ~Activates(o) \/ o.loaded = "none"
                                \/ Active \subseteq {o.test}
        PROVE  \A p \in op'[a] : Kept(p)
    <3>1. op'[a] = {[o EXCEPT !.at = at]}
      BY <2>2 DEF Goto, RowsInv, Typed
    <3>2. PICK p : p = [o EXCEPT !.at = at]
      OBVIOUS
    <3>3. p.at = at /\ p.test = o.test /\ p.loaded = o.loaded /\ p.to = o.to
      BY <1>1, <3>2 DEF Op
    <3>4. Kept(p)
      BY <2>2, <3>3 DEF Checked, Activates
    <3>. QED
      BY <3>1, <3>2, <3>4
  <2>3. CASE Invalidate(a)
    <3>1. PICK o \in op[a] :
            Goto(a, o, IF o.loaded = "none" THEN "commit" ELSE "decide")
      BY <2>3 DEF Invalidate
    <3>. QED
      BY <2>2, <3>1
  <2>4. CASE DecideResume(a)
    <3>1. PICK o \in op[a] :
            IF Active \ {o.test} # {} THEN End(a) ELSE Goto(a, o, "commit")
      BY <2>4 DEF DecideResume
    <3>2. CASE Active \ {o.test} # {}
      BY <3>1, <3>2 DEF End, RowsInv, Typed
    <3>3. CASE Active \ {o.test} = {}
      <4>1. Active \subseteq {o.test}
        BY <3>3
      <4>2. Goto(a, o, "commit")
        BY <3>1, <3>3
      <4>. QED
        BY <2>2, <4>1, <4>2
    <3>. QED
      BY <3>2, <3>3
  <2>5. CASE DecideOther(a)
    <3>1. PICK o \in op[a] : (o.to = "paused" \/ o.to = o.loaded) /\ Goto(a, o, "commit")
      BY <2>5 DEF DecideOther
    <3>2. ~Activates(o)
      BY <3>1 DEF Activates
    <3>. QED
      BY <2>2, <3>1, <3>2
  <2>6. CASE DecideComplete(a)
    <3>1. PICK o \in op[a] :
            /\ o.to = "completed"
            /\ op' = [op EXCEPT ![a] = {[o EXCEPT !.at = "commit",
                                                 !.count = {Cardinality(Counted(o.test))}]}]
      BY <2>6 DEF DecideComplete
    <3>2. PICK p : p = [o EXCEPT !.at = "commit", !.count = {Cardinality(Counted(o.test))}]
      OBVIOUS
    <3>3. p.to = "completed"
      BY <1>1, <3>1, <3>2 DEF Op
    <3>4. op'[a] = {p}
      BY <3>1, <3>2 DEF RowsInv, Typed
    <3>. QED
      BY <3>3, <3>4 DEF Checked, Activates
  <2>7. CASE DieAdmin(a)
    BY <2>7 DEF DieAdmin, End, RowsInv, Typed
  <2>. QED
    BY <2>1, <2>3, <2>4, <2>5, <2>6, <2>7
<1>. QED
  BY <1>2, <1>3, RaceMoves

\* The commit of an activation leaves no other test active, or its own in doubt.
LEMMA CommitRace ==
  ASSUME RowsInv, RaceInv, NEW a \in Admins, Commit(a)
  PROVE  RaceInv'
<1>1. PICK o \in op[a] :
        /\ o.at = "commit"
        /\ status' = [status EXCEPT ![o.test] = IF o.to = o.loaded THEN @ ELSE o.to]
        /\ overtaken' =
             (overtaken \ {a}) \cup (IF Activates(o) THEN Overtakes(a, o.test) ELSE {})
        /\ doubted' = IF Activates(o) /\ a \in overtaken THEN doubted \cup {o.test}
                      ELSE IF o.to # o.loaded THEN doubted \ {o.test} ELSE doubted
  BY DEF Commit
<1>2. op'[a] = {} /\ \A b \in Admins \ {a} : op'[b] = op[b]
  BY DEF Commit, End, RowsInv, Typed
<1>3. o \in Op /\ o.test \in Tests
  BY DEF RowsInv, Typed, Op
<1>4. /\ status'[o.test] = (IF o.to = o.loaded THEN status[o.test] ELSE o.to)
      /\ \A t \in Tests \ {o.test} : status'[t] = status[t]
  BY <1>1, <1>3 DEF RowsInv, Typed
<1>5. CASE Activates(o)
  <2>1. Active' = Active \cup {o.test} /\ o.to # o.loaded
    BY <1>3, <1>4, <1>5 DEF Activates, Active
  <2>2. OneActiveTest'
    <3>1. CASE a \in overtaken
      BY <1>1, <1>5, <2>1, <3>1 DEF RaceInv, OneActiveTest
    <3>2. CASE a \notin overtaken
      <4>1. Active \subseteq {o.test}
        BY <1>1, <1>5, <3>2 DEF RaceInv, ChecksHold, Checked
      <4>. QED
        BY <2>1, <4>1 DEF OneActiveTest
    <3>. QED
      BY <3>1, <3>2
  <2>3. ChecksHold'
    <3>1. SUFFICES ASSUME NEW b \in Admins, b \notin overtaken', NEW p \in op'[b], Checked(p)
                   PROVE  Active' \subseteq {p.test}
      BY DEF ChecksHold, Checked, Activates
    <3>2. b # a /\ p \in op[b]
      BY <1>2, <3>1
    <3>3. b \notin overtaken /\ p.test = o.test
      BY <1>1, <1>5, <3>1, <3>2 DEF Overtakes
    <3>4. Active \subseteq {p.test}
      BY <3>1, <3>2, <3>3 DEF RaceInv, ChecksHold
    <3>. QED
      BY <2>1, <3>3, <3>4
  <2>. QED
    BY <2>2, <2>3 DEF RaceInv
<1>6. CASE ~Activates(o)
  <2>1. /\ Active' \subseteq Active
        /\ o.to # o.loaded => o.test \notin Active'
    BY <1>3, <1>4, <1>6 DEF Activates, Active
  <2>2. \A t \in Active' : t \in doubted => t \in doubted'
    BY <1>1, <1>6, <2>1
  <2>3. OneActiveTest'
    BY <2>1, <2>2 DEF RaceInv, OneActiveTest
  <2>4. ChecksHold'
    <3>1. SUFFICES ASSUME NEW b \in Admins, b \notin overtaken', NEW p \in op'[b], Checked(p)
                   PROVE  Active' \subseteq {p.test}
      BY DEF ChecksHold, Checked, Activates
    <3>2. b # a /\ p \in op[b] /\ b \notin overtaken
      BY <1>1, <1>2, <1>6, <3>1
    <3>. QED
      BY <2>1, <3>1, <3>2 DEF RaceInv, ChecksHold
  <2>. QED
    BY <2>3, <2>4 DEF RaceInv
<1>. QED
  BY <1>5, <1>6

\* Steps of requests and of Redis touch none of it.
LEMMA OtherRace ==
  ASSUME RaceInv, UNCHANGED <<op, status, overtaken, doubted>>
  PROVE  RaceInv'
<1>1. Active' = Active
  BY DEF Active
<1>. QED
  BY <1>1 DEF RaceInv, ChecksHold, OneActiveTest

\* Two tests are active only when one was made active between another handler's
\* look for an active test and its commit, however many administrators work at
\* the same time, whatever they ask for and whatever fails.
THEOREM TestsAreDoubledByOvertaking == Spec => []OneActiveTest
<1>1. Init => RaceInv
  BY DEF Init, RaceInv, ChecksHold, OneActiveTest, Active
<1>2. RowsInv /\ RaceInv /\ [Next]_vars => RaceInv'
  <2>. SUFFICES ASSUME RowsInv, RaceInv, [Next]_vars  PROVE RaceInv'
    OBVIOUS
  <2>1. ASSUME NEW q \in Requests,
               LookupHit(q) \/ LookupMiss(q) \/ HandleRequest(q) \/ DieRequest(q)
        PROVE  RaceInv'
    <3>1. UNCHANGED <<op, status, overtaken, doubted>>
      BY <2>1 DEF LookupHit, LookupMiss, HandleRequest, DieRequest, ReadActive, CacheActive,
         ServeOutside, Serve, RecordLookup, Record, RunShadow, adminVars, raceVars
    <3>. QED
      BY <3>1, OtherRace
  <2>2. ASSUME NEW a \in Admins,
               \/ \E t \in Tests : Create(a, t) \/ Load(a, t)
               \/ HandleAdmin(a) \/ DieAdmin(a)
        PROVE  RaceInv'
    BY <2>2, EditRace, CommitRace DEF HandleAdmin
  <2>3. CASE Expire
    <3>1. UNCHANGED <<op, status, overtaken, doubted>>
      BY <2>3 DEF Expire, adminVars, raceVars
    <3>. QED
      BY <3>1, OtherRace
  <2>4. CASE UNCHANGED vars
    <3>1. UNCHANGED <<op, status, overtaken, doubted>>
      BY <2>4 DEF vars
    <3>. QED
      BY <3>1, OtherRace
  <2>. QED
    BY <2>1, <2>2, <2>3, <2>4 DEF Next
<1>3. RaceInv => OneActiveTest
  BY DEF RaceInv
<1>. QED
  BY <1>1, <1>2, <1>3, RowsInvariant, PTL DEF Spec

-----------------------------------------------------------------------------
\* A set of at most one has at most one element.
LEMMA AtMostOneCounts ==
  ASSUME NEW S, AtMostOne(S)  PROVE Cardinality(S) <= 1
<1>1. CASE S = {}
  BY <1>1, FS_EmptySet
<1>2. CASE S # {}
  <2>1. PICK x \in S : TRUE
    BY <1>2
  <2>2. S = {x}
    BY <2>1 DEF AtMostOne
  <2>3. Cardinality({x}) = 1
    BY FS_Singleton
  <2>. QED
    BY <2>2, <2>3
<1>. QED
  BY <1>1, <1>2

\* A request gives one sample and one shadow pair, of the test that routed it,
\* however administrators change the tests beside it.
THEOREM RequestsSampleOnce == Spec => []OneSamplePerRequest
<1>1. RowsInv => OneSamplePerRequest
  <2>1. SUFFICES ASSUME RowsInv, NEW q \in Requests
                 PROVE  /\ Cardinality({s \in samples : s.request = q}) <= 1
                        /\ \A s \in shadows :
                             s.request = q => route[q] = {s.test} /\ s.test \in Shadow
    BY DEF OneSamplePerRequest
  <2>2. AtMostOne({s \in samples : s.request = q})
    BY <2>1 DEF RowsInv, SampledOnce, AtMostOne
  <2>3. \A s \in shadows : s.request = q => route[q] = {s.test} /\ s.test \in Shadow
    BY <2>1 DEF RowsInv, PairedOnce
  <2>. QED
    BY <2>2, <2>3, AtMostOneCounts
<1>. QED
  BY <1>1, RowsInvariant, PTL

\* The rows, the copy and the handlers keep their types, and a request gives one
\* sample, however many administrators work at the same time.
THEOREM TestsTypeCorrect == Spec => []TypeOK
<1>1. RowsInv /\ OneSamplePerRequest => TypeOK
  BY DEF RowsInv, Typed, TypeOK
<1>. QED
  BY <1>1, RowsInvariant, RequestsSampleOnce, PTL

\* While no handlers overlap and nothing fails, a test's samples are of requests
\* it routed, its summary counts them all, and the copy names the active test:
\* for any number of administrators and requests, one after the other.
THEOREM SummariesAreTrue == Spec => []SummaryIsTrue
<1>1. CalmInv => SummaryIsTrue
  BY DEF CalmInv, CopyExact, SummaryIsTrue, RoutesByActiveTest
<1>. QED
  BY <1>1, ABInvariant, PTL
=============================================================================
