------------------------ MODULE ResponseCacheProofs ------------------------
(***************************************************************************)
(* Theorems about ResponseCache, for any requests, prompts, organisations   *)
(* and distances between prompts.                                           *)
(***************************************************************************)
EXTENDS ResponseCache, FiniteSetTheorems, TLAPS

-----------------------------------------------------------------------------
(* Types. *)

\* Counting a hit keeps what a row was stored with.
LEMMA CountedKeepsRow ==
  ASSUME NEW row \in EmbeddingRow
  PROVE  /\ Counted(row) \in EmbeddingRow
         /\ Counted(row).org = row.org
         /\ Counted(row).prompt = row.prompt
         /\ Counted(row).by = row.by
BY DEF Counted, EmbeddingRow

\* Counting a hit leaves a FAQ a FAQ.
LEMMA CountedKeepsFaq ==
  ASSUME NEW faq \in Faq
  PROVE  Counted(faq) \in Faq
BY DEF Counted, Faq

\* The types hold initially.
LEMMA TypeInit == Init => TypeOK
BY DEF Init, TypeOK, Faq, Stages, Found

\* The steps of a lookup keep the types.
LEMMA LookupTypes ==
  ASSUME TypeOK, NEW r \in Requests,
         ExactHit(r) \/ ExactMiss(r) \/ Lookup(r)
  PROVE  TypeOK'
<1> USE DEF TypeOK
<1>1. CASE ExactHit(r)
  BY <1>1 DEF ExactHit, Find, Goto, Stages, Found, Entry
<1>2. CASE ExactMiss(r)
  BY <1>2 DEF ExactMiss, Goto, Stages
<1>3. CASE SemanticHit(r)
  BY <1>3 DEF SemanticHit, NearRows, Find, Goto, Stages, Found, EmbeddingRow
<1>4. CASE SemanticMiss(r)
  BY <1>4 DEF SemanticMiss, Goto, Stages
<1>5. CASE FaqHit(r)
  BY <1>5 DEF FaqHit, NearFaqs, Find, Goto, Stages, Found
<1>6. CASE FaqMiss(r)
  BY <1>6 DEF FaqMiss, Goto, Stages
<1>7. CASE CountHit(r)
  <2>1. rows' \subseteq EmbeddingRow
    BY <1>7, CountedKeepsRow DEF CountHit
  <2>2. faqs' \in [Faqs -> Faq]
    BY <1>7, CountedKeepsFaq DEF CountHit
  <2> QED BY <1>7, <2>1, <2>2 DEF CountHit, Goto, Stages
<1>8. CASE Answer(r)
  BY <1>8 DEF Answer, Goto, Stages
<1> QED BY <1>1, <1>2, <1>3, <1>4, <1>5, <1>6, <1>7, <1>8 DEF Lookup

\* The steps of a store task keep the types.
LEMMA StoreTypes ==
  ASSUME TypeOK, NEW r \in Requests, Store(r) \/ DieLookup(r) \/ DieStore(r)
  PROVE  TypeOK'
<1> USE DEF TypeOK
<1>1. CASE PutExact(r)
  <2>1. [org |-> RequestOrg[r], prompt |-> RequestPrompt[r], by |-> r] \in Entry
    BY CacheAssumption DEF Entry
  <2>2. exact' \subseteq Entry
    BY <1>1, <2>1 DEF PutExact
  <2> QED BY <1>1, <2>2 DEF PutExact
<1>2. CASE InsertRow(r)
  <2>1. NewRow(r) \in EmbeddingRow
    BY CacheAssumption DEF NewRow, EmbeddingRow
  <2> QED BY <1>2, <2>1 DEF InsertRow
<1>3. CASE DieLookup(r)
  BY <1>3 DEF DieLookup, Goto, Stages
<1>4. CASE DieStore(r)
  BY <1>4 DEF DieStore
<1> QED BY <1>1, <1>2, <1>3, <1>4 DEF Store

\* The steps of an administrator keep the types.
LEMMA AdminTypes ==
  ASSUME TypeOK, NEW a \in Admins,
         BeginDelete(a) \/ BeginFlush(a) \/ Administer(a) \/ DieAdmin(a)
  PROVE  TypeOK'
<1> USE DEF TypeOK
<1>1. CASE BeginDelete(a)
  BY <1>1 DEF BeginDelete, lookupVars, Op, EmbeddingRow
<1>2. CASE BeginFlush(a)
  <2>1. PICK org \in Orgs :
          op' = [op EXCEPT ![a] =
            {[org |-> org, keys |-> {row.prompt : row \in {w \in rows : w.org = org}},
              row |-> {}, flush |-> TRUE]}]
    BY <1>2 DEF BeginFlush
  <2>2. {row.prompt : row \in {w \in rows : w.org = org}} \subseteq Prompts
    BY DEF EmbeddingRow
  <2>3. [org |-> org, keys |-> {row.prompt : row \in {w \in rows : w.org = org}},
         row |-> {}, flush |-> TRUE] \in Op
    BY <2>2 DEF Op
  <2>4. op' \in [Admins -> SUBSET Op]
    BY <2>1, <2>3
  <2> QED BY <1>2, <2>4 DEF BeginFlush, lookupVars
<1>3. CASE DropKey(a)
  <2>1. PICK o \in op[a], p \in Prompts :
          op' = [op EXCEPT ![a] = {[o EXCEPT !.keys = @ \ {p}]}]
    <3>1. \A o \in op[a] : o.keys \subseteq Prompts
      BY DEF Op
    <3> QED BY <1>3, <3>1 DEF DropKey
  <2>2. o \in Op
    BY <2>1
  <2>3. [o EXCEPT !.keys = @ \ {p}] \in Op
    BY <2>2 DEF Op
  <2>5. op' \in [Admins -> SUBSET Op]
    BY <2>1, <2>3
  <2>4. exact' \subseteq exact
    BY <1>3 DEF DropKey
  <2>6. missed' \subseteq Requests
    <3>1. \A e \in exact : e.by \in Requests
      BY DEF Entry
    <3> QED BY <1>3, <3>1 DEF DropKey, EntriesAt
  <2> QED BY <1>3, <2>4, <2>5, <2>6 DEF DropKey, lookupVars
<1>4. CASE DropRows(a)
  BY <1>4 DEF DropRows, lookupVars
<1>5. CASE DieAdmin(a)
  BY <1>5 DEF DieAdmin, lookupVars
<1> QED BY <1>1, <1>2, <1>3, <1>4, <1>5 DEF Administer

\* The edits of FAQs keep the types.
LEMMA FaqTypes ==
  ASSUME TypeOK, NEW f \in Faqs, CreateFaq(f) \/ UpdateFaq(f) \/ DeleteFaq(f)
  PROVE  TypeOK'
<1> USE DEF TypeOK
<1>1. CASE CreateFaq(f)
  BY <1>1 DEF CreateFaq, lookupVars, Faq
<1>2. CASE UpdateFaq(f)
  <2>1. PICK q \in Prompts, s \in {"active", "inactive"} :
          faqs' = [faqs EXCEPT ![f] = [@ EXCEPT !.question = q, !.status = s]]
    BY <1>2 DEF UpdateFaq
  <2>2. [faqs[f] EXCEPT !.question = q, !.status = s] \in Faq
    BY DEF Faq
  <2>3. faqs' \in [Faqs -> Faq]
    BY <2>1, <2>2
  <2> QED BY <1>2, <2>3 DEF UpdateFaq, lookupVars
<1>3. CASE DeleteFaq(f)
  BY <1>3 DEF DeleteFaq, lookupVars, Faq
<1> QED BY <1>1, <1>2, <1>3

\* Every step keeps the types.
LEMMA TypeStep == TypeOK /\ [Next]_vars => TypeOK'
<1> SUFFICES ASSUME TypeOK, [Next]_vars PROVE TypeOK'
  OBVIOUS
<1>1. CASE UNCHANGED vars
  BY <1>1 DEF vars, TypeOK
<1>2. CASE \E k \in Keys : Expire(k)
  BY <1>2 DEF Expire, lookupVars, TypeOK
<1> QED BY <1>1, <1>2, LookupTypes, StoreTypes, AdminTypes, FaqTypes DEF Next

\* The cache keeps its types whatever interleaves.
THEOREM CacheTypeCorrect == Spec => []TypeOK
BY TypeInit, TypeStep, PTL DEF Spec

-----------------------------------------------------------------------------
(* What the cache holds. *)

\* An entry or a row is of the organisation and the prompt of the request it
\* answers, and no request with PII has one.
Fits(e) ==
  /\ e.org = RequestOrg[e.by]
  /\ e.prompt = RequestPrompt[e.by]
  /\ e.by \notin Personal

StoredFits == (\A e \in exact : Fits(e)) /\ (\A row \in rows : Fits(row))

\* No task stores an answer to a prompt with PII.
StoringFits == \A r \in Requests : Working(r) => r \notin Personal

FitsInv == TypeOK /\ StoringFits /\ StoredFits /\ ServedFits

\* Every step keeps that no answer to a prompt with PII is being stored.
LEMMA StoringFitsStep ==
  ASSUME TypeOK, StoringFits, [Next]_vars
  PROVE  StoringFits'
<1> SUFFICES ASSUME NEW q \in Requests, Working(q)' PROVE q \notin Personal
  BY DEF StoringFits
<1>1. CASE Working(q)
  BY <1>1 DEF StoringFits
<1>2. CASE ~Working(q)
  <2>1. CASE \E r \in Requests : Answer(r)
    BY <1>2, <2>1 DEF Answer, MayStore, Working, TypeOK
  <2>2. CASE \E r \in Requests : Store(r) \/ DieStore(r)
    BY <1>2, <2>2 DEF Store, PutExact, InsertRow, DieStore, Working, TypeOK
  <2>3. CASE storing' = storing
    BY <1>2, <2>3 DEF Working
  <2> QED BY <2>1, <2>2, <2>3 DEF Next, vars, lookupVars, ExactHit, ExactMiss,
        Lookup, SemanticHit, SemanticMiss, FaqHit, FaqMiss, CountHit, DieLookup,
        BeginDelete, BeginFlush, Administer, DropKey, DropRows, DieAdmin,
        CreateFaq, UpdateFaq, DeleteFaq, Expire
<1> QED BY <1>1, <1>2

\* What appears in the cache is put there by a store task for its own request.
LEMMA StoredFitsStep ==
  ASSUME TypeOK, StoringFits, StoredFits, [Next]_vars
  PROVE  StoredFits'
<1>1. \A e \in exact' : Fits(e)
  <2>1. CASE \E r \in Requests : PutExact(r)
    <3>1. PICK r \in Requests : PutExact(r)
      BY <2>1
    <3>2. r \notin Personal
      BY <3>1 DEF PutExact, StoringFits, Working
    <3>3. Fits([org |-> RequestOrg[r], prompt |-> RequestPrompt[r], by |-> r])
      BY <3>2 DEF Fits
    <3> QED BY <3>1, <3>3 DEF PutExact, StoredFits
  <2>2. CASE exact' \subseteq exact
    BY <2>2 DEF StoredFits
  <2> QED BY <2>1, <2>2 DEF Next, vars, lookupVars, ExactHit, ExactMiss,
        Lookup, SemanticHit, SemanticMiss, FaqHit, FaqMiss, CountHit, Answer,
        Store, InsertRow, DieLookup, DieStore, BeginDelete, BeginFlush,
        Administer, DropKey, DropRows, DieAdmin, CreateFaq, UpdateFaq,
        DeleteFaq, Expire
<1>2. \A row \in rows' : Fits(row)
  <2>1. CASE \E r \in Requests : InsertRow(r)
    BY <2>1 DEF InsertRow, NewRow, StoredFits, StoringFits, Working, Fits
  <2>2. CASE \E r \in Requests : CountHit(r)
    <3>1. ASSUME NEW new \in rows'
          PROVE  \E row \in rows : new = row \/ new = Counted(row)
      <4>1. PICK r \in Requests : CountHit(r)
        BY <2>2
      <4>2. rows' = {IF [source |-> "semantic", answer |-> row.by] \in found[r]
                     THEN Counted(row) ELSE row : row \in rows}
        BY <4>1 DEF CountHit
      <4> QED BY <3>1, <4>2
    <3>2. \A row \in rows : Fits(row) /\ Fits(Counted(row))
      BY CountedKeepsRow DEF TypeOK, StoredFits, Fits
    <3> QED BY <3>1, <3>2
  <2>3. CASE rows' \subseteq rows
    BY <2>3 DEF StoredFits
  <2> QED BY <2>1, <2>2, <2>3 DEF Next, vars, lookupVars, ExactHit, ExactMiss,
        Lookup, SemanticHit, SemanticMiss, FaqHit, FaqMiss, Answer,
        Store, PutExact, DieLookup, DieStore, BeginDelete, BeginFlush,
        Administer, DropKey, DropRows, DieAdmin, CreateFaq, UpdateFaq,
        DeleteFaq, Expire
<1> QED BY <1>1, <1>2 DEF StoredFits, Fits

\* What a lookup finds is taken from an entry or a row at that moment.
LEMMA ServedFitsStep ==
  ASSUME FitsInv, [Next]_vars
  PROVE  ServedFits'
<1> USE DEF FitsInv
<1>1. CASE \E r \in Requests : ExactHit(r)
  <2>1. PICK r \in Requests, e \in exact :
          KeyOf(e) = Key(r) /\ Find(r, "exact", e.by)
    BY <1>1 DEF ExactHit
  <2>2. /\ RequestOrg[e.by] = RequestOrg[r] /\ e.by \notin Personal
        /\ RequestPrompt[e.by] = RequestPrompt[r]
    BY <2>1 DEF KeyOf, Key, StoredFits, Fits
  <2> QED BY <2>1, <2>2 DEF Find, ServedFits, TypeOK
<1>2. CASE \E r \in Requests : SemanticHit(r)
  <2>0. PICK r \in Requests : SemanticHit(r)
    BY <1>2
  <2>1. PICK row \in NearRows(r) : Find(r, "semantic", row.by)
    BY <2>0 DEF SemanticHit
  <2>2. /\ RequestOrg[row.by] = RequestOrg[r] /\ row.by \notin Personal
        /\ RequestPrompt[row.by] \in Near[RequestPrompt[r]]
    BY <2>1 DEF NearRows, StoredFits, Fits
  <2> QED BY <2>1, <2>2 DEF Find, ServedFits, TypeOK
<1>3. CASE \E r \in Requests : FaqHit(r)
  BY <1>3 DEF FaqHit, Find, ServedFits, TypeOK
<1>4. CASE found' = found
  BY <1>4 DEF ServedFits
<1> QED BY <1>1, <1>2, <1>3, <1>4 DEF Next, vars, lookupVars, ExactMiss,
      Lookup, SemanticMiss, FaqMiss, CountHit, Answer, Store, PutExact,
      InsertRow, DieLookup, DieStore, BeginDelete, BeginFlush, Administer,
      DropKey, DropRows, DieAdmin, CreateFaq, UpdateFaq, DeleteFaq, Expire

\* Whatever is stored, removed, flushed or lost beside a lookup, it answers a
\* request only with an answer for a near prompt of the same organisation,
\* never with one given to a prompt with PII.
THEOREM CacheServesWhatFits == Spec => []ServedFits
<1>1. Init => FitsInv
  BY TypeInit DEF Init, FitsInv, StoringFits, StoredFits, ServedFits, Working
<1>2. FitsInv /\ [Next]_vars => FitsInv'
  BY TypeStep, StoringFitsStep, StoredFitsStep, ServedFitsStep DEF FitsInv
<1>3. FitsInv => ServedFits
  BY DEF FitsInv
<1> QED BY <1>1, <1>2, <1>3, PTL DEF Spec

-----------------------------------------------------------------------------
(* The counters of hits. *)

Counters == {"semantic", "faq"}

\* A request is stored once, after it was answered; a row is there, and found,
\* only when it was stored.
StoredOnce ==
  /\ \A r \in Requests : storing[r] # "none" => stage[r] = "answered"
  /\ \A row \in rows : storing[row.by] = "stored"
  /\ \A r, q \in Requests :
       [source |-> "semantic", answer |-> q] \in found[r] => storing[q] = "stored"

\* A FAQ is found only when it was created.
FoundExists ==
  \A r \in Requests, f \in Faqs :
    [source |-> "faq", answer |-> f] \in found[r] => faqs[f].status # "none"

HitsAreFinite == \A s \in Counters, x \in Requests \cup Faqs : IsFiniteSet(HitsOn(s, x))

CountInv == TypeOK /\ StoredOnce /\ FoundExists /\ HitsAreFinite /\ HitsAreCounted

\* A task stores an answer once, and only then can it be found.
LEMMA StoredOnceStep ==
  ASSUME TypeOK, StoredOnce, [Next]_vars
  PROVE  StoredOnce'
<1>1. ASSUME NEW r \in Requests, NEW to \in Stages \ {"answered"}, stage[r] # "answered",
             Goto(r, to), NEW F, found' = [found EXCEPT ![r] = F],
             \A q \in Requests : [source |-> "semantic", answer |-> q] \in F => storing[q] = "stored",
             \A row \in rows' : \E old \in rows : row.by = old.by,
             UNCHANGED storing
      PROVE  StoredOnce'
  BY <1>1 DEF TypeOK, StoredOnce, Goto
<1>2. ASSUME NEW r \in Requests, NEW to, storing[r] # "stored", to \in {"put", "insert", "lost"},
             storing' = [storing EXCEPT ![r] = to], stage'[r] = "answered",
             \A q \in Requests : q # r => stage'[q] = stage[q], UNCHANGED <<rows, found>>
      PROVE  StoredOnce'
  BY <1>2 DEF TypeOK, StoredOnce
<1>3. ASSUME NEW r \in Requests, ExactHit(r) PROVE StoredOnce'
  <2>1. PICK e \in exact : found' = [found EXCEPT ![r] = {[source |-> "exact", answer |-> e.by]}]
    BY <1>3 DEF ExactHit, Find
  <2>2. stage[r] # "answered" /\ Goto(r, "hit") /\ UNCHANGED <<rows, storing>>
    BY <1>3 DEF ExactHit
  <2> QED BY <1>1, <2>1, <2>2 DEF Stages
<1>4. ASSUME NEW r \in Requests, NEW to \in Stages \ {"answered"}, stage[r] # "answered",
             Goto(r, to), UNCHANGED <<found, storing>>,
             \A row \in rows' : \E old \in rows : row.by = old.by
      PROVE  StoredOnce'
  BY <1>4 DEF TypeOK, StoredOnce, Goto
<1>5. ASSUME NEW r \in Requests, SemanticHit(r) PROVE StoredOnce'
  <2>1. PICK row \in NearRows(r) : found' = [found EXCEPT ![r] = {[source |-> "semantic", answer |-> row.by]}]
    BY <1>5 DEF SemanticHit, Find
  <2>2. stage[r] # "answered" /\ Goto(r, "count") /\ UNCHANGED <<rows, storing>>
    BY <1>5 DEF SemanticHit
  <2>3. storing[row.by] = "stored"
    BY <2>1 DEF NearRows, StoredOnce
  <2> QED BY <1>1, <2>1, <2>2, <2>3 DEF Stages
<1>6. ASSUME NEW r \in Requests, FaqHit(r) PROVE StoredOnce'
  <2>1. PICK f \in Faqs : found' = [found EXCEPT ![r] = {[source |-> "faq", answer |-> f]}]
    BY <1>6 DEF FaqHit, Find, NearFaqs
  <2>2. stage[r] # "answered" /\ Goto(r, "count") /\ UNCHANGED <<rows, storing>>
    BY <1>6 DEF FaqHit
  <2> QED BY <1>1, <2>1, <2>2 DEF Stages
<1>7. ASSUME NEW r \in Requests, ExactMiss(r) \/ SemanticMiss(r) \/ FaqMiss(r) \/ DieLookup(r)
      PROVE  StoredOnce'
  <2>1. \E to \in Stages \ {"answered"} : Goto(r, to)
    BY <1>7 DEF ExactMiss, SemanticMiss, FaqMiss, DieLookup, Stages
  <2>2. stage[r] # "answered" /\ UNCHANGED <<rows, found, storing>>
    BY <1>7 DEF ExactMiss, SemanticMiss, FaqMiss, DieLookup, Looking
  <2> QED BY <1>4, <2>1, <2>2
<1>8. ASSUME NEW r \in Requests, CountHit(r) PROVE StoredOnce'
  <2>1. \A row \in rows' : \E old \in rows : row = old \/ row = Counted(old)
    BY <1>8 DEF CountHit
  <2>2. \A old \in rows : Counted(old).by = old.by
    BY CountedKeepsRow DEF TypeOK
  <2>3. stage[r] # "answered" /\ Goto(r, "hit") /\ UNCHANGED <<found, storing>>
    BY <1>8 DEF CountHit
  <2>4. \A row \in rows' : \E old \in rows : row.by = old.by
    BY <2>1, <2>2
  <2> QED BY <1>4, <2>3, <2>4 DEF Stages
<1>9. ASSUME NEW r \in Requests, Answer(r) PROVE StoredOnce'
  <2>1. storing[r] = "none"
    BY <1>9 DEF Answer, StoredOnce, TypeOK
  <2>2. stage'[r] = "answered" /\ \A q \in Requests : q # r => stage'[q] = stage[q]
    BY <1>9 DEF Answer, Goto, TypeOK
  <2>3. CASE storing' = [storing EXCEPT ![r] = "put"]
    BY <1>2, <1>9, <2>1, <2>2, <2>3 DEF Answer
  <2>4. CASE storing' = storing
    BY <1>9, <2>2, <2>4 DEF Answer, StoredOnce
  <2> QED BY <1>9, <2>3, <2>4 DEF Answer
<1>10. ASSUME NEW r \in Requests, PutExact(r) \/ DieStore(r) PROVE StoredOnce'
  <2>1. storing[r] \in {"put", "insert"} /\ stage[r] = "answered"
    BY <1>10 DEF PutExact, DieStore, Working, StoredOnce
  <2>2. UNCHANGED <<rows, stage, found>> /\ \E to \in {"insert", "lost"} : storing' = [storing EXCEPT ![r] = to]
    BY <1>10 DEF PutExact, DieStore
  <2> QED BY <1>2, <2>1, <2>2
<1>11. ASSUME NEW r \in Requests, InsertRow(r) PROVE StoredOnce'
  <2>1. storing' = [storing EXCEPT ![r] = "stored"] /\ stage[r] = "answered" /\ UNCHANGED <<stage, found>>
    BY <1>11 DEF InsertRow, StoredOnce
  <2>2. \A row \in rows' : row \in rows \/ row.by = r
    BY <1>11 DEF InsertRow, NewRow
  <2>3. storing'[r] = "stored" /\ \A q \in Requests : q # r => storing'[q] = storing[q]
    BY <2>1 DEF TypeOK
  <2>4. \A row \in rows : row.by \in Requests
    BY DEF TypeOK, EmbeddingRow
  <2> QED BY <2>1, <2>2, <2>3, <2>4 DEF StoredOnce
<1>12. ASSUME rows' \subseteq rows, UNCHANGED lookupVars PROVE StoredOnce'
  BY <1>12 DEF StoredOnce, lookupVars
<1> QED BY <1>3, <1>5, <1>6, <1>7, <1>8, <1>9, <1>10, <1>11, <1>12 DEF Next, vars, lookupVars,
          Lookup, Store, BeginDelete, BeginFlush, Administer, DropKey, DropRows, DieAdmin,
          CreateFaq, UpdateFaq, DeleteFaq, Expire

\* A FAQ that was found is never again one that was not created.
LEMMA FoundExistsStep ==
  ASSUME TypeOK, FoundExists, [Next]_vars
  PROVE  FoundExists'
<1>1. \A f \in Faqs : faqs[f].status # "none" => faqs'[f].status # "none"
  <2>1. CASE \E r \in Requests : CountHit(r)
    BY <2>1 DEF CountHit, Counted, TypeOK, Faq
  <2>2. CASE \E f \in Faqs : CreateFaq(f)
    BY <2>2 DEF CreateFaq, TypeOK
  <2>3. CASE \E f \in Faqs : UpdateFaq(f)
    <3>0. PICK g \in Faqs : UpdateFaq(g)
      BY <2>3
    <3>1. PICK q \in Prompts, s \in {"active", "inactive"} :
            faqs' = [faqs EXCEPT ![g] = [@ EXCEPT !.question = q, !.status = s]]
      BY <3>0 DEF UpdateFaq
    <3>2. [faqs[g] EXCEPT !.question = q, !.status = s].status = s
      BY DEF TypeOK, Faq
    <3> QED BY <3>1, <3>2 DEF TypeOK
  <2>4. CASE \E f \in Faqs : DeleteFaq(f)
    BY <2>4 DEF DeleteFaq, TypeOK, Faq
  <2>5. CASE faqs' = faqs
    BY <2>5
  <2> QED BY <2>1, <2>2, <2>3, <2>4, <2>5 DEF Next, vars, lookupVars, ExactHit, ExactMiss, Lookup,
            SemanticHit, SemanticMiss, FaqHit, FaqMiss, Answer, Store, PutExact, InsertRow,
            DieLookup, DieStore, BeginDelete, BeginFlush, Administer, DropKey, DropRows, DieAdmin,
            Expire
<1>2. ASSUME NEW r \in Requests, ExactHit(r) \/ SemanticHit(r) PROVE FoundExists'
  BY <1>1, <1>2 DEF ExactHit, SemanticHit, Find, FoundExists, TypeOK
<1>3. ASSUME NEW r \in Requests, FaqHit(r) PROVE FoundExists'
  <2>1. PICK f \in NearFaqs(r) : found' = [found EXCEPT ![r] = {[source |-> "faq", answer |-> f]}]
    BY <1>3 DEF FaqHit, Find
  <2>2. f \in Faqs /\ faqs[f].status # "none"
    BY <2>1 DEF NearFaqs
  <2> QED BY <1>1, <2>1, <2>2 DEF FoundExists, TypeOK
<1>4. CASE found' = found
  BY <1>1, <1>4 DEF FoundExists
<1> QED BY <1>2, <1>3, <1>4 DEF Next, vars, lookupVars, ExactMiss, Lookup, SemanticMiss, FaqMiss,
          CountHit, Answer, Store, PutExact, InsertRow, DieLookup, DieStore, BeginDelete,
          BeginFlush, Administer, DropKey, DropRows, DieAdmin, CreateFaq, UpdateFaq, DeleteFaq, Expire

\* Only CountHit adds a hit on a row or a FAQ, its own.
LEMMA HitsOnStep ==
  ASSUME TypeOK, [Next]_vars, NEW s \in Counters, NEW x
  PROVE  /\ ~(\E r \in Requests : CountHit(r)) => HitsOn(s, x)' = HitsOn(s, x)
         /\ \A r \in Requests : CountHit(r) =>
              /\ r \notin HitsOn(s, x)
              /\ HitsOn(s, x)' = IF [source |-> s, answer |-> x] \in found[r]
                                 THEN HitsOn(s, x) \cup {r} ELSE HitsOn(s, x)
<1>1. ASSUME NEW r \in Requests, CountHit(r)
      PROVE  /\ r \notin HitsOn(s, x)
             /\ HitsOn(s, x)' = IF [source |-> s, answer |-> x] \in found[r]
                                THEN HitsOn(s, x) \cup {r} ELSE HitsOn(s, x)
  <2>1. stage[r] = "count" /\ stage' = [stage EXCEPT ![r] = "hit"] /\ found' = found
    BY <1>1 DEF CountHit, Goto
  <2> QED BY <2>1 DEF HitsOn, TypeOK
<1>2. ASSUME NEW r \in Requests, stage[r] # "hit", NEW to \in Stages, to # "hit", Goto(r, to),
             \A q \in Requests : q # r => found'[q] = found[q]
      PROVE  HitsOn(s, x)' = HitsOn(s, x)
  BY <1>2 DEF HitsOn, TypeOK, Goto
<1>3. ASSUME NEW r \in Requests, ExactHit(r) PROVE HitsOn(s, x)' = HitsOn(s, x)
  <2>1. PICK e \in exact : found' = [found EXCEPT ![r] = {[source |-> "exact", answer |-> e.by]}]
    BY <1>3 DEF ExactHit, Find
  <2>2. stage[r] = "new" /\ stage' = [stage EXCEPT ![r] = "hit"]
    BY <1>3 DEF ExactHit, Goto
  <2>3. [source |-> s, answer |-> x] # [source |-> "exact", answer |-> e.by]
    BY DEF Counters
  <2> QED BY <2>1, <2>2, <2>3 DEF HitsOn, TypeOK
<1>4. ASSUME NEW r \in Requests,
             \/ ExactMiss(r) \/ SemanticHit(r) \/ SemanticMiss(r) \/ FaqHit(r) \/ FaqMiss(r)
             \/ Answer(r) \/ DieLookup(r)
      PROVE  HitsOn(s, x)' = HitsOn(s, x)
  <2>1. stage[r] # "hit" /\ \E to \in Stages : to # "hit" /\ Goto(r, to)
    BY <1>4 DEF ExactMiss, SemanticHit, SemanticMiss, FaqHit, FaqMiss, Answer, DieLookup, Looking,
       Stages
  <2>2. \A q \in Requests : q # r => found'[q] = found[q]
    BY <1>4 DEF ExactMiss, SemanticHit, SemanticMiss, FaqHit, FaqMiss, Answer, DieLookup, Find, TypeOK
  <2> QED BY <1>2, <2>1, <2>2
<1>5. ASSUME UNCHANGED <<stage, found>> PROVE HitsOn(s, x)' = HitsOn(s, x)
  BY <1>5 DEF HitsOn
<1> QED BY <1>1, <1>3, <1>4, <1>5 DEF Next, vars, lookupVars, Lookup, Store, PutExact, InsertRow,
          DieStore, BeginDelete, BeginFlush, Administer, DropKey, DropRows, DieAdmin,
          CreateFaq, UpdateFaq, DeleteFaq, Expire

\* A counter goes up with each hit, and with nothing else.
LEMMA CountStep ==
  ASSUME CountInv, [Next]_vars
  PROVE  HitsAreFinite' /\ HitsAreCounted'
<1>1. TypeOK /\ StoredOnce /\ FoundExists /\ HitsAreFinite /\ HitsAreCounted
  BY DEF CountInv
<1>2. CASE \E r \in Requests : CountHit(r)
  <2>1. PICK r \in Requests : CountHit(r)
    BY <1>2
  <2>2. ASSUME NEW s \in Counters, NEW x \in Requests \cup Faqs
        PROVE  /\ IsFiniteSet(HitsOn(s, x)')
               /\ Cardinality(HitsOn(s, x)') = Cardinality(HitsOn(s, x)) +
                    IF [source |-> s, answer |-> x] \in found[r] THEN 1 ELSE 0
    <3>1. PICK H, G : H = HitsOn(s, x) /\ G = HitsOn(s, x)'
      OBVIOUS
    <3>2. IsFiniteSet(H) /\ Cardinality(H) \in Nat
      BY <1>1, <3>1, FS_CardinalityType DEF HitsAreFinite
    <3>3. r \notin H /\ G = IF [source |-> s, answer |-> x] \in found[r] THEN H \cup {r} ELSE H
      BY <1>1, <2>1, <3>1, HitsOnStep
    <3>4. IsFiniteSet(H \cup {r}) /\ Cardinality(H \cup {r}) = Cardinality(H) + 1
      BY <3>2, <3>3, FS_AddElement
    <3> QED BY <3>1, <3>2, <3>3, <3>4
  <2>3. HitsAreFinite'
    BY <2>2 DEF HitsAreFinite
  <2>4. \A row \in rows' : row.hits = Cardinality(HitsOn("semantic", row.by)')
    <3>1. SUFFICES ASSUME NEW new \in rows' PROVE new.hits = Cardinality(HitsOn("semantic", new.by)')
      OBVIOUS
    <3>2. PICK row \in rows :
            new = IF [source |-> "semantic", answer |-> row.by] \in found[r] THEN Counted(row) ELSE row
      BY <2>1 DEF CountHit
    <3>3. row.by \in Requests /\ row.hits \in Nat /\ row.hits = Cardinality(HitsOn("semantic", row.by))
      BY <1>1 DEF TypeOK, EmbeddingRow, HitsAreCounted
    <3>4. Counted(row).by = row.by /\ Counted(row).hits = row.hits + 1
      BY <1>1 DEF Counted, TypeOK, EmbeddingRow
    <3>5. Cardinality(HitsOn("semantic", row.by)') = Cardinality(HitsOn("semantic", row.by)) +
            IF [source |-> "semantic", answer |-> row.by] \in found[r] THEN 1 ELSE 0
      BY <2>2, <3>3 DEF Counters
    <3> QED BY <3>2, <3>3, <3>4, <3>5
  <2>5. \A f \in Faqs : faqs'[f].hits = Cardinality(HitsOn("faq", f)')
    <3>1. SUFFICES ASSUME NEW f \in Faqs PROVE faqs'[f].hits = Cardinality(HitsOn("faq", f)')
      OBVIOUS
    <3>2. faqs'[f] = IF [source |-> "faq", answer |-> f] \in found[r] THEN Counted(faqs[f]) ELSE faqs[f]
      BY <2>1 DEF CountHit
    <3>3. faqs[f].hits \in Nat /\ faqs[f].hits = Cardinality(HitsOn("faq", f))
      BY <1>1 DEF TypeOK, Faq, HitsAreCounted
    <3>4. Counted(faqs[f]).hits = faqs[f].hits + 1
      BY <1>1 DEF Counted, TypeOK, Faq
    <3>5. Cardinality(HitsOn("faq", f)') = Cardinality(HitsOn("faq", f)) +
            IF [source |-> "faq", answer |-> f] \in found[r] THEN 1 ELSE 0
      BY <2>2 DEF Counters
    <3> QED BY <3>2, <3>3, <3>4, <3>5
  <2> QED BY <2>3, <2>4, <2>5 DEF HitsAreCounted
<1>3. CASE ~ \E r \in Requests : CountHit(r)
  <2>1. \A s \in Counters : \A x : HitsOn(s, x)' = HitsOn(s, x)
    BY <1>1, <1>3, HitsOnStep
  <2>2. HitsAreFinite'
    BY <1>1, <2>1 DEF HitsAreFinite
  <2>3. \A row \in rows' : row \in rows \/ (row.hits = 0 /\ HitsOn("semantic", row.by) = {})
    <3>1. CASE \E r \in Requests : InsertRow(r)
      <4>1. PICK r \in Requests : InsertRow(r)
        BY <3>1
      <4>2. NewRow(r).by = r /\ NewRow(r).hits = 0
        BY DEF NewRow
      <4>3. HitsOn("semantic", r) = {}
        BY <1>1, <4>1 DEF StoredOnce, InsertRow, HitsOn
      <4> QED BY <4>1, <4>2, <4>3 DEF InsertRow
    <3>2. CASE rows' \subseteq rows
      BY <3>2
    <3> QED BY <1>3, <3>1, <3>2 DEF Next, vars, lookupVars, ExactHit, ExactMiss, Lookup, SemanticHit,
              SemanticMiss, FaqHit, FaqMiss, Answer, Store, PutExact, DieLookup, DieStore,
              BeginDelete, BeginFlush, Administer, DropKey, DropRows, DieAdmin, CreateFaq,
              UpdateFaq, DeleteFaq, Expire
  <2>4. \A f \in Faqs : faqs'[f].hits = faqs[f].hits \/ (faqs'[f].hits = 0 /\ HitsOn("faq", f) = {})
    <3>1. CASE \E f \in Faqs : CreateFaq(f)
      <4>1. PICK g \in Faqs : CreateFaq(g)
        BY <3>1
      <4>2. faqs'[g].hits = 0 /\ \A f \in Faqs : f # g => faqs'[f] = faqs[f]
        BY <1>1, <4>1 DEF CreateFaq, TypeOK
      <4>3. HitsOn("faq", g) = {}
        BY <1>1, <4>1 DEF FoundExists, CreateFaq, HitsOn
      <4> QED BY <4>2, <4>3
    <3>2. CASE \E f \in Faqs : UpdateFaq(f)
      <4>0. PICK g \in Faqs : UpdateFaq(g)
        BY <3>2
      <4>1. PICK q \in Prompts, s \in {"active", "inactive"} :
              faqs' = [faqs EXCEPT ![g] = [@ EXCEPT !.question = q, !.status = s]]
        BY <4>0 DEF UpdateFaq
      <4>2. [faqs[g] EXCEPT !.question = q, !.status = s].hits = faqs[g].hits
        BY <1>1 DEF TypeOK, Faq
      <4> QED BY <1>1, <4>1, <4>2 DEF TypeOK
    <3>3. CASE \E f \in Faqs : DeleteFaq(f)
      BY <1>1, <3>3 DEF DeleteFaq, TypeOK, Faq
    <3>4. CASE faqs' = faqs
      BY <3>4
    <3> QED BY <1>3, <3>1, <3>2, <3>3, <3>4 DEF Next, vars, lookupVars, ExactHit, ExactMiss, Lookup,
              SemanticHit, SemanticMiss, FaqHit, FaqMiss, Answer, Store, PutExact, InsertRow,
              DieLookup, DieStore, BeginDelete, BeginFlush, Administer, DropKey, DropRows,
              DieAdmin, Expire
  <2>5. Cardinality({}) = 0
    BY FS_EmptySet
  <2>6. \A row \in rows' : row.hits = Cardinality(HitsOn("semantic", row.by)')
    <3>1. \A x : HitsOn("semantic", x)' = HitsOn("semantic", x)
      BY <2>1 DEF Counters
    <3>2. SUFFICES ASSUME NEW row \in rows' PROVE row.hits = Cardinality(HitsOn("semantic", row.by)')
      OBVIOUS
    <3>3. row.hits = Cardinality(HitsOn("semantic", row.by))
      BY <1>1, <2>3, <2>5 DEF HitsAreCounted
    <3> QED BY <3>1, <3>3
  <2>7. \A f \in Faqs : faqs'[f].hits = Cardinality(HitsOn("faq", f)')
    BY <1>1, <2>1, <2>4, <2>5 DEF HitsAreCounted, Counters
  <2> QED BY <2>2, <2>6, <2>7 DEF HitsAreCounted
<1> QED BY <1>2, <1>3

\* However lookups, stores, flushes and edits interleave, and whatever dies: the
\* hit_count of a row or a FAQ is the number of lookups it answered.
THEOREM CountersAreExact == Spec => []HitsAreCounted
<1>1. Init => CountInv
  <2>. SUFFICES ASSUME Init PROVE CountInv
    OBVIOUS
  <2>1. StoredOnce /\ FoundExists
    BY DEF Init, StoredOnce, FoundExists
  <2>2. \A s, x : HitsOn(s, x) = {}
    BY DEF Init, HitsOn
  <2>3. HitsAreFinite
    BY <2>2, FS_EmptySet DEF HitsAreFinite
  <2>4. HitsAreCounted
    BY <2>2, FS_EmptySet DEF Init, HitsAreCounted
  <2> QED BY <2>1, <2>3, <2>4, TypeInit DEF CountInv
<1>2. CountInv /\ [Next]_vars => CountInv'
  BY TypeStep, StoredOnceStep, FoundExistsStep, CountStep DEF CountInv
<1>3. CountInv => HitsAreCounted
  BY DEF CountInv
<1> QED BY <1>1, <1>2, <1>3, PTL DEF Spec

-----------------------------------------------------------------------------
(* What a removal leaves in Redis.                                          *)

\* Why no removal will reach the entry of e.by: its task has not committed the
\* row, or a removal missed it.
Excused(e) == storing[e.by] \in {"insert", "lost"} \/ e.by \in missed

HasRow(e) == \E row \in rows : row.by = e.by

EntriesHaveRows == \A e \in exact : HasRow(e) \/ Excused(e)

\* What a handler has taken off its list of keys, it need not remove any more.
Ahead(o) ==
  /\ o.flush => \A e \in exact : e.org = o.org /\ e.prompt \notin o.keys => Excused(e)
  /\ ~o.flush => \A r \in o.row :
       /\ r \in Requests /\ storing[r] = "stored" /\ o.org = RequestOrg[r]
       /\ RequestPrompt[r] \in o.keys \/ \A e \in exact : e.by = r => r \in missed

RemovalsAreAhead == \A a \in Admins : \A o \in op[a] : Ahead(o)

RemovalInv ==
  /\ TypeOK /\ StoringFits /\ StoredFits /\ StoredOnce
  /\ EntriesHaveRows /\ RemovalsAreAhead

\* Counting a hit keeps the rows, by the requests they are of.
LEMMA CountKeepsRows ==
  ASSUME TypeOK, NEW r \in Requests, CountHit(r)
  PROVE  \A row \in rows : \E new \in rows' : new.by = row.by
<1>. DEFINE after(row) == IF [source |-> "semantic", answer |-> row.by] \in found[r]
                          THEN Counted(row) ELSE row
<1>1. rows' = {after(row) : row \in rows}
  BY DEF CountHit
<1>2. \A row \in rows : after(row).by = row.by
  BY CountedKeepsRow DEF TypeOK
<1>. HIDE DEF after
<1>. QED
  BY <1>1, <1>2

\* A store task that is over stays so, and one that has put its entry stays
\* there until it is lost or inserts the row.
LEMMA TasksGoOn ==
  ASSUME RemovalInv, [Next]_vars, NEW r \in Requests
  PROVE  /\ storing[r] \in {"stored", "lost"} => storing'[r] = storing[r]
         /\ storing[r] = "insert" => storing'[r] \in {"insert", "lost"} \/ InsertRow(r)
         /\ missed \subseteq missed'
<1>1. ASSUME NEW q \in Requests, Answer(q)
      PROVE  storing'[r] = storing[r] \/ storing[r] = "none"
  BY <1>1 DEF RemovalInv, TypeOK, StoredOnce, Answer
<1>2. ASSUME NEW q \in Requests, Store(q) \/ DieStore(q)
      PROVE  /\ storing'[r] = storing[r] \/ (q = r /\ Working(r))
             /\ storing[r] = "insert" => storing'[r] \in {"insert", "lost"} \/ InsertRow(r)
  BY <1>2 DEF RemovalInv, TypeOK, Store, PutExact, InsertRow, DieStore, Working
<1>3. storing' = storing \/ \E q \in Requests : Answer(q) \/ Store(q) \/ DieStore(q)
  BY DEF Next, vars, lookupVars, ExactHit, ExactMiss, Lookup, SemanticHit, SemanticMiss, FaqHit,
     FaqMiss, CountHit, DieLookup, BeginDelete, BeginFlush, Administer, DropKey, DropRows, DieAdmin,
     CreateFaq, UpdateFaq, DeleteFaq, Expire
<1>4. missed \subseteq missed'
  BY DEF Next, vars, lookupVars, ExactHit, ExactMiss, Lookup, SemanticHit, SemanticMiss, FaqHit,
     FaqMiss, CountHit, Answer, Store, PutExact, InsertRow, DieLookup, DieStore, BeginDelete,
     BeginFlush, Administer, DropKey, DropRows, DieAdmin, CreateFaq, UpdateFaq, DeleteFaq, Expire
<1>5. storing[r] \in {"stored", "lost"} => storing'[r] = storing[r]
  BY <1>1, <1>2, <1>3 DEF Working
<1>6. storing[r] = "insert" => storing'[r] \in {"insert", "lost"} \/ InsertRow(r)
  BY <1>1, <1>2, <1>3
<1>. QED
  BY <1>4, <1>5, <1>6

\* What is new in Redis was put there by a task that has the row to insert.
LEMMA EntriesArePut ==
  ASSUME RemovalInv, [Next]_vars, NEW e \in exact', e \notin exact
  PROVE  /\ e.by \in Requests /\ storing[e.by] = "put" /\ storing'[e.by] = "insert"
<1>1. PICK r \in Requests : PutExact(r)
  BY DEF Next, vars, lookupVars, ExactHit, ExactMiss, Lookup, SemanticHit, SemanticMiss, FaqHit,
     FaqMiss, CountHit, Answer, Store, InsertRow, DieLookup, DieStore, BeginDelete, BeginFlush,
     Administer, DropKey, DropRows, DieAdmin, CreateFaq, UpdateFaq, DeleteFaq, Expire
<1>2. e = [org |-> RequestOrg[r], prompt |-> RequestPrompt[r], by |-> r]
  BY <1>1 DEF PutExact
<1>. QED
  BY <1>1, <1>2 DEF PutExact, RemovalInv, TypeOK

\* An excuse stays, unless the row is inserted.
LEMMA ExcusesStay ==
  ASSUME RemovalInv, [Next]_vars, NEW e \in exact, Excused(e)
  PROVE  e.by \in Requests /\ (Excused(e)' \/ InsertRow(e.by))
<1>1. e.by \in Requests
  BY DEF RemovalInv, TypeOK, Entry
<1>. QED
  BY <1>1, TasksGoOn DEF Excused

\* Rows are removed only after their entries.
LEMMA EntriesHaveRowsStep ==
  ASSUME RemovalInv, [Next]_vars
  PROVE  EntriesHaveRows'
<1>. SUFFICES ASSUME NEW e \in exact' PROVE HasRow(e)' \/ Excused(e)'
  BY DEF EntriesHaveRows, HasRow, Excused
<1>1. CASE e \notin exact
  BY <1>1, EntriesArePut DEF Excused
<1>2. CASE e \in exact /\ Excused(e)
  <2>1. InsertRow(e.by) => NewRow(e.by) \in rows' /\ NewRow(e.by).by = e.by
    BY DEF InsertRow, NewRow
  <2>. QED
    BY <1>2, <2>1, ExcusesStay DEF HasRow
<1>3. CASE e \in exact /\ HasRow(e) /\ ~Excused(e)
  <2>1. PICK row \in rows : row.by = e.by
    BY <1>3 DEF HasRow
  <2>2. ASSUME NEW a \in Admins, DropRows(a) PROVE row \in rows'
    <3>1. PICK o \in op[a] :
            /\ o.keys = {}
            /\ rows' = IF o.flush THEN {w \in rows : w.org # o.org}
                                  ELSE {w \in rows : w.by \notin o.row}
      BY <2>2 DEF DropRows
    <3>2. Ahead(o)
      BY <3>1 DEF RemovalInv, RemovalsAreAhead
    <3>3. row.org = e.org
      BY <1>3, <2>1 DEF RemovalInv, StoredFits, Fits
    <3>4. o.flush => e.org # o.org
      BY <1>3, <3>1, <3>2 DEF Ahead
    <3>5. ~o.flush => e.by \notin o.row
      BY <1>3, <3>1, <3>2 DEF Ahead, Excused
    <3>. QED
      BY <2>1, <3>1, <3>3, <3>4, <3>5
  <2>3. ASSUME NEW r \in Requests, CountHit(r) PROVE \E new \in rows' : new.by = row.by
    BY <2>3, CountKeepsRows DEF RemovalInv
  <2>4. \E new \in rows' : new.by = e.by
    BY <2>1, <2>2, <2>3 DEF Next, vars, lookupVars, ExactHit, ExactMiss, Lookup, SemanticHit,
       SemanticMiss, FaqHit, FaqMiss, Answer, Store, PutExact, InsertRow, DieLookup, DieStore,
       BeginDelete, BeginFlush, Administer, DropKey, DieAdmin, CreateFaq, UpdateFaq, DeleteFaq,
       Expire
  <2>. QED
    BY <2>4 DEF HasRow
<1>. QED
  BY <1>1, <1>2, <1>3 DEF RemovalInv, EntriesHaveRows

\* A handler stays ahead of what is stored beside it: a row that comes while the
\* organisation is flushed is noted as missed.
LEMMA AheadStays ==
  ASSUME RemovalInv, [Next]_vars, NEW a \in Admins, NEW o \in op[a]
  PROVE  Ahead(o)'
<1>1. Ahead(o) /\ o \in Op
  BY DEF RemovalInv, RemovalsAreAhead, TypeOK
<1>2. CASE o.flush
  <2>. SUFFICES ASSUME NEW e \in exact', e.org = o.org, e.prompt \notin o.keys
                PROVE  Excused(e)'
    BY <1>2 DEF Ahead, Excused
  <2>1. CASE e \notin exact
    BY <2>1, EntriesArePut DEF Excused
  <2>2. CASE e \in exact
    <3>1. Excused(e)
      BY <1>1, <1>2, <2>2 DEF Ahead
    <3>2. e.org = RequestOrg[e.by]
      BY <2>2 DEF RemovalInv, StoredFits, Fits
    <3>3. InsertRow(e.by) => e.by \in missed'
      BY <1>2, <3>2 DEF InsertRow, BeingFlushed
    <3>. QED
      BY <2>2, <3>1, <3>3, ExcusesStay DEF Excused
  <2>. QED
    BY <2>1, <2>2
<1>3. CASE ~o.flush
  <2>. SUFFICES ASSUME NEW r \in o.row
                PROVE  /\ r \in Requests /\ storing'[r] = "stored" /\ o.org = RequestOrg[r]
                       /\ RequestPrompt[r] \in o.keys \/ \A e \in exact' : e.by = r => r \in missed'
    BY <1>3 DEF Ahead
  <2>1. /\ r \in Requests /\ storing[r] = "stored" /\ o.org = RequestOrg[r]
        /\ RequestPrompt[r] \in o.keys \/ \A e \in exact : e.by = r => r \in missed
    BY <1>1, <1>3 DEF Ahead
  <2>2. storing'[r] = "stored" /\ missed \subseteq missed'
    BY <2>1, TasksGoOn
  <2>3. \A e \in exact' : e.by = r => e \in exact
    BY <2>1, EntriesArePut
  <2>. QED
    BY <2>1, <2>2, <2>3
<1>. QED
  BY <1>2, <1>3

\* A handler begins ahead, and takes a key off its list only when the entry is
\* gone or noted as missed.
LEMMA RemovalsAreAheadStep ==
  ASSUME RemovalInv, [Next]_vars
  PROVE  RemovalsAreAhead'
<1>0. op \in [Admins -> SUBSET Op]
  BY DEF RemovalInv, TypeOK
<1>1. ASSUME NEW a \in Admins, NEW o, Ahead(o)', op' = [op EXCEPT ![a] = {o}]
      PROVE  RemovalsAreAhead'
  <2>. SUFFICES ASSUME NEW b \in Admins, NEW p \in op'[b] PROVE Ahead(p)'
    BY DEF RemovalsAreAhead, Ahead, Excused
  <2>1. CASE b = a
    BY <1>0, <1>1, <2>1
  <2>2. CASE b # a
    BY <1>0, <1>1, <2>2, AheadStays
  <2>. QED
    BY <2>1, <2>2
<1>2. ASSUME \A b \in Admins : op'[b] \subseteq op[b] PROVE RemovalsAreAhead'
  BY <1>2, AheadStays DEF RemovalsAreAhead, Ahead, Excused
<1>3. ASSUME NEW a \in Admins, BeginDelete(a)  PROVE RemovalsAreAhead'
  <2>1. PICK row \in rows :
          op' = [op EXCEPT ![a] = {[org |-> row.org, keys |-> {row.prompt},
                                    row |-> {row.by}, flush |-> FALSE]}]
    BY <1>3 DEF BeginDelete
  <2>2. PICK o : o = [org |-> row.org, keys |-> {row.prompt}, row |-> {row.by}, flush |-> FALSE]
    OBVIOUS
  <2>3. row.by \in Requests /\ storing[row.by] = "stored" /\ Fits(row)
    BY DEF RemovalInv, StoredOnce, StoredFits, TypeOK, EmbeddingRow
  <2>4. Ahead(o)'
    BY <1>3, <2>2, <2>3 DEF Ahead, Fits, BeginDelete, lookupVars
  <2>. QED
    BY <1>1, <2>1, <2>2, <2>4
<1>4. ASSUME NEW a \in Admins, BeginFlush(a)  PROVE RemovalsAreAhead'
  <2>1. PICK org \in Orgs :
          op' = [op EXCEPT ![a] =
                   {[org |-> org, keys |-> {row.prompt : row \in {w \in rows : w.org = org}},
                     row |-> {}, flush |-> TRUE]}]
    BY <1>4 DEF BeginFlush
  <2>2. PICK o : o = [org |-> org, keys |-> {row.prompt : row \in {w \in rows : w.org = org}},
                      row |-> {}, flush |-> TRUE]
    OBVIOUS
  <2>3. ASSUME NEW e \in exact, e.org = org, e.prompt \notin o.keys  PROVE Excused(e)
    <3>1. ASSUME NEW row \in rows, row.by = e.by  PROVE FALSE
      <4>1. row.org = e.org /\ row.prompt = e.prompt
        BY <3>1 DEF RemovalInv, StoredFits, Fits
      <4>. QED
        BY <2>2, <2>3, <4>1
    <3>. QED
      BY <2>3, <3>1 DEF RemovalInv, EntriesHaveRows, HasRow
  <2>4. Ahead(o)'
    BY <1>4, <2>2, <2>3 DEF Ahead, Excused, BeginFlush, lookupVars
  <2>. QED
    BY <1>1, <2>1, <2>2, <2>4
<1>5. ASSUME NEW a \in Admins, DropKey(a)  PROVE RemovalsAreAhead'
  <2>a. PICK o \in op[a] : \E p \in o.keys :
          /\ op' = [op EXCEPT ![a] = {[o EXCEPT !.keys = @ \ {p}]}]
          /\ \/ exact' = exact \ EntriesAt(o.org, p) /\ missed' = missed
             \/ exact' = exact /\ missed' = missed \cup {e.by : e \in EntriesAt(o.org, p)}
    BY <1>5 DEF DropKey
  <2>1. PICK p \in o.keys :
          /\ op' = [op EXCEPT ![a] = {[o EXCEPT !.keys = @ \ {p}]}]
          /\ \/ exact' = exact \ EntriesAt(o.org, p) /\ missed' = missed
             \/ exact' = exact /\ missed' = missed \cup {e.by : e \in EntriesAt(o.org, p)}
    BY <2>a
  <2>2. PICK next : next = [o EXCEPT !.keys = @ \ {p}]
    OBVIOUS
  <2>3. o \in Op
    BY DEF RemovalInv, TypeOK
  <2>4. next.flush = o.flush /\ next.org = o.org /\ next.row = o.row /\ next.keys = o.keys \ {p}
    BY <2>2, <2>3 DEF Op
  <2>5. Ahead(o)'
    BY AheadStays
  <2>6. \A e \in exact' : e.org = o.org /\ e.prompt = p => e.by \in missed'
    <3>1. \A e \in exact : e.org = o.org /\ e.prompt = p => e \in EntriesAt(o.org, p)
      BY DEF EntriesAt, KeyOf
    <3>. QED
      BY <2>1, <3>1
  <2>7. Ahead(next)'
    <3>1. CASE o.flush
      BY <2>4, <2>5, <2>6, <3>1 DEF Ahead, Excused
    <3>2. CASE ~o.flush
      <4>. SUFFICES ASSUME NEW r \in o.row
                    PROVE  /\ r \in Requests /\ storing'[r] = "stored" /\ o.org = RequestOrg[r]
                           /\ \/ RequestPrompt[r] \in next.keys
                              \/ \A e \in exact' : e.by = r => r \in missed'
        BY <2>4, <3>2 DEF Ahead
      <4>1. /\ r \in Requests /\ storing'[r] = "stored" /\ o.org = RequestOrg[r]
            /\ RequestPrompt[r] \in o.keys \/ \A e \in exact' : e.by = r => r \in missed'
        BY <2>5, <3>2 DEF Ahead
      <4>2. \A e \in exact' : e.by = r => e.org = o.org /\ e.prompt = RequestPrompt[r]
        <5>1. exact' \subseteq exact
          BY <2>1
        <5>. QED
          BY <4>1, <5>1 DEF RemovalInv, StoredFits, Fits
      <4>. QED
        BY <2>4, <2>6, <4>1, <4>2
    <3>. QED
      BY <3>1, <3>2
  <2>. QED
    BY <1>1, <2>1, <2>2, <2>7
<1>6. ASSUME NEW a \in Admins, DropRows(a) \/ DieAdmin(a)  PROVE RemovalsAreAhead'
  <2>1. op' = [op EXCEPT ![a] = {}]
    BY <1>6 DEF DropRows, DieAdmin
  <2>. QED
    BY <1>0, <1>2, <2>1
<1>7. CASE op' = op
  BY <1>2, <1>7
<1>. QED
  BY <1>3, <1>4, <1>5, <1>6, <1>7 DEF Next, vars, lookupVars, ExactHit, ExactMiss, Lookup,
     SemanticHit, SemanticMiss, FaqHit, FaqMiss, CountHit, Answer, Store, PutExact, InsertRow,
     DieLookup, DieStore, Administer, CreateFaq, UpdateFaq, DeleteFaq, Expire

\* Whatever is stored beside delete_cache_entry and flush_cache, an entry they
\* cannot reach any more is one whose row was not yet or never committed, one
\* redis.delete failed on, or one stored while its organisation was flushed.
THEOREM RemovalsMissOnlyRaces == Spec => []OrphansAreExplained
<1>1. Init => RemovalInv
  BY TypeInit DEF Init, RemovalInv, StoringFits, StoredFits, StoredOnce, Working, EntriesHaveRows,
     RemovalsAreAhead
<1>2. RemovalInv /\ [Next]_vars => RemovalInv'
  BY TypeStep, StoringFitsStep, StoredFitsStep, StoredOnceStep, EntriesHaveRowsStep,
     RemovalsAreAheadStep DEF RemovalInv
<1>3. RemovalInv => OrphansAreExplained
  <2>. SUFFICES ASSUME RemovalInv, NEW e \in exact, ~Excused(e) PROVE Reachable(e)
    BY DEF OrphansAreExplained, Excused
  <2>1. PICK row \in rows : row.by = e.by
    BY DEF RemovalInv, EntriesHaveRows, HasRow
  <2>2. row.org = e.org /\ row.prompt = e.prompt
    BY <2>1 DEF RemovalInv, StoredFits, Fits
  <2>. QED
    BY <2>1, <2>2 DEF Reachable, KeyOf
<1>. QED
  BY <1>1, <1>2, <1>3, PTL DEF Spec
=============================================================================
