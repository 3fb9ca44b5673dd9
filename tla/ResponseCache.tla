--------------------------- MODULE ResponseCache ---------------------------
(***************************************************************************)
(* The response cache: SemanticCache.lookup before a provider is called     *)
(* (exact match in Redis, nearest prompt_embeddings row, nearest FAQ), the  *)
(* background task that stores an answer (Redis first, then the row), and   *)
(* the administration of entries and FAQs.  Lookups, stores and flushes     *)
(* interleave at every await; Redis calls fail unnoticed, tasks die.        *)
(*                                                                          *)
(* An answer is named by the request that was answered by the provider, or  *)
(* by its FAQ.  How near two prompts are is given by the constants Near and *)
(* VeryNear: embeddings and distances are an oracle.                        *)
(***************************************************************************)
EXTENDS Integers, FiniteSets

CONSTANTS
  Requests,       \* the requests that may arrive, each once
  Orgs,
  Prompts,        \* normalised prompts
  Faqs,           \* FAQ ids
  RequestOrg,
  RequestPrompt,  \* the request's prompt, after the policy's redaction
  Personal,       \* requests redacted or reported for PII by the policy
  FaqOrg,
  Near,           \* Near[p]: prompts with a similarity of at least 0.80 to p
  VeryNear,       \* VeryNear[p]: those with at least 0.88
  Admins,         \* handlers of administration requests
  MaxBusy,        \* bound: how many handlers and tasks run at the same time
  RedisFails,     \* may a Redis call fail, or a vector query find nothing?
  HandlersDie     \* may an exception or a crash cut a handler or task short?

ASSUME CacheAssumption ==
  /\ RequestOrg \in [Requests -> Orgs]
  /\ RequestPrompt \in [Requests -> Prompts]
  /\ Personal \subseteq Requests
  /\ FaqOrg \in [Faqs -> Orgs]
  /\ Near \in [Prompts -> SUBSET Prompts]
  /\ VeryNear \in [Prompts -> SUBSET Prompts]
  /\ MaxBusy \in Nat
  /\ RedisFails \in BOOLEAN /\ HandlersDie \in BOOLEAN

VARIABLES
  exact,     \* live Redis entries "cache:<org>:<prompt hash>"
  rows,      \* prompt_embeddings
  faqs,      \* org_faq_cache, by id
  stage,     \* where the lookup of a request is
  found,     \* what the lookup found, as a set of at most one
  storing,   \* the background task that stores the request's answer
  op,        \* what each administrator's handler is doing, at most one thing
  missed     \* history: requests whose answer a removal missed in Redis, as
             \* redis.delete failed or the row came while a flush was under way

vars == <<exact, rows, faqs, stage, found, storing, op, missed>>

lookupVars == <<stage, found, storing>>

-----------------------------------------------------------------------------
Entry == [org : Orgs, prompt : Prompts, by : Requests]

\* A prompt_embeddings row; its id is the request whose task inserted it.
EmbeddingRow == [org : Orgs, prompt : Prompts, by : Requests, hits : Nat]

Faq == [status : {"none", "active", "inactive", "deleted"},
        question : Prompts, hits : Nat]

\* CacheResult of a hit: its layer, and the answer by the row or entry it is of.
Found == [source : {"exact", "semantic", "faq"}, answer : Requests \cup Faqs]

Stages == {"new", "semantic", "faq", "count", "call", "hit", "answered", "failed"}

\* Removing an entry (one key, one row) or flushing an organisation.
Op == [org : Orgs, keys : SUBSET Prompts, row : SUBSET Requests, flush : BOOLEAN]

Key(r) == [org |-> RequestOrg[r], prompt |-> RequestPrompt[r]]

KeyOf(e) == [org |-> e.org, prompt |-> e.prompt]

Looking(r) == stage[r] \in {"semantic", "faq", "count", "call"}

Working(r) == storing[r] \in {"put", "insert"}

Busy == {r \in Requests : Looking(r)} \cup {a \in Admins : op[a] # {}}

Tasks == {r \in Requests : Working(r)}

CanStart == Cardinality(Busy) + Cardinality(Tasks) < MaxBusy

\* Rows the query for the nearest one may return with a similarity that hits.
NearRows(r) ==
  {row \in rows : row.org = RequestOrg[r] /\ row.prompt \in Near[RequestPrompt[r]]}

NearFaqs(r) ==
  {f \in Faqs : /\ FaqOrg[f] = RequestOrg[r] /\ faqs[f].status = "active"
                /\ faqs[f].question \in VeryNear[RequestPrompt[r]]}

-----------------------------------------------------------------------------
Init ==
  /\ exact = {} /\ rows = {}
  /\ faqs \in [Faqs -> [status : {"none", "active"}, question : Prompts,
                        hits : {0}]]
  /\ stage = [r \in Requests |-> "new"]
  /\ found = [r \in Requests |-> {}]
  /\ storing = [r \in Requests |-> "none"]
  /\ op = [a \in Admins |-> {}] /\ missed = {}

Goto(r, to) == stage' = [stage EXCEPT ![r] = to]

Find(r, source, answer) ==
  found' = [found EXCEPT ![r] = {[source |-> source, answer |-> answer]}]

\* redis.get answers with a live entry: it is returned at once.
ExactHit(r) ==
  /\ stage[r] = "new" /\ CanStart
  /\ \E e \in exact : KeyOf(e) = Key(r) /\ Find(r, "exact", e.by)
  /\ Goto(r, "hit")
  /\ UNCHANGED <<exact, rows, faqs, storing, op, missed>>

\* redis.get finds nothing, or fails and the failure is swallowed.
ExactMiss(r) ==
  /\ stage[r] = "new" /\ CanStart
  /\ RedisFails \/ \A e \in exact : KeyOf(e) # Key(r)
  /\ Goto(r, "semantic")
  /\ UNCHANGED <<exact, rows, faqs, found, storing, op, missed>>

\* The nearest row of the organisation is near enough, firmly or softly.
SemanticHit(r) ==
  /\ stage[r] = "semantic"
  /\ \E row \in NearRows(r) : Find(r, "semantic", row.by)
  /\ Goto(r, "count")
  /\ UNCHANGED <<exact, rows, faqs, storing, op, missed>>

SemanticMiss(r) ==
  /\ stage[r] = "semantic" /\ (NearRows(r) = {} \/ RedisFails)
  /\ Goto(r, "faq")
  /\ UNCHANGED <<exact, rows, faqs, found, storing, op, missed>>

FaqHit(r) ==
  /\ stage[r] = "faq"
  /\ \E f \in NearFaqs(r) : Find(r, "faq", f)
  /\ Goto(r, "count")
  /\ UNCHANGED <<exact, rows, faqs, storing, op, missed>>

FaqMiss(r) ==
  /\ stage[r] = "faq" /\ (NearFaqs(r) = {} \/ RedisFails)
  /\ Goto(r, "call")
  /\ UNCHANGED <<exact, rows, faqs, found, storing, op, missed>>

\* Mutant: the counter is set from a value that was read before.
CountedOnce(row) == [row EXCEPT !.hits = 1]

Counted(row) == [row EXCEPT !.hits = @ + 1]

\* UPDATE ... SET hit_count = hit_count + 1 and its commit; the row or the FAQ
\* may be gone by then, and is served all the same.
CountHit(r) ==
  /\ stage[r] = "count"
  /\ rows' = {IF [source |-> "semantic", answer |-> row.by] \in found[r]
              THEN Counted(row) ELSE row : row \in rows}
  /\ faqs' = [f \in Faqs |-> IF [source |-> "faq", answer |-> f] \in found[r]
                             THEN Counted(faqs[f]) ELSE faqs[f]]
  /\ Goto(r, "hit")
  /\ UNCHANGED <<exact, found, storing, op, missed>>

\* Mutant: answers to redacted prompts are stored too.
MayStoreAll(r) == TRUE

\* Answers to prompts with PII are not stored.
MayStore(r) == r \notin Personal

\* The provider answers; a successful, short answer that is not streamed is
\* stored in the background.
Answer(r) ==
  /\ stage[r] = "call"
  /\ Goto(r, "answered")
  /\ \/ MayStore(r) /\ storing' = [storing EXCEPT ![r] = "put"]
     \/ UNCHANGED storing
  /\ UNCHANGED <<exact, rows, faqs, found, op, missed>>

-----------------------------------------------------------------------------
\* store: SETEX of the exact answer, its failure swallowed.
PutExact(r) ==
  /\ storing[r] = "put"
  /\ \/ exact' = {e \in exact : KeyOf(e) # Key(r)} \cup
                   {[org |-> RequestOrg[r], prompt |-> RequestPrompt[r], by |-> r]}
     \/ RedisFails /\ exact' = exact
  /\ storing' = [storing EXCEPT ![r] = "insert"]
  /\ UNCHANGED <<rows, faqs, stage, found, op, missed>>

\* The INSERT names no hit_count: the column's default is 0.
NewRow(r) ==
  [org |-> RequestOrg[r], prompt |-> RequestPrompt[r], by |-> r, hits |-> 0]

BeingFlushed(org) == \E a \in Admins : \E o \in op[a] : o.flush /\ o.org = org

\* store: the row for the semantic layer is committed.
InsertRow(r) ==
  /\ storing[r] = "insert"
  /\ rows' = rows \cup {NewRow(r)}
  /\ storing' = [storing EXCEPT ![r] = "stored"]
  /\ missed' = IF BeingFlushed(RequestOrg[r]) THEN missed \cup {r} ELSE missed
  /\ UNCHANGED <<exact, faqs, stage, found, op>>

-----------------------------------------------------------------------------
\* delete_cache_entry selects the row.
BeginDelete(a) ==
  /\ op[a] = {} /\ CanStart
  /\ \E row \in rows :
       op' = [op EXCEPT ![a] = {[org |-> row.org, keys |-> {row.prompt},
                                 row |-> {row.by}, flush |-> FALSE]}]
  /\ UNCHANGED <<exact, rows, faqs, lookupVars, missed>>

\* flush_cache selects the prompt hashes of the organisation.
BeginFlush(a) ==
  /\ op[a] = {} /\ CanStart
  /\ \E org \in Orgs :
       op' = [op EXCEPT ![a] =
                {[org |-> org, keys |-> {row.prompt : row \in {w \in rows : w.org = org}},
                  row |-> {}, flush |-> TRUE]}]
  /\ UNCHANGED <<exact, rows, faqs, lookupVars, missed>>

EntriesAt(org, p) == {e \in exact : KeyOf(e) = [org |-> org, prompt |-> p]}

\* Mutant: redis.delete is given a key that no entry has.
DropKeyNot(a) ==
  /\ \E o \in op[a] : \E p \in o.keys :
       op' = [op EXCEPT ![a] = {[o EXCEPT !.keys = @ \ {p}]}]
  /\ UNCHANGED <<exact, rows, faqs, lookupVars, missed>>

\* One redis.delete, its failure swallowed.
DropKey(a) ==
  /\ \E o \in op[a] : \E p \in o.keys :
       /\ op' = [op EXCEPT ![a] = {[o EXCEPT !.keys = @ \ {p}]}]
       /\ \/ exact' = exact \ EntriesAt(o.org, p) /\ missed' = missed
          \/ /\ RedisFails /\ exact' = exact
             /\ missed' = missed \cup {e.by : e \in EntriesAt(o.org, p)}
  /\ UNCHANGED <<rows, faqs, lookupVars>>

\* Then the DELETE of the row, or of all rows the organisation has by now.
DropRows(a) ==
  /\ \E o \in op[a] :
       /\ o.keys = {}
       /\ rows' = IF o.flush THEN {row \in rows : row.org # o.org}
                             ELSE {row \in rows : row.by \notin o.row}
  /\ op' = [op EXCEPT ![a] = {}]
  /\ UNCHANGED <<exact, faqs, lookupVars, missed>>

\* create_faq, or a line of a bulk import: a new FAQ is active.
CreateFaq(f) ==
  /\ faqs[f].status = "none"
  /\ \E q \in Prompts :
       faqs' = [faqs EXCEPT ![f] = [status |-> "active", question |-> q, hits |-> 0]]
  /\ UNCHANGED <<exact, rows, lookupVars, op, missed>>

\* update_faq commits a new question with its embedding, or a new status.
UpdateFaq(f) ==
  /\ faqs[f].status \in {"active", "inactive"}
  /\ \E q \in Prompts, s \in {"active", "inactive"} :
       faqs' = [faqs EXCEPT ![f].question = q, ![f].status = s]
  /\ UNCHANGED <<exact, rows, lookupVars, op, missed>>

DeleteFaq(f) ==
  /\ faqs[f].status \in {"active", "inactive"}
  /\ faqs' = [faqs EXCEPT ![f].status = "deleted"]
  /\ UNCHANGED <<exact, rows, lookupVars, op, missed>>

-----------------------------------------------------------------------------
\* Mutant: SET without a TTL.
ExpireNever(k) == FALSE

\* The 24 hours of an entry are over.
Expire(k) ==
  /\ \E e \in exact : KeyOf(e) = k
  /\ exact' = {e \in exact : KeyOf(e) # k}
  /\ UNCHANGED <<rows, faqs, lookupVars, op, missed>>

\* The handler of a request fails or dies.
DieLookup(r) ==
  /\ HandlersDie /\ Looking(r)
  /\ Goto(r, "failed")
  /\ UNCHANGED <<exact, rows, faqs, found, storing, op, missed>>

\* The store task fails (its failure is only logged) or dies.
DieStore(r) ==
  /\ HandlersDie /\ Working(r)
  /\ storing' = [storing EXCEPT ![r] = "lost"]
  /\ UNCHANGED <<exact, rows, faqs, stage, found, op, missed>>

DieAdmin(a) ==
  /\ HandlersDie /\ op[a] # {}
  /\ op' = [op EXCEPT ![a] = {}]
  /\ UNCHANGED <<exact, rows, faqs, lookupVars, missed>>

Lookup(r) ==
  \/ SemanticHit(r) \/ SemanticMiss(r) \/ FaqHit(r) \/ FaqMiss(r)
  \/ CountHit(r) \/ Answer(r)

Store(r) == PutExact(r) \/ InsertRow(r)

Administer(a) == DropKey(a) \/ DropRows(a)

Keys == [org : Orgs, prompt : Prompts]

Next ==
  \/ \E r \in Requests :
       \/ ExactHit(r) \/ ExactMiss(r) \/ Lookup(r) \/ Store(r)
       \/ DieLookup(r) \/ DieStore(r)
  \/ \E a \in Admins :
       BeginDelete(a) \/ BeginFlush(a) \/ Administer(a) \/ DieAdmin(a)
  \/ \E f \in Faqs : CreateFaq(f) \/ UpdateFaq(f) \/ DeleteFaq(f)
  \/ \E k \in Keys : Expire(k)

Spec == Init /\ [][Next]_vars

\* Awaited calls return, background tasks run, Redis expires what has a TTL.
Fairness ==
  /\ \A r \in Requests : WF_vars(Lookup(r)) /\ WF_vars(Store(r))
  /\ \A a \in Admins : WF_vars(Administer(a))
  /\ \A k \in Keys : WF_vars(Expire(k))

-----------------------------------------------------------------------------
\* Entries, rows, FAQs and what lookups found keep their types.
TypeOK ==
  /\ exact \subseteq Entry
  /\ rows \subseteq EmbeddingRow
  /\ faqs \in [Faqs -> Faq]
  /\ stage \in [Requests -> Stages]
  /\ found \in [Requests -> SUBSET Found]
  /\ storing \in [Requests -> {"none", "put", "insert", "stored", "lost"}]
  /\ op \in [Admins -> SUBSET Op]
  /\ missed \subseteq Requests

\* An answer from the cache was given to a prompt near the request's, for the
\* same organisation, and never to a prompt with PII, whatever was stored,
\* removed or flushed beside the lookup.
ServedFits ==
  \A r \in Requests : \A c \in found[r] :
    c.source # "faq" =>
      /\ RequestOrg[c.answer] = RequestOrg[r]
      /\ c.answer \notin Personal
      /\ \/ RequestPrompt[c.answer] = RequestPrompt[r]
         \/ RequestPrompt[c.answer] \in Near[RequestPrompt[r]]

HitsOn(source, answer) ==
  {r \in Requests : stage[r] = "hit" /\ [source |-> source, answer |-> answer] \in found[r]}

\* No hit is lost in a counter, however many lookups count at the same time.
HitsAreCounted ==
  /\ \A row \in rows : row.hits = Cardinality(HitsOn("semantic", row.by))
  /\ \A f \in Faqs : faqs[f].hits = Cardinality(HitsOn("faq", f))

Reachable(e) == \E row \in rows : KeyOf(row) = KeyOf(e)

\* An entry of Redis that no removal reaches any more, as its row is gone or
\* never was, is one whose store task is about to insert the row or was lost, or
\* one a removal missed: so a flush that met neither a failing Redis nor a store
\* task leaves the organisation nothing, however often entries were removed.
OrphansAreExplained ==
  \A e \in exact : Reachable(e) \/ storing[e.by] \in {"insert", "lost"} \/ e.by \in missed

\* An answer only Redis still has goes with its TTL, whatever failed or raced.
OrphansExpire == <>[](\A e \in exact : Reachable(e))

=============================================================================
