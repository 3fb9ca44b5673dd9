----------------------------- MODULE PolicyStore -----------------------------
(***************************************************************************)
(* The security policy of one organisation: the row that create_org or the  *)
(* first reader seeds, the Redis copy PolicyEngine writes, administrators   *)
(* who edit columns or the list of custom patterns, and the evaluations of  *)
(* prompts that load the policy meanwhile.  Handlers interleave at every    *)
(* await; the database keeps the organisation of a policy unique.           *)
(***************************************************************************)
EXTENDS PolicyRules, Detectors

CONSTANTS
  Evaluations,  \* prompts to evaluate, each once
  Editors,      \* requests that read or edit the policy, each once
  Texts,        \* the texts of prompts, as Detectors sees them
  OriginOf,     \* where the prompt of an evaluation comes from
  ProviderOf,   \* and the provider it is meant for
  Patterns,     \* names of custom patterns
  Updates,      \* payloads of PUT /policy: some columns and their values
  MaxPolicyBusy \* bound: how many handlers run at the same time

ASSUME PolicyAssumption ==
  /\ OriginOf \in [Evaluations -> Origin] /\ ProviderOf \in [Evaluations -> Providers]
  /\ Evaluations \cap Editors = {}
  /\ MaxPolicyBusy \in Nat

\* What SecurityPolicyUpdateRequest lets each column be.
Column == [active |-> BOOLEAN, pii |-> PiiActions, code |-> PolicyActions,
           sensitive |-> PolicyActions, blocked |-> SUBSET Countries,
           allowed |-> [Countries \cup Regions -> Seq(Providers)],
           custom |-> SUBSET Patterns]

ASSUME UpdateAssumption ==
  \A put \in Updates : DOMAIN put \subseteq DOMAIN Column
                       /\ \A c \in DOMAIN put : put[c] \in Column[c]

\* What the detectors hand over: finitely many matches, each of a piece of text.
ASSUME TextAssumption ==
  /\ IsFiniteSet(Patterns) /\ Patterns \subseteq STRING
  /\ \A text \in Texts :
       /\ text.spans \subseteq Span /\ IsFiniteSet(text.spans)
       /\ \A name \in Patterns :
            text.matches[name] \subseteq Span /\ IsFiniteSet(text.matches[name])

VARIABLES
  org,      \* "none", "named" (committed), "ready" (create_org is over)
  policies, \* the security_policies row, as a set of at most one
  copy,     \* the live Redis copy, as a set of at most one
  eval,     \* each evaluation: where it is, its text, the policy it loaded
  edit,     \* each editor: where it is, the row as loaded and as it is to be
  since,    \* history: the rows there were since a handler began; none of an
            \* edit that is over
  asked,    \* history: the row the edits ask for, done one after the other
  orderly   \* history: no two editors overlapped

policyVars == <<org, policies, copy, eval, edit, since, asked, orderly>>

Handlers == Evaluations \cup Editors

Row == [active : BOOLEAN, pii : PiiActions, code : PolicyActions,
        sensitive : PolicyActions, blocked : SUBSET Countries,
        allowed : [Countries \cup Regions -> Seq(Providers)],
        custom : SUBSET Patterns]

\* The policy get_or_create_policy seeds.
Default ==
  [active |-> TRUE, pii |-> "redact", code |-> "warn", sensitive |-> "warn",
   blocked |-> {}, allowed |-> [c \in Countries \cup Regions |-> <<>>],
   custom |-> {}]

Evaluating == {e \in Evaluations : eval[e].at \notin {"new", "done", "failed"}}

Editing == {a \in Editors : edit[a].at \notin {"new", "done", "failed"}}

CanBegin ==
  org = "ready" /\ Cardinality(Evaluating) + Cardinality(Editing) < MaxPolicyBusy

\* A committed row is history for every handler under way.
Commits(rows) ==
  /\ policies' = rows
  /\ since' = [h \in Handlers |->
                 IF h \in Evaluating \cup Editing THEN since[h] \cup {rows} ELSE since[h]]

-----------------------------------------------------------------------------
PolicyInit ==
  /\ org = "none"
  /\ policies = {}
  /\ copy = {}
  /\ eval \in [Evaluations -> [at : {"new"}, text : Texts, loaded : {{}}]]
  /\ edit = [a \in Editors |-> [at |-> "new", loaded |-> {}, row |-> {}]]
  /\ since = [h \in Handlers |-> {}]
  /\ asked = Default
  /\ orderly = TRUE

\* create_org commits the organisation, then seeds its policy, or dies between.
CreateOrg ==
  /\ org = "none"
  /\ org' = "named"
  /\ UNCHANGED <<policies, copy, eval, edit, since, asked, orderly>>

SeedPolicy ==
  /\ org = "named"
  /\ org' = "ready"
  /\ Commits({Default})
  /\ UNCHANGED <<copy, eval, edit, asked, orderly>>

DieCreating ==
  /\ org = "named"
  /\ org' = "ready"
  /\ UNCHANGED <<policies, copy, eval, edit, since, asked, orderly>>

-----------------------------------------------------------------------------
\* Mutant: a live copy decides.
BeginEvaluationByCopy(e) ==
  /\ eval[e].at = "new" /\ CanBegin
  /\ eval' = [eval EXCEPT ![e].at = IF copy = {} THEN "select" ELSE "decide",
                          ![e].loaded = copy]
  /\ since' = [since EXCEPT ![e] = {policies}]
  /\ UNCHANGED <<org, policies, copy, edit, asked, orderly>>

\* get_cached_policy: the client decodes what it reads, so decoding a live copy
\* again raises, which is caught: with or without a copy the database is asked.
BeginEvaluation(e) ==
  /\ eval[e].at = "new" /\ CanBegin
  /\ eval' = [eval EXCEPT ![e].at = "select"]
  /\ since' = [since EXCEPT ![e] = {policies}]
  /\ UNCHANGED <<org, policies, copy, edit, asked, orderly>>

\* get_or_create_policy of an evaluation.
SelectPolicy(e) ==
  /\ eval[e].at = "select"
  /\ eval' = [eval EXCEPT ![e].at = IF policies = {} THEN "insert" ELSE "cache",
                          ![e].loaded = policies]
  /\ UNCHANGED <<org, policies, copy, edit, since, asked, orderly>>

\* The insert of the default policy, refused when another handler was faster.
InsertPolicy(e) ==
  /\ eval[e].at = "insert"
  /\ IF policies = {}
     THEN /\ Commits({Default})
          /\ eval' = [eval EXCEPT ![e].at = "cache", ![e].loaded = {Default}]
     ELSE /\ eval' = [eval EXCEPT ![e].at = "failed"]
          /\ UNCHANGED <<policies, since>>
  /\ UNCHANGED <<org, copy, edit, asked, orderly>>

\* setex(key, 300, policy), its failure only logged.
CachePolicy(e) ==
  /\ eval[e].at = "cache"
  /\ copy' \in {copy, eval[e].loaded}
  /\ eval' = [eval EXCEPT ![e].at = "decide"]
  /\ UNCHANGED <<org, policies, edit, since, asked, orderly>>

\* The detectors run and the verdict is formed.
FormVerdict(e) ==
  /\ eval[e].at = "decide"
  /\ eval' = [eval EXCEPT ![e].at = "done"]
  /\ UNCHANGED <<org, policies, copy, edit, since, asked, orderly>>

\* What the evaluation returned.
Verdict(e) ==
  LET row == CHOOSE r \in eval[e].loaded : TRUE
  IN  Evaluate(row, OriginOf[e], ProviderOf[e], FindingsOf(eval[e].text, row.custom))

-----------------------------------------------------------------------------
\* A PUT sets the columns it names.
Put(row, put) == [c \in DOMAIN row |-> IF c \in DOMAIN put THEN put[c] ELSE row[c]]

\* What each request makes of the row: a PUT, a pattern appended or removed.
Wanted(row) ==
  {Put(row, put) : put \in Updates}
    \cup {[row EXCEPT !.custom = @ \cup {p}] : p \in Patterns \ row.custom}
    \cup {[row EXCEPT !.custom = @ \ {p}] : p \in row.custom}

\* An edit begins with get_or_create_policy.
BeginEdit(a) ==
  /\ edit[a].at = "new" /\ CanBegin
  /\ edit' = [edit EXCEPT ![a].at = "select"]
  /\ since' = [since EXCEPT ![a] = {policies}]
  /\ orderly' = (orderly /\ Editing = {})
  /\ UNCHANGED <<org, policies, copy, eval, asked>>

\* The row is loaded and the new one made of it; a GET ends here, and so does an
\* edit that adds a pattern there is (400) or removes one there is not (404).
LoadRow(a) ==
  /\ edit[a].at = "select" /\ policies # {}
  /\ \E row \in policies :
       \/ \E new \in Wanted(row) :
            /\ edit' = [edit EXCEPT ![a] =
                 [at |-> "commit", loaded |-> {row}, row |-> {new}]]
            /\ asked' = new
            /\ UNCHANGED since
       \/ /\ edit' = [edit EXCEPT ![a].at = "done"]
          /\ since' = [since EXCEPT ![a] = {}]
          /\ UNCHANGED asked
  /\ UNCHANGED <<org, policies, copy, eval, orderly>>

\* There is no row: the default is inserted first, or was by another handler.
LoadNone(a) ==
  /\ edit[a].at = "select" /\ policies = {}
  /\ edit' = [edit EXCEPT ![a].at = "insert"]
  /\ UNCHANGED <<org, policies, copy, eval, since, asked, orderly>>

InsertRow(a) ==
  /\ edit[a].at = "insert"
  /\ IF policies = {}
     THEN /\ Commits({Default})
          /\ edit' = [edit EXCEPT ![a].at = "select"]
     ELSE /\ edit' = [edit EXCEPT ![a].at = "failed"]
          /\ UNCHANGED <<policies, since>>
  /\ UNCHANGED <<org, copy, eval, asked, orderly>>

\* Mutant: the list of patterns is changed in place, which no UPDATE notices.
WrittenInPlace(loaded, new, now) ==
  [c \in DOMAIN now |->
     IF new[c] # loaded[c] /\ c # "custom" THEN new[c] ELSE now[c]]

\* Mutant: the UPDATE sets every column.
WrittenWhole(loaded, new, now) == new

\* The UPDATE sets the columns that differ from the row as it was loaded.
Written(loaded, new, now) ==
  [c \in DOMAIN now |-> IF new[c] # loaded[c] THEN new[c] ELSE now[c]]

CommitEdit(a) ==
  /\ edit[a].at = "commit"
  /\ \E loaded \in edit[a].loaded, new \in edit[a].row, now \in policies :
       Commits({Written(loaded, new, now)})
  /\ edit' = [edit EXCEPT ![a].at = "delete"]
  /\ UNCHANGED <<org, copy, eval, asked, orderly>>

\* The copy is deleted after the commit, a failure only logged.
DeleteCopy(a) ==
  /\ edit[a].at = "delete"
  /\ copy' \in {copy, {}}
  /\ edit' = [edit EXCEPT ![a] = [at |-> "done", loaded |-> {}, row |-> {}]]
  /\ since' = [since EXCEPT ![a] = {}]
  /\ UNCHANGED <<org, policies, eval, asked, orderly>>

ExpireCopy ==
  /\ copy # {}
  /\ copy' = {}
  /\ UNCHANGED <<org, policies, eval, edit, since, asked, orderly>>

-----------------------------------------------------------------------------
HandleEvaluation(e) ==
  \/ SelectPolicy(e) \/ InsertPolicy(e) \/ CachePolicy(e) \/ FormVerdict(e)

HandleEdit(a) ==
  LoadRow(a) \/ LoadNone(a) \/ InsertRow(a) \/ CommitEdit(a) \/ DeleteCopy(a)

PolicyNext ==
  \/ CreateOrg \/ SeedPolicy \/ DieCreating \/ ExpireCopy
  \/ \E e \in Evaluations : BeginEvaluation(e) \/ HandleEvaluation(e)
  \/ \E a \in Editors : BeginEdit(a) \/ HandleEdit(a)

PolicySpec == PolicyInit /\ [][PolicyNext]_policyVars

-----------------------------------------------------------------------------
\* Every policy has all its columns, and who decides has loaded exactly one.
PolicyTypeOK ==
  /\ org \in {"none", "named", "ready"}
  /\ \A row \in policies \cup copy : DOMAIN row = DOMAIN Default
  /\ \A e \in Evaluations :
       /\ eval[e].at \in {"new", "select", "insert", "cache", "decide", "done", "failed"}
       /\ eval[e].at \in {"cache", "decide", "done"} => Cardinality(eval[e].loaded) = 1
  /\ \A a \in Editors :
       edit[a].at \in {"new", "select", "insert", "commit", "delete", "done", "failed"}
  /\ orderly \in BOOLEAN

\* A prompt is judged by a policy the organisation had at some time since the
\* evaluation began, never by one an administrator had replaced before.
FreshVerdict ==
  \A e \in Evaluations : eval[e].at = "done" => eval[e].loaded \in since[e]

\* The verdict is the strictest of what the policy asks for each finding, and
\* the text is redacted whenever the verdict says so.
VerdictIsStrictest ==
  \A e \in Evaluations : eval[e].at = "done" =>
    \A row \in eval[e].loaded :
      LET v == Verdict(e)
          strictness == [allow |-> 0, warn |-> 1, redact |-> 2, block |-> 3]
          found == FindingsOf(eval[e].text, row.custom)
          acts == {Act(k, row, found, Resides(row, OriginOf[e], ProviderOf[e])) :
                     k \in Kinds}
      IN  row.active =>
            /\ v.action \in acts
            /\ \A act \in acts : strictness[act] <= strictness[v.action]
            /\ v.action = "redact" => v.redacted

\* Each prompt gets the strictest verdict of a policy in force while it was
\* judged, whatever edits ran beside it and wherever the policy was read from.
VerdictFollowsPolicy == FreshVerdict /\ VerdictIsStrictest

\* _resolve_overlaps: "a non-overlapping list", and redaction shows nothing of
\* a found span but the tail of one that straddles the end of a kept one.
RedactionHides ==
  \A e \in Evaluations : eval[e].at = "done" => \A row \in eval[e].loaded :
    LET kept == Kept(eval[e].text, row.custom)
        shown == Shown(eval[e].text, row.custom)
    IN  /\ \A i, j \in DOMAIN kept : i < j => kept[i].end <= kept[j].start
        /\ \A s \in Spans(eval[e].text, row.custom) :
             \/ (s.start .. s.end - 1) \cap shown = {}
             \/ \E k \in DOMAIN kept :
                  kept[k].start < s.start /\ s.start < kept[k].end /\ kept[k].end < s.end

\* Edits that do not overlap all take effect: none is lost.
EditsSurvive ==
  orderly /\ Editing = {} => \A row \in policies : row = asked

\* However edits overlap, each leaves alone the columns it did not set: an edit
\* of the actions never loses a pattern, nor the other way round.
EditsKeepToTheirColumns ==
  [][policies # {} /\ policies' # policies =>
       \E a \in Editors : edit'[a].at # edit[a].at /\
         \A old \in policies, new \in policies', from \in edit[a].loaded, to \in edit[a].row :
           \A c \in DOMAIN old : from[c] = to[c] => old[c] = new[c]]_policyVars

\* Only the first handlers of an organisation, begun when it had no policy,
\* ever fail on another one's insert.
FailsOnlyAtFirst ==
  \A h \in Handlers :
    (IF h \in Evaluations THEN eval[h].at ELSE edit[h].at) = "failed" => {} \in since[h]

\* Edits take effect: none is lost to one before it, and none fails on an insert
\* but those begun before the organisation had a policy.
EditsTakeEffect == EditsSurvive /\ FailsOnlyAtFirst
=============================================================================
