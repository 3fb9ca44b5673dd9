--------------------------- MODULE SettingsProofs ---------------------------
(***************************************************************************)
(* Theorems about the settings of an organisation, for any handlers,        *)
(* prompts, payloads and rules: its security policy, its routing rules and  *)
(* its provider credentials.                                                *)
(***************************************************************************)
EXTENDS Settings, RulesProofs, FiniteSetTheorems, TLAPS

-----------------------------------------------------------------------------
(* The rows of the security policy. *)

\* The default policy is a row.
LEMMA DefaultIsRow == Default \in Row
<1>1. [c \in Countries \cup Regions |-> <<>>] \in [Countries \cup Regions -> Seq(Providers)]
  OBVIOUS
<1> QED BY <1>1 DEF Default, Row, PiiActions, PolicyActions

\* The columns of a row have the values the schema allows.
LEMMA RowByColumns ==
  ASSUME NEW row
  PROVE  row \in Row <=> /\ row = [c \in DOMAIN Column |-> row[c]]
                         /\ \A c \in DOMAIN Column : row[c] \in Column[c]
<1>1. DOMAIN Column = {"active", "pii", "code", "sensitive", "blocked", "allowed", "custom"}
  BY DEF Column
<1>2. row \in Row => /\ row = [c \in DOMAIN Column |-> row[c]]
                    /\ \A c \in DOMAIN Column : row[c] \in Column[c]
  <2>. SUFFICES ASSUME row \in Row
                PROVE  /\ row = [c \in DOMAIN Column |-> row[c]]
                       /\ \A c \in DOMAIN Column : row[c] \in Column[c]
    OBVIOUS
  <2>1. row = [c \in {"active", "pii", "code", "sensitive", "blocked", "allowed",
                      "custom"} |-> row[c]]
    BY DEF Row
  <2>2. /\ row.active \in BOOLEAN /\ row.pii \in PiiActions
        /\ row.code \in PolicyActions /\ row.sensitive \in PolicyActions
        /\ row.blocked \in SUBSET Countries
        /\ row.allowed \in [Countries \cup Regions -> Seq(Providers)]
        /\ row.custom \in SUBSET Patterns
    BY DEF Row
  <2>3. \A c \in DOMAIN Column : row[c] \in Column[c]
    <3>1. /\ Column["active"] = BOOLEAN /\ Column["pii"] = PiiActions
          /\ Column["code"] = PolicyActions /\ Column["sensitive"] = PolicyActions
          /\ Column["blocked"] = SUBSET Countries
          /\ Column["allowed"] = [Countries \cup Regions -> Seq(Providers)]
          /\ Column["custom"] = SUBSET Patterns
      BY DEF Column
    <3>2. SUFFICES ASSUME NEW c \in {"active", "pii", "code", "sensitive", "blocked",
                                     "allowed", "custom"}
                   PROVE  row[c] \in Column[c]
      BY <1>1
    <3> QED BY <2>2, <3>1, Zenon
  <2>4. row = [c \in DOMAIN Column |-> row[c]]
    BY <1>1, <2>1, Zenon
  <2> QED BY <2>3, <2>4
<1>3. ASSUME row = [c \in DOMAIN Column |-> row[c]],
             \A c \in DOMAIN Column : row[c] \in Column[c]
      PROVE  row \in Row
  <2>1. DOMAIN row = {"active", "pii", "code", "sensitive", "blocked", "allowed", "custom"}
    BY <1>1, <1>3
  <2>2. /\ row["active"] \in BOOLEAN /\ row["pii"] \in PiiActions
        /\ row["code"] \in PolicyActions /\ row["sensitive"] \in PolicyActions
        /\ row["blocked"] \in SUBSET Countries
        /\ row["allowed"] \in [Countries \cup Regions -> Seq(Providers)]
        /\ row["custom"] \in SUBSET Patterns
    BY <1>1, <1>3 DEF Column
  <2>3. row = [c \in {"active", "pii", "code", "sensitive", "blocked", "allowed",
                      "custom"} |-> row[c]]
    BY <1>1, <1>3
  <2> QED BY <2>2, <2>3 DEF Row
<1> QED BY <1>2, <1>3

\* A PUT leaves a row.
LEMMA PutIsRow ==
  ASSUME NEW row \in Row, NEW put \in Updates
  PROVE  Put(row, put) \in Row
<1>1. DOMAIN put \subseteq DOMAIN Column /\ \A c \in DOMAIN put : put[c] \in Column[c]
  BY UpdateAssumption
<1>2. DOMAIN row = DOMAIN Column /\ \A c \in DOMAIN Column : row[c] \in Column[c]
  BY RowByColumns
<1> QED BY <1>1, <1>2, RowByColumns DEF Put

\* What any edit makes of a row is a row.
LEMMA WantedAreRows ==
  ASSUME NEW row \in Row
  PROVE  Wanted(row) \subseteq Row
<1>1. \A put \in Updates : Put(row, put) \in Row
  BY PutIsRow
<1>2. \A p \in Patterns : [row EXCEPT !.custom = @ \cup {p}] \in Row
  BY DEF Row
<1>3. \A p : [row EXCEPT !.custom = @ \ {p}] \in Row
  BY DEF Row
<1> QED BY <1>1, <1>2, <1>3 DEF Wanted

\* An UPDATE takes each column from one of two rows; of the row there was, it
\* makes the row that was asked for.
LEMMA WrittenIsRow ==
  ASSUME NEW old \in Row, NEW new \in Row, NEW now \in Row
  PROVE  /\ Written(old, new, now) \in Row
         /\ Written(old, new, old) = new
         /\ \A c \in DOMAIN now : old[c] = new[c] => Written(old, new, now)[c] = now[c]
<1>1. DOMAIN now = DOMAIN Column /\ DOMAIN old = DOMAIN Column
      /\ new = [c \in DOMAIN Column |-> new[c]]
  BY RowByColumns
<1>2. \A c \in DOMAIN Column : new[c] \in Column[c] /\ now[c] \in Column[c]
  BY RowByColumns
<1>3. Written(old, new, now) \in Row
  BY <1>1, <1>2, RowByColumns DEF Written
<1> QED BY <1>1, <1>3 DEF Written

-----------------------------------------------------------------------------
(* The invariant of the policy's handlers. *)

PolicyTypes ==
  /\ policies \subseteq Row /\ copy \subseteq Row /\ \A x, y \in policies : x = y
  /\ eval \in [Evaluations -> [at : {"new", "select", "insert", "cache", "decide", "done",
                                     "failed"}, text : Texts, loaded : SUBSET Row]]
  /\ edit \in [Editors -> [at : {"new", "select", "insert", "commit", "delete", "done",
                                 "failed"}, loaded : SUBSET Row, row : SUBSET Row]]
  /\ since \in [Handlers -> SUBSET SUBSET Row]
  /\ asked \in Row /\ orderly \in BOOLEAN

\* Handlers begin once create_org is over, and there is no row before; until
\* there is one, the default is what it will be.
Begun ==
  /\ \A e \in Evaluations : eval[e].at # "new" => org = "ready"
  /\ \A a \in Editors : edit[a].at # "new" => org = "ready"
  /\ org # "ready" => policies = {}
  /\ policies = {} => asked = Default

\* An evaluation past its SELECT has loaded one row, which was there since it
\* began; it inserts, and fails, only if there was none.
Judged(e) ==
  /\ e \in Evaluating => policies \in since[e]
  /\ eval[e].at \in {"cache", "decide", "done"} =>
       eval[e].loaded \in since[e] /\ \E row \in Row : eval[e].loaded = {row}
  /\ eval[e].at \in {"insert", "failed"} => {} \in since[e]

\* An edit about to commit has loaded one row and made another of it.
Edited(a) ==
  /\ a \in Editing => policies \in since[a]
  /\ edit[a].at = "commit" =>
       policies # {} /\ \E old, new \in Row : edit[a].loaded = {old} /\ edit[a].row = {new}
  /\ edit[a].at \in {"insert", "failed"} => {} \in since[a]

\* As long as no edits overlap: the one about to commit has loaded the row there
\* is and makes of it what is asked; with none about to commit, it has been made.
InTurn ==
  orderly =>
    /\ \A a, b \in Editing : a = b
    /\ \A a \in Editors : edit[a].at = "commit" =>
         edit[a].loaded = policies /\ edit[a].row = {asked}
    /\ (\A a \in Editors : edit[a].at # "commit") => policies \subseteq {asked}

PolicyInv ==
  /\ PolicyTypes /\ Begun /\ InTurn
  /\ \A e \in Evaluations : Judged(e)
  /\ \A a \in Editors : Edited(a)

\* A commit becomes history for everyone under way.
LEMMA CommitIsHistory ==
  ASSUME PolicyTypes, NEW rows \in SUBSET Row, Commits(rows)
  PROVE  /\ policies' = rows /\ since' \in [Handlers -> SUBSET SUBSET Row]
         /\ \A h \in Handlers : since[h] \subseteq since'[h]
         /\ \A h \in Evaluating \cup Editing : rows \in since'[h]
<1>1. since' = [h \in Handlers |->
                  IF h \in Evaluating \cup Editing THEN since[h] \cup {rows} ELSE since[h]]
  BY DEF Commits
<1>2. Evaluating \cup Editing \subseteq Handlers
  BY DEF Evaluating, Editing, Handlers
<1>3. \A h \in Handlers : since[h] \in SUBSET SUBSET Row
  BY DEF PolicyTypes
<1>4. since' \in [Handlers -> SUBSET SUBSET Row]
  BY <1>1, <1>3
<1> QED BY <1>1, <1>2, <1>4 DEF Commits

\* An evaluation's step: its own part is what remains to be shown.
LEMMA EvaluationStep ==
  ASSUME PolicyInv, NEW e \in Evaluations, org = "ready",
         UNCHANGED <<org, edit, asked, orderly>>, copy' \subseteq Row,
         policies' = policies \/ (policies = {} /\ policies' = {Default}),
         eval' \in [Evaluations -> [at : {"new", "select", "insert", "cache", "decide",
                                         "done", "failed"},
                                    text : Texts, loaded : SUBSET Row]],
         \A x \in Evaluations : x # e => eval'[x] = eval[x],
         since' \in [Handlers -> SUBSET SUBSET Row],
         \A h \in Handlers : h # e => since[h] \subseteq since'[h],
         \A h \in Evaluating \cup Editing : h # e => policies' \in since'[h],
         Judged(e)'
  PROVE  PolicyInv'
<1>. USE DEF PolicyInv
<1>1. PolicyTypes'
  BY DefaultIsRow DEF PolicyTypes
<1>2. Begun'
  BY DEF Begun
<1>3. \A x \in Evaluations : Judged(x)'
  <2>. SUFFICES ASSUME NEW x \in Evaluations, x # e PROVE Judged(x)'
    OBVIOUS
  <2>1. eval'[x] = eval[x] /\ since[x] \subseteq since'[x]
    BY DEF Handlers
  <2>2. x \in Evaluating' => x \in Evaluating
    BY <2>1 DEF Evaluating
  <2> QED BY <2>1, <2>2 DEF Judged
<1>4. \A a \in Editors : Edited(a)'
  <2>. SUFFICES ASSUME NEW a \in Editors PROVE Edited(a)'
    OBVIOUS
  <2>1. a # e /\ a \in Handlers
    BY PolicyAssumption DEF Handlers
  <2>2. since[a] \subseteq since'[a] /\ (a \in Editing' => a \in Editing)
    BY <2>1 DEF Editing
  <2>3. policies # {} => policies' # {}
    OBVIOUS
  <2> QED BY <2>1, <2>2, <2>3 DEF Edited
<1>5. InTurn'
  <2>1. CASE policies' = policies
    BY <2>1 DEF InTurn, Editing
  <2>2. CASE policies = {} /\ policies' = {Default}
    <3>1. asked' = Default /\ \A a \in Editors : edit'[a].at # "commit"
      BY <2>2 DEF Begun, Edited
    <3>2. orderly' => \A a, b \in Editing' : a = b
      BY DEF InTurn, Editing
    <3> QED BY <2>2, <3>1, <3>2 DEF InTurn
  <2> QED BY <2>1, <2>2
<1> QED BY <1>1, <1>2, <1>3, <1>4, <1>5

\* An editor's step: its own part, and the turns, are what remains to be shown.
LEMMA EditorStep ==
  ASSUME PolicyInv, NEW a \in Editors, org = "ready",
         UNCHANGED <<org, eval>>, copy' \subseteq Row,
         policies' \subseteq Row, \A x, y \in policies' : x = y,
         policies # {} => policies' # {}, policies' = {} => asked' = Default,
         asked' \in Row, orderly' \in BOOLEAN,
         edit' \in [Editors -> [at : {"new", "select", "insert", "commit", "delete", "done",
                                      "failed"}, loaded : SUBSET Row, row : SUBSET Row]],
         \A b \in Editors : b # a => edit'[b] = edit[b],
         since' \in [Handlers -> SUBSET SUBSET Row],
         \A h \in Handlers : h # a => since[h] \subseteq since'[h],
         \A h \in Evaluating \cup Editing : h # a => policies' \in since'[h],
         Edited(a)', InTurn'
  PROVE  PolicyInv'
<1>. USE DEF PolicyInv
<1>1. PolicyTypes'
  BY DEF PolicyTypes
<1>2. Begun'
  BY DEF Begun
<1>3. \A e \in Evaluations : Judged(e)'
  <2>. SUFFICES ASSUME NEW e \in Evaluations PROVE Judged(e)'
    OBVIOUS
  <2>1. a # e /\ e \in Handlers
    BY PolicyAssumption DEF Handlers
  <2>2. since[e] \subseteq since'[e] /\ (e \in Evaluating' => e \in Evaluating)
    BY <2>1 DEF Evaluating
  <2> QED BY <2>1, <2>2 DEF Judged
<1>4. \A b \in Editors : Edited(b)'
  <2>. SUFFICES ASSUME NEW b \in Editors, b # a PROVE Edited(b)'
    OBVIOUS
  <2>1. edit'[b] = edit[b] /\ since[b] \subseteq since'[b]
    BY DEF Handlers
  <2>2. b \in Editing' => b \in Editing
    BY <2>1 DEF Editing
  <2> QED BY <2>1, <2>2 DEF Edited
<1> QED BY <1>1, <1>2, <1>3, <1>4

-----------------------------------------------------------------------------
(* The steps. *)

LEMMA PolicyStarts == ASSUME PolicyInit PROVE PolicyInv
<1>. USE DEF PolicyInit
<1>1. PolicyTypes
  BY DefaultIsRow DEF PolicyTypes
<1>2. Begun
  BY DEF Begun
<1>3. \A e \in Evaluations : eval[e].at = "new"
  OBVIOUS
<1>4. \A e \in Evaluations : Judged(e)
  BY <1>3 DEF Judged, Evaluating
<1>5. \A a \in Editors : Edited(a)
  BY DEF Edited, Editing
<1>6. InTurn
  BY DEF InTurn, Editing
<1> QED BY <1>1, <1>2, <1>4, <1>5, <1>6 DEF PolicyInv

\* The organisation is made, with its policy or without: nobody has begun.
LEMMA OrgSteps ==
  ASSUME PolicyInv, CreateOrg \/ SeedPolicy \/ DieCreating \/ ExpireCopy
  PROVE  PolicyInv'
<1>. USE DEF PolicyInv
<1>1. CASE ExpireCopy
  <2>. UNCHANGED <<org, policies, eval, edit, since, asked, orderly>> /\ copy' = {}
    BY <1>1 DEF ExpireCopy
  <2> QED
    BY DEF PolicyTypes, Begun, InTurn, Judged, Edited, Evaluating, Editing
<1>2. CASE CreateOrg \/ SeedPolicy \/ DieCreating
  <2>1. /\ org # "ready" /\ UNCHANGED <<copy, eval, edit, asked, orderly>>
        /\ \/ UNCHANGED <<policies, since>>
           \/ Commits({Default}) /\ org' = "ready"
    BY <1>2 DEF CreateOrg, SeedPolicy, DieCreating
  <2>2. /\ policies = {} /\ asked = Default
        /\ \A e \in Evaluations : eval[e].at = "new"
        /\ \A a \in Editors : edit[a].at = "new"
    BY <2>1 DEF Begun
  <2>3. /\ \A e \in Evaluations : eval'[e].at = "new"
        /\ \A a \in Editors : edit'[a].at = "new"
    BY <2>1, <2>2
  <2>4. (policies' = {} \/ policies' = {Default}) /\ since' \in [Handlers -> SUBSET SUBSET Row]
        /\ (policies' = {} \/ org' = "ready")
    <3>1. CASE UNCHANGED <<policies, since>>
      BY <2>2, <3>1 DEF PolicyTypes
    <3>2. CASE Commits({Default}) /\ org' = "ready"
      BY <3>2, DefaultIsRow, CommitIsHistory
    <3> QED BY <2>1, <3>1, <3>2
  <2>5. PolicyTypes' /\ Begun'
    BY <2>1, <2>2, <2>3, <2>4, DefaultIsRow DEF PolicyTypes, Begun
  <2>6. \A e \in Evaluations : Judged(e)'
    BY <2>3 DEF Judged, Evaluating
  <2>7. (\A a \in Editors : Edited(a)') /\ InTurn'
    BY <2>1, <2>2, <2>3, <2>4 DEF Edited, InTurn, Editing
  <2> QED BY <2>5, <2>6, <2>7
<1> QED BY <1>1, <1>2

LEMMA BeginEvaluationKeeps ==
  ASSUME PolicyInv, NEW e \in Evaluations, BeginEvaluation(e)
  PROVE  PolicyInv'
<1>1. /\ UNCHANGED <<org, policies, copy, edit, asked, orderly>> /\ org = "ready"
      /\ eval' = [eval EXCEPT ![e].at = "select"]
      /\ since' = [since EXCEPT ![e] = {policies}] /\ e \in Handlers
  BY DEF BeginEvaluation, CanBegin, Handlers
<1>2. PolicyTypes /\ \A h \in Evaluating \cup Editing : h \in Handlers /\ policies \in since[h]
  BY DEF PolicyInv, Judged, Edited, Handlers, Evaluating, Editing
<1>3. since' \in [Handlers -> SUBSET SUBSET Row] /\ policies' \in since'[e]
      /\ eval'[e].at = "select"
  BY <1>1, <1>2 DEF PolicyTypes
<1>4. Judged(e)'
  BY <1>3 DEF Judged
<1> QED BY <1>1, <1>2, <1>3, <1>4, EvaluationStep DEF PolicyTypes

LEMMA SelectPolicyKeeps ==
  ASSUME PolicyInv, NEW e \in Evaluations, SelectPolicy(e)
  PROVE  PolicyInv'
<1>1. /\ UNCHANGED <<org, policies, copy, edit, since, asked, orderly>>
      /\ eval[e].at = "select"
      /\ eval' = [eval EXCEPT ![e].at = IF policies = {} THEN "insert" ELSE "cache",
                              ![e].loaded = policies]
  BY DEF SelectPolicy
<1>2. org = "ready" /\ e \in Evaluating
  BY <1>1 DEF PolicyInv, Begun, Evaluating
<1>3. PolicyTypes /\ \A h \in Evaluating \cup Editing : policies \in since[h]
  BY DEF PolicyInv, Judged, Edited, Evaluating, Editing
<1>4. eval' \in [Evaluations -> [at : {"new", "select", "insert", "cache", "decide", "done",
                                       "failed"}, text : Texts, loaded : SUBSET Row]]
      /\ eval'[e].at = (IF policies = {} THEN "insert" ELSE "cache")
      /\ eval'[e].loaded = policies
  <2>. DEFINE to == IF policies = {} THEN "insert" ELSE "cache"
              next == [eval[e] EXCEPT !.at = to, !.loaded = policies]
  <2>1. /\ next \in [at : {"new", "select", "insert", "cache", "decide", "done", "failed"},
                     text : Texts, loaded : SUBSET Row]
        /\ next.at = to /\ next.loaded = policies
    BY <1>3 DEF PolicyTypes
  <2>2. eval' = [eval EXCEPT ![e] = next]
    BY <1>1
  <2>. HIDE DEF next
  <2>. QED
    BY <1>3, <2>1, <2>2 DEF PolicyTypes
<1>5. ASSUME policies # {}
      PROVE  \E row \in Row : policies = {row}
  <2>1. PICK row \in policies : TRUE
    BY <1>5
  <2>2. row \in Row /\ \A x \in policies : x = row
    BY <1>3 DEF PolicyTypes
  <2> QED BY <2>1, <2>2
<1>6. Judged(e)'
  <2>1. policies' \in since'[e] /\ policies' = policies
    BY <1>1, <1>2, <1>3
  <2>2. CASE policies = {}
    BY <1>4, <2>1, <2>2 DEF Judged
  <2>3. CASE policies # {}
    BY <1>4, <1>5, <2>1, <2>3 DEF Judged
  <2> QED BY <2>2, <2>3
<1> QED BY <1>1, <1>2, <1>3, <1>4, <1>6, EvaluationStep DEF PolicyTypes

LEMMA InsertPolicyKeeps ==
  ASSUME PolicyInv, NEW e \in Evaluations, InsertPolicy(e)
  PROVE  PolicyInv'
<1>1. UNCHANGED <<org, copy, edit, asked, orderly>> /\ eval[e].at = "insert"
  BY DEF InsertPolicy
<1>2. org = "ready" /\ e \in Evaluating /\ {} \in since[e] /\ e \in Handlers
  BY <1>1 DEF PolicyInv, Begun, Judged, Evaluating, Handlers
<1>3. PolicyTypes /\ \A h \in Evaluating \cup Editing : policies \in since[h]
  BY DEF PolicyInv, Judged, Edited, Evaluating, Editing
<1>4. CASE policies = {}
  <2>1. /\ Commits({Default})
        /\ eval' = [eval EXCEPT ![e].at = "cache", ![e].loaded = {Default}]
    BY <1>4 DEF InsertPolicy
  <2>2. /\ policies' = {Default} /\ since' \in [Handlers -> SUBSET SUBSET Row]
        /\ \A h \in Handlers : since[h] \subseteq since'[h]
        /\ \A h \in Evaluating \cup Editing : {Default} \in since'[h]
    BY <1>3, <2>1, DefaultIsRow, CommitIsHistory
  <2>3. eval' \in [Evaluations -> [at : {"new", "select", "insert", "cache", "decide",
                                         "done", "failed"},
                                   text : Texts, loaded : SUBSET Row]]
        /\ eval'[e].at = "cache" /\ eval'[e].loaded = {Default}
    BY <1>3, <2>1, DefaultIsRow DEF PolicyTypes
  <2>4. Judged(e)'
    BY <1>2, <2>2, <2>3, DefaultIsRow DEF Judged
  <2> QED BY <1>1, <1>2, <1>3, <1>4, <2>1, <2>2, <2>3, <2>4, EvaluationStep DEF PolicyTypes
<1>5. CASE policies # {}
  <2>1. eval' = [eval EXCEPT ![e].at = "failed"] /\ UNCHANGED <<policies, since>>
    BY <1>5 DEF InsertPolicy
  <2>2. eval' \in [Evaluations -> [at : {"new", "select", "insert", "cache", "decide",
                                         "done", "failed"},
                                   text : Texts, loaded : SUBSET Row]]
        /\ eval'[e].at = "failed"
    BY <1>3, <2>1 DEF PolicyTypes
  <2>3. Judged(e)'
    BY <1>2, <2>1, <2>2 DEF Judged, Evaluating
  <2> QED BY <1>1, <1>2, <1>3, <2>1, <2>2, <2>3, EvaluationStep DEF PolicyTypes
<1> QED BY <1>4, <1>5

LEMMA CacheAndFormKeep ==
  ASSUME PolicyInv, NEW e \in Evaluations, CachePolicy(e) \/ FormVerdict(e)
  PROVE  PolicyInv'
<1>1. /\ UNCHANGED <<org, policies, edit, since, asked, orderly>>
      /\ eval[e].at \in {"cache", "decide"} /\ copy' \in {copy, eval[e].loaded}
      /\ \E at \in {"decide", "done"} : eval' = [eval EXCEPT ![e].at = at]
  BY DEF CachePolicy, FormVerdict
<1>2. org = "ready" /\ e \in Evaluating /\ Judged(e)
  BY <1>1 DEF PolicyInv, Begun, Evaluating
<1>3. PolicyTypes /\ \A h \in Evaluating \cup Editing : policies \in since[h]
  BY DEF PolicyInv, Judged, Edited, Evaluating, Editing
<1>4. eval' \in [Evaluations -> [at : {"new", "select", "insert", "cache", "decide", "done",
                                       "failed"}, text : Texts, loaded : SUBSET Row]]
      /\ eval'[e].at \in {"decide", "done"} /\ eval'[e].loaded = eval[e].loaded
      /\ eval[e].loaded \subseteq Row
  BY <1>1, <1>3 DEF PolicyTypes
<1>5. Judged(e)'
  BY <1>1, <1>2, <1>4 DEF Judged
<1> QED BY <1>1, <1>2, <1>3, <1>4, <1>5, EvaluationStep DEF PolicyTypes

LEMMA BeginEditKeeps ==
  ASSUME PolicyInv, NEW a \in Editors, BeginEdit(a)
  PROVE  PolicyInv'
<1>1. /\ UNCHANGED <<org, policies, copy, eval, asked>> /\ org = "ready"
      /\ edit' = [edit EXCEPT ![a].at = "select"]
      /\ since' = [since EXCEPT ![a] = {policies}] /\ a \in Handlers
      /\ orderly' = (orderly /\ Editing = {}) /\ edit[a].at = "new"
  BY DEF BeginEdit, CanBegin, Handlers
<1>2. PolicyTypes /\ \A h \in Evaluating \cup Editing : h \in Handlers /\ policies \in since[h]
  BY DEF PolicyInv, Judged, Edited, Handlers, Evaluating, Editing
<1>3. since' \in [Handlers -> SUBSET SUBSET Row] /\ policies' \in since'[a]
      /\ edit'[a].at = "select" /\ \A b \in Editors : b # a => edit'[b] = edit[b]
  BY <1>1, <1>2 DEF PolicyTypes
<1>4. edit' \in [Editors -> [at : {"new", "select", "insert", "commit", "delete", "done",
                                   "failed"}, loaded : SUBSET Row, row : SUBSET Row]]
  BY <1>1, <1>2 DEF PolicyTypes
<1>5. Edited(a)'
  BY <1>3 DEF Edited
<1>6. InTurn'
  <2>. SUFFICES ASSUME orderly' PROVE InTurn'
    BY DEF InTurn
  <2>1. orderly /\ Editing = {}
    BY <1>1
  <2>2. Editing' \subseteq {a} /\ \A b \in Editors : edit[b].at # "commit"
    BY <1>3, <2>1 DEF Editing
  <2>3. policies' \subseteq {asked'} /\ \A b \in Editors : edit'[b].at # "commit"
    BY <1>1, <1>3, <2>1, <2>2 DEF InTurn, PolicyInv
  <2> QED BY <2>2, <2>3 DEF InTurn
<1>7. orderly' \in BOOLEAN
  BY <1>1
<1>8. Begun
  BY DEF PolicyInv
<1> QED BY <1>1, <1>2, <1>3, <1>4, <1>5, <1>6, <1>7, <1>8, EditorStep DEF PolicyTypes, Begun

\* What the steps of an editor under way have in common.
LEMMA EditorUnderWay ==
  ASSUME PolicyInv, NEW a \in Editors, edit[a].at \notin {"new", "done", "failed"}
  PROVE  /\ org = "ready" /\ a \in Editing /\ a \in Handlers /\ Edited(a)
         /\ PolicyTypes /\ Begun
         /\ \A h \in Evaluating \cup Editing : policies \in since[h]
         /\ orderly => \A b \in Editing : b = a
<1>1. a \in Editing /\ a \in Handlers
  BY DEF Editing, Handlers
<1>2. \A h \in Evaluating \cup Editing : policies \in since[h]
  BY DEF PolicyInv, Judged, Edited, Evaluating, Editing
<1>3. orderly => \A b \in Editing : b = a
  BY <1>1 DEF PolicyInv, InTurn
<1> QED BY <1>1, <1>2, <1>3 DEF PolicyInv, Begun

LEMMA LoadRowKeeps ==
  ASSUME PolicyInv, NEW a \in Editors, LoadRow(a)
  PROVE  PolicyInv'
<1>1. /\ UNCHANGED <<org, policies, copy, eval, orderly>>
      /\ edit[a].at = "select" /\ policies # {}
  BY DEF LoadRow
<1>2. /\ org = "ready" /\ a \in Editing /\ a \in Handlers /\ Edited(a)
      /\ PolicyTypes /\ Begun
      /\ \A h \in Evaluating \cup Editing : policies \in since[h]
      /\ orderly => \A b \in Editing : b = a
  BY <1>1, EditorUnderWay
<1>3. PICK row \in policies :
        \/ \E new \in Wanted(row) :
             /\ edit' = [edit EXCEPT ![a] = [at |-> "commit", loaded |-> {row}, row |-> {new}]]
             /\ asked' = new
             /\ UNCHANGED since
        \/ /\ edit' = [edit EXCEPT ![a].at = "done"]
           /\ since' = [since EXCEPT ![a] = {}]
           /\ UNCHANGED asked
  BY DEF LoadRow
<1>4. row \in Row /\ policies = {row}
  BY <1>2 DEF PolicyTypes
<1>5. CASE \E new \in Wanted(row) :
             /\ edit' = [edit EXCEPT ![a] = [at |-> "commit", loaded |-> {row}, row |-> {new}]]
             /\ asked' = new
             /\ UNCHANGED since
  <2>1. PICK new \in Row :
          /\ edit' = [edit EXCEPT ![a] = [at |-> "commit", loaded |-> {row}, row |-> {new}]]
          /\ asked' = new
          /\ UNCHANGED since
    BY <1>4, <1>5, WantedAreRows
  <2>2. /\ edit'[a] = [at |-> "commit", loaded |-> {row}, row |-> {new}]
        /\ \A b \in Editors : b # a => edit'[b] = edit[b]
    BY <1>2, <2>1 DEF PolicyTypes
  <2>3. edit' \in [Editors -> [at : {"new", "select", "insert", "commit", "delete", "done",
                                     "failed"}, loaded : SUBSET Row, row : SUBSET Row]]
    BY <1>2, <1>4, <2>1 DEF PolicyTypes
  <2>4. Edited(a)'
    BY <1>1, <1>2, <1>4, <2>1, <2>2 DEF Edited
  <2>5. InTurn'
    <3>. SUFFICES ASSUME orderly' PROVE InTurn'
      BY DEF InTurn
    <3>1. \A b \in Editing' : b = a
      BY <1>1, <1>2, <2>2 DEF Editing
    <3>2. \A b \in Editors : edit'[b].at = "commit" => b = a
      BY <3>1 DEF Editing
    <3>3. edit'[a].at = "commit" /\ edit'[a].loaded = policies' /\ edit'[a].row = {asked'}
      BY <1>1, <1>4, <2>1, <2>2
    <3> QED BY <3>1, <3>2, <3>3 DEF InTurn
  <2> QED BY <1>1, <1>2, <2>1, <2>2, <2>3, <2>4, <2>5, EditorStep DEF PolicyTypes
<1>6. CASE /\ edit' = [edit EXCEPT ![a].at = "done"]
           /\ since' = [since EXCEPT ![a] = {}]
           /\ UNCHANGED asked
  <2>1. /\ edit'[a].at = "done" /\ \A b \in Editors : b # a => edit'[b] = edit[b]
        /\ since' \in [Handlers -> SUBSET SUBSET Row]
        /\ \A h \in Handlers : h # a => since'[h] = since[h]
    BY <1>2, <1>6 DEF PolicyTypes
  <2>2. edit' \in [Editors -> [at : {"new", "select", "insert", "commit", "delete", "done",
                                     "failed"}, loaded : SUBSET Row, row : SUBSET Row]]
    BY <1>2, <1>6 DEF PolicyTypes
  <2>3. Edited(a)'
    BY <2>1 DEF Edited, Editing
  <2>4. InTurn'
    <3>. SUFFICES ASSUME orderly' PROVE InTurn'
      BY DEF InTurn
    <3>1. orderly /\ asked' = asked
      BY <1>1, <1>6
    <3>2. \A b \in Editors : edit[b].at # "commit"
      BY <1>1, <1>2, <3>1 DEF Editing
    <3>3. policies' \subseteq {asked'} /\ \A b \in Editors : edit'[b].at # "commit"
      BY <1>1, <2>1, <3>1, <3>2 DEF InTurn, PolicyInv
    <3>4. \A b, c \in Editing' : b = c
      BY <1>1, <1>2, <2>1 DEF Editing
    <3> QED BY <3>3, <3>4 DEF InTurn
  <2>5. \A h \in Evaluating \cup Editing : h \in Handlers
    BY DEF Evaluating, Editing, Handlers
  <2> QED BY <1>1, <1>2, <1>6, <2>1, <2>2, <2>3, <2>4, <2>5, EditorStep DEF PolicyTypes
<1> QED BY <1>3, <1>5, <1>6

\* A step of an editor that changes no row: from any stage but "commit", or from
\* an editor done, the turns stay as they are.
LEMMA TurnsStay ==
  ASSUME PolicyInv, NEW a \in Editors, edit[a].at \notin {"new", "commit", "done", "failed"},
         UNCHANGED <<policies, asked, orderly>>, edit'[a].at # "commit",
         \A b \in Editors : b # a => edit'[b] = edit[b]
  PROVE  InTurn'
<1>. SUFFICES ASSUME orderly' PROVE InTurn'
  BY DEF InTurn
<1>1. orderly /\ a \in Editing /\ \A b \in Editing : b = a
  BY EditorUnderWay
<1>2. \A b \in Editors : edit[b].at # "commit"
  BY <1>1 DEF Editing
<1>3. policies' \subseteq {asked'} /\ \A b \in Editors : edit'[b].at # "commit"
  BY <1>1, <1>2 DEF InTurn, PolicyInv
<1>4. \A b, c \in Editing' : b = c
  BY <1>1 DEF Editing
<1> QED BY <1>3, <1>4 DEF InTurn

LEMMA LoadNoneKeeps ==
  ASSUME PolicyInv, NEW a \in Editors, LoadNone(a)
  PROVE  PolicyInv'
<1>1. /\ UNCHANGED <<org, policies, copy, eval, since, asked, orderly>>
      /\ edit[a].at = "select" /\ policies = {}
      /\ edit' = [edit EXCEPT ![a].at = "insert"]
  BY DEF LoadNone
<1>2. /\ org = "ready" /\ a \in Editing /\ PolicyTypes /\ Begun
      /\ \A h \in Evaluating \cup Editing : policies \in since[h]
  BY <1>1, EditorUnderWay
<1>3. /\ edit' \in [Editors -> [at : {"new", "select", "insert", "commit", "delete", "done",
                                      "failed"}, loaded : SUBSET Row, row : SUBSET Row]]
      /\ edit'[a].at = "insert" /\ \A b \in Editors : b # a => edit'[b] = edit[b]
  BY <1>1, <1>2 DEF PolicyTypes
<1>4. Edited(a)'
  BY <1>1, <1>2, <1>3 DEF Edited
<1>5. InTurn'
  BY <1>1, <1>3, TurnsStay
<1> QED BY <1>1, <1>2, <1>3, <1>4, <1>5, EditorStep DEF PolicyTypes, Begun

LEMMA InsertRowKeeps ==
  ASSUME PolicyInv, NEW a \in Editors, InsertRow(a)
  PROVE  PolicyInv'
<1>1. UNCHANGED <<org, copy, eval, asked, orderly>> /\ edit[a].at = "insert"
  BY DEF InsertRow
<1>2. /\ org = "ready" /\ a \in Editing /\ PolicyTypes /\ Begun /\ Edited(a)
      /\ \A h \in Evaluating \cup Editing : policies \in since[h]
      /\ orderly => \A b \in Editing : b = a
      /\ a \in Handlers
  BY <1>1, EditorUnderWay
<1>3. CASE policies = {}
  <2>1. Commits({Default}) /\ edit' = [edit EXCEPT ![a].at = "select"]
    BY <1>3 DEF InsertRow
  <2>2. /\ policies' = {Default} /\ since' \in [Handlers -> SUBSET SUBSET Row]
        /\ \A h \in Handlers : since[h] \subseteq since'[h]
        /\ \A h \in Evaluating \cup Editing : {Default} \in since'[h]
    BY <1>2, <2>1, DefaultIsRow, CommitIsHistory
  <2>3. /\ edit' \in [Editors -> [at : {"new", "select", "insert", "commit", "delete", "done",
                                        "failed"}, loaded : SUBSET Row, row : SUBSET Row]]
        /\ edit'[a].at = "select" /\ \A b \in Editors : b # a => edit'[b] = edit[b]
    BY <1>2, <2>1 DEF PolicyTypes
  <2>4. Edited(a)'
    BY <1>2, <2>2, <2>3 DEF Edited
  <2>5. InTurn'
    <3>. SUFFICES ASSUME orderly' PROVE InTurn'
      BY DEF InTurn
    <3>1. \A b \in Editing' : b = a
      BY <1>1, <1>2, <2>3 DEF Editing
    <3>2. \A b \in Editors : edit'[b].at # "commit"
      BY <2>3, <3>1 DEF Editing
    <3>3. policies' = {asked'}
      BY <1>1, <1>2, <1>3, <2>2 DEF Begun
    <3> QED BY <3>1, <3>2, <3>3 DEF InTurn
  <2>6. Default \in Row /\ asked' \in Row /\ orderly' \in BOOLEAN /\ copy' \subseteq Row
    BY <1>1, <1>2, DefaultIsRow DEF PolicyTypes
  <2> QED BY <1>1, <1>2, <2>2, <2>3, <2>4, <2>5, <2>6, EditorStep
<1>4. CASE policies # {}
  <2>1. edit' = [edit EXCEPT ![a].at = "failed"] /\ UNCHANGED <<policies, since>>
    BY <1>4 DEF InsertRow
  <2>2. /\ edit' \in [Editors -> [at : {"new", "select", "insert", "commit", "delete", "done",
                                        "failed"}, loaded : SUBSET Row, row : SUBSET Row]]
        /\ edit'[a].at = "failed" /\ \A b \in Editors : b # a => edit'[b] = edit[b]
    BY <1>2, <2>1 DEF PolicyTypes
  <2>3. Edited(a)'
    BY <1>1, <1>2, <2>1, <2>2 DEF Edited, Editing
  <2>4. InTurn'
    BY <1>1, <2>1, <2>2, TurnsStay
  <2> QED BY <1>1, <1>2, <1>4, <2>1, <2>2, <2>3, <2>4, EditorStep DEF PolicyTypes
<1> QED BY <1>3, <1>4

LEMMA DeleteCopyKeeps ==
  ASSUME PolicyInv, NEW a \in Editors, DeleteCopy(a)
  PROVE  PolicyInv'
<1>1. /\ UNCHANGED <<org, policies, eval, asked, orderly>> /\ copy' \in {copy, {}}
      /\ edit[a].at = "delete" /\ since' = [since EXCEPT ![a] = {}]
      /\ edit' = [edit EXCEPT ![a] = [at |-> "done", loaded |-> {}, row |-> {}]]
  BY DEF DeleteCopy
<1>2. /\ org = "ready" /\ a \in Editing /\ a \in Handlers /\ PolicyTypes /\ Begun
      /\ \A h \in Evaluating \cup Editing : h \in Handlers /\ policies \in since[h]
  BY <1>1, EditorUnderWay DEF Evaluating, Editing, Handlers
<1>3. /\ edit' \in [Editors -> [at : {"new", "select", "insert", "commit", "delete", "done",
                                      "failed"}, loaded : SUBSET Row, row : SUBSET Row]]
      /\ edit'[a].at = "done" /\ \A b \in Editors : b # a => edit'[b] = edit[b]
      /\ since' \in [Handlers -> SUBSET SUBSET Row]
      /\ \A h \in Handlers : h # a => since'[h] = since[h]
  BY <1>1, <1>2 DEF PolicyTypes
<1>4. Edited(a)'
  BY <1>3 DEF Edited, Editing
<1>5. InTurn'
  BY <1>1, <1>3, TurnsStay
<1> QED BY <1>1, <1>2, <1>3, <1>4, <1>5, EditorStep DEF PolicyTypes, Begun

\* What the commit of an edit makes of the row.
LEMMA CommitWrites ==
  ASSUME PolicyInv, NEW a \in Editors, CommitEdit(a)
  PROVE  \E old, new, now \in Row :
           /\ edit[a].loaded = {old} /\ edit[a].row = {new} /\ policies = {now}
           /\ Commits({Written(old, new, now)})
<1>1. edit[a].at = "commit" /\ PolicyTypes /\ Edited(a)
  BY DEF CommitEdit, PolicyInv
<1>2. PICK old, new \in Row : edit[a].loaded = {old} /\ edit[a].row = {new}
  BY <1>1 DEF Edited
<1>3. PICK now \in policies : Commits({Written(old, new, now)})
  BY <1>2 DEF CommitEdit
<1>4. now \in Row /\ policies = {now}
  BY <1>1 DEF PolicyTypes
<1> QED BY <1>2, <1>3, <1>4

LEMMA CommitEditKeeps ==
  ASSUME PolicyInv, NEW a \in Editors, CommitEdit(a)
  PROVE  PolicyInv'
<1>1. /\ UNCHANGED <<org, copy, eval, asked, orderly>> /\ edit[a].at = "commit"
      /\ edit' = [edit EXCEPT ![a].at = "delete"]
  BY DEF CommitEdit
<1>2. /\ org = "ready" /\ a \in Editing /\ PolicyTypes
      /\ orderly => \A b \in Editing : b = a
      /\ a \in Handlers
  BY <1>1, EditorUnderWay
<1>3. PICK old, new, now \in Row :
           /\ edit[a].loaded = {old} /\ edit[a].row = {new} /\ policies = {now}
           /\ Commits({Written(old, new, now)})
  BY CommitWrites
<1>. DEFINE written == Written(old, new, now)
<1>4. written \in Row /\ (now = old => written = new)
  BY WrittenIsRow
<1>. HIDE DEF written
<1>5. /\ policies' = {written} /\ since' \in [Handlers -> SUBSET SUBSET Row]
      /\ \A h \in Handlers : since[h] \subseteq since'[h]
      /\ \A h \in Evaluating \cup Editing : {written} \in since'[h]
  BY <1>2, <1>3, <1>4, CommitIsHistory DEF written
<1>6. /\ edit' \in [Editors -> [at : {"new", "select", "insert", "commit", "delete", "done",
                                      "failed"}, loaded : SUBSET Row, row : SUBSET Row]]
      /\ edit'[a].at = "delete" /\ \A b \in Editors : b # a => edit'[b] = edit[b]
  BY <1>1, <1>2 DEF PolicyTypes
<1>7. Edited(a)'
  BY <1>2, <1>5, <1>6 DEF Edited
<1>8. InTurn'
  <2>. SUFFICES ASSUME orderly' PROVE InTurn'
    BY DEF InTurn
  <2>1. orderly /\ edit[a].loaded = policies /\ edit[a].row = {asked}
    BY <1>1 DEF InTurn, PolicyInv
  <2>2. policies' = {asked'}
    BY <1>1, <1>3, <1>4, <1>5, <2>1
  <2>3. \A b \in Editing' : b = a
    BY <1>1, <1>2, <1>6, <2>1 DEF Editing
  <2>4. \A b \in Editors : edit'[b].at # "commit"
    BY <1>6, <2>3 DEF Editing
  <2> QED BY <2>2, <2>3, <2>4 DEF InTurn
<1>9. asked' \in Row /\ orderly' \in BOOLEAN /\ copy' \subseteq Row
  BY <1>1, <1>2 DEF PolicyTypes
<1> QED BY <1>1, <1>2, <1>4, <1>5, <1>6, <1>7, <1>8, <1>9, EditorStep

LEMMA PolicyStep ==
  ASSUME PolicyInv, [PolicyNext]_policyVars
  PROVE  PolicyInv'
<1>1. CASE UNCHANGED policyVars
  BY <1>1 DEF policyVars, PolicyInv, PolicyTypes, Begun, InTurn, Judged, Edited,
              Evaluating, Editing
<1>2. CASE CreateOrg \/ SeedPolicy \/ DieCreating \/ ExpireCopy
  BY <1>2, OrgSteps
<1>3. CASE \E e \in Evaluations : BeginEvaluation(e) \/ HandleEvaluation(e)
  BY <1>3, BeginEvaluationKeeps, SelectPolicyKeeps, InsertPolicyKeeps, CacheAndFormKeep
     DEF HandleEvaluation
<1>4. CASE \E a \in Editors : BeginEdit(a) \/ HandleEdit(a)
  BY <1>4, BeginEditKeeps, LoadRowKeeps, LoadNoneKeeps, InsertRowKeeps, CommitEditKeeps,
     DeleteCopyKeeps DEF HandleEdit
<1> QED BY <1>1, <1>2, <1>3, <1>4 DEF PolicyNext

LEMMA PolicyInvHolds == PolicySpec => []PolicyInv
<1> QED BY PolicyStarts, PolicyStep, PTL DEF PolicySpec

-----------------------------------------------------------------------------
(* What the policy's handlers promise. *)

\* A verdict formed by one row is the strictest of what its checks ask for.
LEMMA RowJudges ==
  ASSUME NEW row \in Row, NEW origin, NEW provider, NEW found,
         NEW v, v = Evaluate(row, origin, provider, found), row.active
  PROVE  /\ \E k \in Kinds : v.action = Act(k, row, found, Resides(row, origin, provider))
         /\ \A k \in Kinds :
              Strictness[Act(k, row, found, Resides(row, origin, provider))]
                <= Strictness[v.action]
         /\ v.action = "redact" => v.redacted
<1>1. Decides(row)
  BY DEF Row, Decides
<1>2. v.action = Decide(row, found, Resides(row, origin, provider))
  BY DEF Evaluate
<1>3. v.action = "redact" => v.redacted
  BY <1>1, RedactionIsDone
<1> QED BY <1>1, <1>2, <1>3, StrictestDecides

\* Each evaluation is judged by a row of its policy in force since it began, and
\* as strictly as that row asks: FreshVerdict and VerdictIsStrictest.
THEOREM VerdictsFollow == PolicySpec => []VerdictFollowsPolicy
<1>1. ASSUME PolicyInv PROVE VerdictFollowsPolicy
  <2>1. FreshVerdict
    BY <1>1 DEF PolicyInv, Judged, FreshVerdict
  <2>2. VerdictIsStrictest
    <3>. SUFFICES ASSUME NEW e \in Evaluations, eval[e].at = "done",
                         NEW row \in eval[e].loaded, row.active
                  PROVE  LET v == Verdict(e)
                             strictness == [allow |-> 0, warn |-> 1, redact |-> 2, block |-> 3]
                             found == FindingsOf(eval[e].text, row.custom)
                             acts == {Act(k, row, found,
                                          Resides(row, OriginOf[e], ProviderOf[e])) :
                                        k \in Kinds}
                         IN  /\ v.action \in acts
                             /\ \A act \in acts : strictness[act] <= strictness[v.action]
                             /\ v.action = "redact" => v.redacted
      BY DEF VerdictIsStrictest
    <3>1. row \in Row /\ eval[e].loaded = {row}
      BY <1>1 DEF PolicyInv, Judged
    <3>2. (CHOOSE r \in eval[e].loaded : TRUE) = row
      BY <3>1
    <3>. DEFINE found == FindingsOf(eval[e].text, row.custom)
    <3>3. Verdict(e) = Evaluate(row, OriginOf[e], ProviderOf[e], found)
      BY <3>2 DEF Verdict
    <3>. HIDE DEF found
    <3>4. /\ \E k \in Kinds : Verdict(e).action =
                                Act(k, row, found, Resides(row, OriginOf[e], ProviderOf[e]))
          /\ \A k \in Kinds :
               Strictness[Act(k, row, found, Resides(row, OriginOf[e], ProviderOf[e]))]
                 <= Strictness[Verdict(e).action]
          /\ Verdict(e).action = "redact" => Verdict(e).redacted
      BY <3>1, <3>3, RowJudges
    <3> QED BY <3>4 DEF Strictness, found
  <2> QED BY <2>1, <2>2 DEF VerdictFollowsPolicy
<1> QED BY <1>1, PolicyInvHolds, PTL

\* The spans of a text, those of any of its custom patterns among them, are
\* finitely many.
LEMMA SpansAreFinite ==
  ASSUME NEW text \in Texts, NEW custom \in SUBSET Patterns
  PROVE  Spans(text, custom) \subseteq Span /\ IsFiniteSet(Spans(text, custom))
<1>. DEFINE Renamed(name) == {[s EXCEPT !.type = name] : s \in text.matches[name]}
            All == {Renamed(name) : name \in custom}
<1>1. /\ text.spans \subseteq Span /\ IsFiniteSet(text.spans)
      /\ \A name \in custom :
           /\ name \in STRING
           /\ text.matches[name] \subseteq Span /\ IsFiniteSet(text.matches[name])
  BY TextAssumption
<1>2. ASSUME NEW name \in custom PROVE Renamed(name) \subseteq Span /\ IsFiniteSet(Renamed(name))
  <2>1. Renamed(name) \subseteq Span
    BY <1>1 DEF Span
  <2>. DEFINE f == [s \in text.matches[name] |-> [s EXCEPT !.type = name]]
  <2>2. f \in Surjection(text.matches[name], Renamed(name))
    BY DEF Surjection
  <2>. HIDE DEF f, Renamed
  <2> QED BY <1>1, <2>1, <2>2, FS_Surjection
<1>3. IsFiniteSet(All)
  <2>. DEFINE f == [name \in custom |-> Renamed(name)]
  <2>1. f \in Surjection(custom, All)
    <3>. HIDE DEF Renamed
    <3> QED BY DEF Surjection
  <2>2. IsFiniteSet(custom)
    BY TextAssumption, FS_Subset
  <2>. HIDE DEF f, All
  <2> QED BY <2>1, <2>2, FS_Surjection
<1>4. \A S \in All : S \subseteq Span /\ IsFiniteSet(S)
  <2>. HIDE DEF Renamed
  <2> QED BY <1>2
<1>5. Spans(text, custom) = text.spans \cup UNION All
  BY DEF Spans
<1>. HIDE DEF All
<1>6. IsFiniteSet(UNION All)
  BY <1>3, <1>4, FS_UNION
<1>7. IsFiniteSet(text.spans \cup UNION All)
  BY <1>1, <1>6, FS_Union
<1> QED BY <1>1, <1>4, <1>5, <1>7

\* Whatever a prompt holds and whatever patterns the policy has, the spans that
\* are replaced do not overlap, and nothing of a found span is shown but the tail
\* of one that begins within a replaced one and ends after it.
THEOREM RedactionIsDue == PolicySpec => []RedactionHides
<1>1. ASSUME PolicyInv PROVE RedactionHides
  <2>. SUFFICES ASSUME NEW e \in Evaluations, eval[e].at = "done",
                       NEW row \in eval[e].loaded
                PROVE  LET of == Kept(eval[e].text, row.custom)
                           shown == Shown(eval[e].text, row.custom)
                       IN  /\ \A i, j \in DOMAIN of : i < j => of[i].end <= of[j].start
                           /\ \A s \in Spans(eval[e].text, row.custom) :
                                \/ (s.start .. s.end - 1) \cap shown = {}
                                \/ \E k \in DOMAIN of :
                                     of[k].start < s.start /\ s.start < of[k].end
                                       /\ of[k].end < s.end
    BY DEF RedactionHides
  <2>1. row.custom \in SUBSET Patterns /\ eval[e].text \in Texts
    BY <1>1 DEF PolicyInv, PolicyTypes, Row
  <2>. DEFINE of == Kept(eval[e].text, row.custom)
              shown == Shown(eval[e].text, row.custom)
              spans == Spans(eval[e].text, row.custom)
  <2>2. spans \subseteq Span /\ Resolves(of, spans)
    BY <2>1, SpansAreFinite, OverlapsResolve
  <2>3. shown = (0 .. eval[e].text.length - 1)
                  \ UNION {of[k].start .. of[k].end - 1 : k \in DOMAIN of}
    BY DEF Shown
  <2>. HIDE DEF of, shown, spans
  <2>4. ASSUME NEW s \in spans, NEW k \in DOMAIN of, Within(s, of[k])
        PROVE  (s.start .. s.end - 1) \cap shown = {}
    <3>1. s \in Span /\ of[k] \in Span
      BY <2>2 DEF Resolves
    <3>2. s.start .. s.end - 1 \subseteq of[k].start .. of[k].end - 1
      BY <2>4, <3>1 DEF Within, Span
    <3> QED BY <2>3, <3>2
  <2>5. \A s \in spans : \E k \in DOMAIN of : Within(s, of[k]) \/ Straddles(s, of[k])
    BY <2>2 DEF Resolves
  <2>6. \A i, j \in DOMAIN of : i < j => of[i].end <= of[j].start
    BY <2>2 DEF Resolves
  <2> QED BY <2>4, <2>5, <2>6 DEF Straddles, of, shown, spans
<1> QED BY <1>1, PolicyInvHolds, PTL

\* Edits that do not overlap are not lost, and only handlers begun before there
\* was a policy fail on another's insert: EditsSurvive and FailsOnlyAtFirst.
THEOREM EditsAreKept == PolicySpec => []EditsTakeEffect
<1>1. ASSUME PolicyInv PROVE EditsTakeEffect
  <2>1. ASSUME orderly, Editing = {}
        PROVE  \A row \in policies : row = asked
    <3>1. \A a \in Editors : edit[a].at # "commit"
      BY <2>1 DEF Editing
    <3> QED BY <1>1, <2>1, <3>1 DEF PolicyInv, InTurn
  <2>2. FailsOnlyAtFirst
    BY <1>1 DEF PolicyInv, Judged, Edited, FailsOnlyAtFirst, Handlers
  <2> QED BY <2>1, <2>2 DEF EditsTakeEffect, EditsSurvive
<1> QED BY <1>1, PolicyInvHolds, PTL

\* However edits overlap, the row changes only by the commit of one, in the
\* columns that edit set.
THEOREM ColumnsAreKept == PolicySpec => EditsKeepToTheirColumns
<1>. DEFINE Keeps == policies # {} /\ policies' # policies =>
               \E a \in Editors : edit'[a].at # edit[a].at /\
                 \A old \in policies, new \in policies', from \in edit[a].loaded,
                    to \in edit[a].row :
                   \A c \in DOMAIN old : from[c] = to[c] => old[c] = new[c]
<1>1. ASSUME PolicyInv, PolicyNext PROVE Keeps
  <2>. SUFFICES ASSUME policies # {}, policies' # policies PROVE Keeps
    OBVIOUS
  <2>1. org = "ready"
    BY <1>1 DEF PolicyInv, Begun
  <2>2. ~(CreateOrg \/ SeedPolicy \/ DieCreating \/ ExpireCopy)
    BY <2>1 DEF CreateOrg, SeedPolicy, DieCreating, ExpireCopy
  <2>3. ~(\E e \in Evaluations : BeginEvaluation(e) \/ HandleEvaluation(e))
    BY DEF BeginEvaluation, HandleEvaluation, SelectPolicy, InsertPolicy, CachePolicy,
           FormVerdict
  <2>4. \A a \in Editors : ~(BeginEdit(a) \/ LoadRow(a) \/ LoadNone(a) \/ InsertRow(a)
                               \/ DeleteCopy(a))
    BY DEF BeginEdit, LoadRow, LoadNone, InsertRow, DeleteCopy
  <2>5. PICK a \in Editors : CommitEdit(a)
    BY <1>1, <2>2, <2>3, <2>4 DEF PolicyNext, HandleEdit
  <2>6. PICK from, to, old \in Row :
           /\ edit[a].loaded = {from} /\ edit[a].row = {to} /\ policies = {old}
           /\ Commits({Written(from, to, old)})
    BY <1>1, <2>5, CommitWrites
  <2>7. policies' = {Written(from, to, old)}
    BY <2>6 DEF Commits
  <2>8. \A c \in DOMAIN old : from[c] = to[c] => old[c] = Written(from, to, old)[c]
    BY WrittenIsRow
  <2>9. edit[a].at = "commit" /\ edit'[a].at = "delete"
    BY <1>1, <2>5 DEF CommitEdit, PolicyInv, PolicyTypes
  <2> QED BY <2>6, <2>7, <2>8, <2>9
<1>2. ASSUME PolicyInv, UNCHANGED policyVars PROVE Keeps
  BY <1>2 DEF policyVars
<1>3. PolicyInv /\ [PolicyNext]_policyVars => [Keeps]_policyVars
  BY <1>1, <1>2
<1>4. PolicyInv /\ [PolicyNext]_policyVars => PolicyInv'
  BY PolicyStep
<1> QED BY <1>3, <1>4, PolicyStarts, PTL DEF PolicySpec, EditsKeepToTheirColumns

\* The stages of the organisation.
OrgStage == org \in {"none", "named", "ready"}

LEMMA OrgStays ==
  ASSUME OrgStage, [PolicyNext]_policyVars
  PROVE  OrgStage'
<1>. USE DEF OrgStage
<1>1. CASE CreateOrg \/ SeedPolicy \/ DieCreating
  BY <1>1 DEF CreateOrg, SeedPolicy, DieCreating
<1>2. CASE ExpireCopy
  BY <1>2 DEF ExpireCopy
<1>3. CASE \E e \in Evaluations : BeginEvaluation(e) \/ HandleEvaluation(e)
  BY <1>3 DEF BeginEvaluation, HandleEvaluation, SelectPolicy, InsertPolicy, CachePolicy,
              FormVerdict
<1>4. CASE \E a \in Editors : BeginEdit(a) \/ HandleEdit(a)
  BY <1>4 DEF BeginEdit, HandleEdit, LoadRow, LoadNone, InsertRow, CommitEdit, DeleteCopy
<1>5. CASE UNCHANGED policyVars
  BY <1>5 DEF policyVars
<1> QED BY <1>1, <1>2, <1>3, <1>4, <1>5 DEF PolicyNext

\* A policy has all its columns through every edit, and an evaluation that
\* decides, or has decided, has loaded exactly one row.
THEOREM PolicyTypeCorrect == PolicySpec => []PolicyTypeOK
<1>1. PolicyInit => OrgStage
  BY DEF PolicyInit, OrgStage
<1>2. PolicySpec => []OrgStage
  BY <1>1, OrgStays, PTL DEF PolicySpec
<1>3. ASSUME PolicyInv, OrgStage PROVE PolicyTypeOK
  <2>1. \A row \in policies \cup copy : DOMAIN row = DOMAIN Default
    <3>1. \A row \in Row : DOMAIN row = DOMAIN Column
      BY RowByColumns
    <3> QED BY <1>3, <3>1, DefaultIsRow DEF PolicyInv, PolicyTypes
  <2>2. ASSUME NEW e \in Evaluations, eval[e].at \in {"cache", "decide", "done"}
        PROVE  Cardinality(eval[e].loaded) = 1
    <3>1. PICK row \in Row : eval[e].loaded = {row}
      BY <1>3, <2>2 DEF PolicyInv, Judged
    <3> QED BY <3>1, FS_Singleton
  <2>3. PolicyTypes
    BY <1>3 DEF PolicyInv
  <2> QED BY <1>3, <2>1, <2>2, <2>3 DEF OrgStage, PolicyTypes, PolicyTypeOK
<1> QED BY <1>2, <1>3, PolicyInvHolds, PTL

-----------------------------------------------------------------------------
(* The invariant of the rules' handlers. *)

RouteTypes ==
  /\ DOMAIN route = Routed
  /\ DOMAIN job = RuleEditors
  /\ \A a \in RuleEditors : DOMAIN job[a] = {"at", "kind", "todo", "pending", "sent"}

\* The order some committed table had.
Known(list) == \E rows \in tables : list \in Orders(rows)

\* Lists in the copy and with a request are orders of tables there were.
Committed ==
  /\ table \in tables
  /\ \A list \in kept : Known(list)
  /\ \A r \in Routed : route[r].at \in {"cache", "done"} => Known(route[r].rules)

\* An editor that has dropped the copy and has yet to commit.
Dropped(a) ==
  job[a].at = "commit" \/ (job[a].at = "select" /\ job[a].kind = "reorder")

\* As long as nothing overlaps or fails: one handler at a time; the copy and the
\* list to be copied follow the table; there is none when the table changes.
Following ==
  smooth =>
    /\ \A r, s \in Routing : r = s
    /\ \A a, b \in Ruling : a = b
    /\ Routing = {} \/ Ruling = {}
    /\ kept \subseteq Orders(table)
    /\ \A r \in Routed : route[r].at = "cache" => route[r].rules \in Orders(table)
    /\ \A a \in RuleEditors : Dropped(a) => kept = {}

RouteInv == RouteTypes /\ Committed /\ Following

LEMMA RouteStarts == ASSUME RouteInit PROVE RouteInv
<1>. USE DEF RouteInit
<1>1. RouteTypes
  BY DEF RouteTypes
<1>2. Committed
  BY DEF Committed
<1>3. \A a \in RuleEditors : ~Dropped(a)
  BY DEF Dropped
<1>4. Following
  BY <1>3 DEF Following, Routing, Ruling
<1> QED BY <1>1, <1>2, <1>4 DEF RouteInv

\* A request's step: it goes on by a list there was, and on its own as long as
\* nothing overlaps.
LEMMA RequestStep ==
  ASSUME RouteInv, NEW r \in Routed, NEW at, NEW rules, RoutesTo(r, at, rules),
         UNCHANGED <<table, job, tables>>,
         \A list \in kept' : Known(list), at \in {"cache", "done"} => Known(rules),
         smooth' => /\ smooth /\ (r \in Routing \/ Routing \cup Ruling = {})
                    /\ kept' \subseteq Orders(table)
                    /\ at = "cache" => rules \in Orders(table)
  PROVE  RouteInv'
<1>1. RouteTypes /\ Committed /\ Following
  BY DEF RouteInv
<1>2. /\ DOMAIN route' = Routed /\ route'[r] = [at |-> at, rules |-> rules]
      /\ \A s \in Routed : s # r => route'[s] = route[s]
  BY <1>1 DEF RoutesTo, RouteTypes
<1>3. RouteTypes'
  BY <1>1, <1>2 DEF RouteTypes
<1>4. \A list : Known(list) => Known(list)'
  BY DEF Known
<1>5. Committed'
  BY <1>1, <1>2, <1>4 DEF Committed
<1>6. Following'
  <2>. SUFFICES ASSUME smooth' PROVE Following'
    BY DEF Following
  <2>1. \A s, t \in Routing : s = t
    BY <1>1 DEF Following
  <2>2. \A s \in Routing' : s = r
    BY <1>2, <2>1 DEF Routing
  <2>3. Ruling' = {}
    BY <1>1 DEF Following, Ruling
  <2>4. \A a \in RuleEditors : ~Dropped(a)'
    BY <2>3 DEF Dropped, Ruling
  <2>5. \A s \in Routed : route'[s].at = "cache" => route'[s].rules \in Orders(table')
    BY <1>1, <1>2 DEF Following
  <2> QED BY <2>2, <2>3, <2>4, <2>5 DEF Following
<1> QED BY <1>3, <1>5, <1>6 DEF RouteInv

LEMMA RequestsKeep ==
  ASSUME RouteInv, NEW r \in Routed, RulesHit(r) \/ RulesMiss(r) \/ HandleRoute(r)
  PROVE  RouteInv'
<1>1. RouteTypes /\ Committed /\ Following
  BY DEF RouteInv
<1>2. CASE RulesHit(r)
  <2>1. PICK list \in kept : RoutesTo(r, "done", list)
    BY <1>2 DEF RulesHit
  <2>2. /\ UNCHANGED <<table, kept, job, tables>>
        /\ smooth' => smooth /\ Routing \cup Ruling = {}
    BY <1>2 DEF RulesHit, Begins
  <2>3. (\A l \in kept' : Known(l)) /\ Known(list)
    BY <1>1, <2>1, <2>2 DEF Committed
  <2>4. smooth' => kept' \subseteq Orders(table)
    BY <1>1, <2>2 DEF Following
  <2> QED BY <2>1, <2>2, <2>3, <2>4, RequestStep
<1>3. CASE RulesMiss(r)
  <2>1. /\ RoutesTo(r, "select", <<>>) /\ UNCHANGED <<table, kept, job, tables>>
        /\ smooth' => smooth /\ Routing \cup Ruling = {}
    BY <1>3 DEF RulesMiss
  <2>2. \A l \in kept' : Known(l)
    BY <1>1, <2>1 DEF Committed
  <2>3. smooth' => kept' \subseteq Orders(table)
    BY <1>1, <2>1 DEF Following
  <2> QED BY <2>1, <2>2, <2>3, RequestStep
<1>4. CASE SelectRules(r)
  <2>1. PICK list \in Orders(table) : RoutesTo(r, "cache", list)
    BY <1>4 DEF SelectRules
  <2>2. UNCHANGED <<table, kept, job, tables, smooth>> /\ r \in Routing
    BY <1>4 DEF SelectRules, Routing
  <2>3. (\A l \in kept' : Known(l)) /\ Known(list)
    BY <1>1, <2>1, <2>2 DEF Committed, Known
  <2>4. smooth' => kept' \subseteq Orders(table)
    BY <1>1, <2>2 DEF Following
  <2> QED BY <2>1, <2>2, <2>3, <2>4, RequestStep
<1>5. CASE CacheRules(r)
  <2>. DEFINE list == route[r].rules
  <2>1. /\ RoutesTo(r, "done", list) /\ UNCHANGED <<table, job, tables>> /\ r \in Routing
        /\ kept' = {list} \/ kept' = kept
        /\ smooth' => smooth /\ kept' = {list}
    BY <1>5 DEF CacheRules, Routing
  <2>2. Known(list) /\ (smooth => list \in Orders(table))
    BY <1>1, <1>5 DEF CacheRules, Committed, Following
  <2>3. \A l \in kept' : Known(l)
    BY <1>1, <2>1, <2>2 DEF Committed
  <2>4. smooth' => smooth /\ kept' \subseteq Orders(table)
    BY <2>1, <2>2
  <2>. HIDE DEF list
  <2> QED BY <2>1, <2>2, <2>3, <2>4, RequestStep
<1> QED BY <1>2, <1>3, <1>4, <1>5 DEF HandleRoute

\* An editor's step: alone as long as nothing overlaps, it changes the table only
\* when the copy is gone.
LEMMA RulingStep ==
  ASSUME RouteInv, NEW a \in RuleEditors, job[a].at \notin {"new", "done", "failed"},
         NEW o, Proceeds(a, o), DOMAIN o = {"at", "kind", "todo", "pending", "sent"},
         UNCHANGED route, table' \in tables', tables \subseteq tables',
         kept' = kept \/ kept' = {},
         smooth' => /\ smooth /\ kept' \subseteq Orders(table')
                    /\ (o.at = "commit" \/ (o.at = "select" /\ o.kind = "reorder"))
                         => kept' = {}
  PROVE  RouteInv'
<1>1. RouteTypes /\ Committed /\ Following
  BY DEF RouteInv
<1>2. /\ DOMAIN job' = RuleEditors /\ job'[a] = o
      /\ \A b \in RuleEditors : b # a => job'[b] = job[b]
  BY <1>1 DEF Proceeds, RouteTypes
<1>3. RouteTypes'
  BY <1>1, <1>2 DEF RouteTypes
<1>4. \A list : Known(list) => Known(list)'
  BY DEF Known
<1>5. Committed'
  BY <1>1, <1>4 DEF Committed
<1>6. Following'
  <2>. SUFFICES ASSUME smooth' PROVE Following'
    BY DEF Following
  <2>1. a \in Ruling
    BY DEF Ruling
  <2>2. Routing = {} /\ \A b \in Ruling : b = a
    BY <1>1, <2>1 DEF Following
  <2>3. Routing' = {} /\ \A r \in Routed : route'[r].at # "cache"
    BY <2>2 DEF Routing
  <2>4. \A b \in Ruling' : b = a
    BY <1>2, <2>2 DEF Ruling
  <2>5. \A b \in RuleEditors : Dropped(b)' => kept' = {}
    BY <1>2, <2>4 DEF Dropped, Ruling
  <2> QED BY <2>3, <2>4, <2>5 DEF Following
<1> QED BY <1>3, <1>5, <1>6 DEF RouteInv

LEMMA RulingsBegin ==
  ASSUME RouteInv, NEW a \in RuleEditors,
         BeginCreate(a) \/ BeginUpdate(a) \/ BeginDelete(a) \/ BeginReorder(a)
  PROVE  RouteInv'
<1>1. RouteTypes /\ Committed /\ Following
  BY DEF RouteInv
<1>a. PICK at \in {"delete", "select"}, kind \in {"create", "update", "delete", "reorder"} :
        (\E todo : Starts(a, at, kind, todo)) /\ (at = "select" => kind # "reorder")
  BY DEF BeginCreate, BeginUpdate, BeginDelete, BeginReorder
<1>2. PICK todo : Starts(a, at, kind, todo) /\ (at = "select" => kind # "reorder")
  BY <1>a
<1>3. /\ UNCHANGED <<table, kept, route, tables>>
      /\ smooth' => smooth /\ Routing \cup Ruling = {}
      /\ job' = [job EXCEPT ![a] = [at |-> at, kind |-> kind, todo |-> todo,
                                    pending |-> {}, sent |-> {}]]
  BY <1>2 DEF Starts, Begins
<1>4. /\ DOMAIN job' = RuleEditors
      /\ job'[a] = [at |-> at, kind |-> kind, todo |-> todo, pending |-> {}, sent |-> {}]
      /\ \A b \in RuleEditors : b # a => job'[b] = job[b]
  BY <1>1, <1>3 DEF RouteTypes
<1>5. RouteTypes'
  BY <1>1, <1>3, <1>4 DEF RouteTypes
<1>6. Committed'
  BY <1>1, <1>3 DEF Committed, Known
<1>7. Following'
  <2>. SUFFICES ASSUME smooth' PROVE Following'
    BY DEF Following
  <2>1. smooth /\ Routing = {} /\ Ruling = {}
    BY <1>3
  <2>2. Routing' = {} /\ \A b \in Ruling' : b = a
    BY <1>3, <1>4, <2>1 DEF Routing, Ruling
  <2>3. \A b \in RuleEditors : ~Dropped(b)'
    BY <1>2, <1>4, <2>2 DEF Dropped, Ruling
  <2>4. kept' \subseteq Orders(table')
    BY <1>1, <1>3, <2>1 DEF Following
  <2>5. \A r \in Routed : route'[r].at # "cache"
    BY <2>2 DEF Routing
  <2> QED BY <2>2, <2>3, <2>4, <2>5 DEF Following
<1> QED BY <1>5, <1>6, <1>7 DEF RouteInv

LEMMA RulingsKeep ==
  ASSUME RouteInv, NEW a \in RuleEditors, HandleRules(a)
  PROVE  RouteInv'
<1>1. RouteTypes /\ Committed /\ Following
  BY DEF RouteInv
<1>2. DOMAIN job[a] = {"at", "kind", "todo", "pending", "sent"} /\ table \in tables
  BY <1>1 DEF RouteTypes, Committed
\* Ends and SendFails, Deadlock: the editor is over and nothing else changes.
<1>3. ASSUME NEW how \in {"done", "failed"}, Ends(a, how), UNCHANGED <<kept, route>>,
             job[a].at \notin {"new", "done", "failed"},
             table' \in tables', tables \subseteq tables',
             smooth' => smooth /\ (table' = table \/ kept = {})
      PROVE  RouteInv'
  <2>. DEFINE o == [job[a] EXCEPT !.at = how, !.todo = <<>>, !.pending = {}, !.sent = {}]
  <2>1. Proceeds(a, o) /\ DOMAIN o = {"at", "kind", "todo", "pending", "sent"} /\ o.at = how
    BY <1>2, <1>3 DEF Ends
  <2>2. smooth' => kept' \subseteq Orders(table')
    BY <1>1, <1>3 DEF Following
  <2>. HIDE DEF o
  <2>3. o.at # "commit" /\ o.at # "select"
    BY <1>3, <2>1
  <2> QED BY <1>3, <2>1, <2>2, <2>3, RulingStep
<1>4. CASE DropCopy(a)
  <2>. DEFINE o == [job[a] EXCEPT !.at =
                      IF job[a].kind = "reorder" /\ job[a].todo # <<>>
                      THEN "select" ELSE "commit"]
  <2>1. /\ Proceeds(a, o) /\ UNCHANGED <<table, route, tables>> /\ job[a].at = "delete"
        /\ kept' = kept \/ kept' = {}
        /\ smooth' => smooth /\ kept' = {}
    BY <1>4 DEF DropCopy
  <2>2. DOMAIN o = {"at", "kind", "todo", "pending", "sent"}
    BY <1>2
  <2>. HIDE DEF o
  <2>3. table' \in tables' /\ tables \subseteq tables'
    BY <1>2, <2>1
  <2>4. smooth' => smooth /\ kept' = {} /\ kept' \subseteq Orders(table')
    BY <2>1
  <2> QED BY <2>1, <2>2, <2>3, <2>4, RulingStep
<1>5. CASE SelectRule(a)
  <2>1. UNCHANGED <<table, kept, route, tables, smooth>> /\ job[a].at = "select"
    BY <1>5 DEF SelectRule
  <2>2. CASE Ends(a, "failed")
    BY <1>2, <1>3, <2>1, <2>2
  <2>3. CASE ~Ends(a, "failed")
    <3>1. PICK at, todo, pending, sent :
            /\ Proceeds(a, [job[a] EXCEPT !.at = at, !.todo = todo, !.pending = pending,
                                          !.sent = sent])
            /\ at = "delete" \/ (job[a].kind = "reorder" /\ at \in {"commit", "select"})
      BY <1>5, <2>3 DEF SelectRule
    <3>. DEFINE o == [job[a] EXCEPT !.at = at, !.todo = todo, !.pending = pending,
                                    !.sent = sent]
    <3>2. /\ Proceeds(a, o) /\ DOMAIN o = {"at", "kind", "todo", "pending", "sent"}
          /\ o.at = at
      BY <1>2, <3>1
    <3>. HIDE DEF o
    <3>3. smooth => kept \subseteq Orders(table)
      BY <1>1 DEF Following
    <3>4. smooth /\ job[a].kind = "reorder" => kept = {}
      BY <1>1, <2>1 DEF Following, Dropped
    <3>5. smooth' => /\ smooth /\ kept' \subseteq Orders(table')
                     /\ (o.at = "commit" \/ (o.at = "select" /\ o.kind = "reorder"))
                          => kept' = {}
      BY <2>1, <3>1, <3>2, <3>3, <3>4
    <3> QED BY <1>2, <2>1, <3>2, <3>5, RulingStep
  <2> QED BY <2>2, <2>3
<1>6. CASE CommitRules(a) \/ InsertRule(a)
  <2>1. /\ Ends(a, "done") /\ UNCHANGED <<kept, route, smooth>> /\ job[a].at = "commit"
        /\ tables' = tables \cup {table'}
    BY <1>6 DEF CommitRules, InsertRule
  <2>2. smooth => kept = {}
    BY <1>1, <2>1 DEF Following, Dropped
  <2> QED BY <1>3, <2>1, <2>2
<1>7. CASE SendFails(a) \/ Deadlock(a)
  <2>1. /\ Ends(a, "done") \/ Ends(a, "failed")
        /\ UNCHANGED <<table, kept, route, tables, smooth>>
        /\ job[a].at \in {"select", "commit"}
    BY <1>7 DEF SendFails, Deadlock
  <2>2. table' \in tables' /\ tables \subseteq tables' /\ (smooth' => smooth)
    BY <1>2, <2>1
  <2> QED BY <1>3, <2>1, <2>2
<1> QED BY <1>4, <1>5, <1>6, <1>7 DEF HandleRules

LEMMA RouteStep ==
  ASSUME RouteInv, [RouteNext]_routeVars
  PROVE  RouteInv'
<1>1. CASE UNCHANGED routeVars
  BY <1>1 DEF routeVars, RouteInv, RouteTypes, Committed, Known, Following, Dropped,
              Routing, Ruling
<1>2. CASE ExpireRules
  <2>1. UNCHANGED <<table, route, job, tables, smooth>> /\ kept' = {}
    BY <1>2 DEF ExpireRules
  <2> QED BY <2>1 DEF RouteInv, RouteTypes, Committed, Known, Following, Dropped,
                      Routing, Ruling
<1>3. CASE \E r \in Routed : RulesHit(r) \/ RulesMiss(r) \/ HandleRoute(r)
  BY <1>3, RequestsKeep
<1>4. CASE \E a \in RuleEditors :
             BeginCreate(a) \/ BeginUpdate(a) \/ BeginDelete(a) \/ BeginReorder(a)
               \/ HandleRules(a)
  BY <1>4, RulingsBegin, RulingsKeep
<1> QED BY <1>1, <1>2, <1>3, <1>4 DEF RouteNext

\* Requests go by whole committed sets of rules (NoHalfReorder), and the copy is
\* the table's as long as nothing overlapped or failed (CopyFollowsRules).
THEOREM RoutesAreByRules == RouteSpec => []RoutesByRules
<1>1. ASSUME RouteInv PROVE RoutesByRules
  BY <1>1 DEF RouteInv, Committed, Known, Following, RoutesByRules, NoHalfReorder,
              CopyFollowsRules
<1> QED BY <1>1, RouteStarts, RouteStep, PTL DEF RouteSpec

-----------------------------------------------------------------------------
(* The types of the rules. *)

\* What an editor sends of a rule: a new row, columns, a priority, a removal.
RuleWrites ==
  [id : Rules, columns : NewRules \cup Patches \cup [priority : Priorities]
                           \cup {[gone |-> TRUE]}]

Jobs ==
  [at : {"new", "delete", "select", "commit", "done", "failed"},
   kind : {"none", "create", "update", "delete", "reorder"},
   todo : Seq(RuleWrites), pending : SUBSET RuleWrites, sent : SUBSET RuleWrites]

RuleTypes ==
  /\ table \subseteq RuleRow
  /\ \A x, y \in table : x.id = y.id => x = y
  /\ \A l, m \in kept : l = m
  /\ \A r \in Routed : route[r].at \in {"new", "select", "cache", "done"}
  /\ job \in [RuleEditors -> Jobs]
  /\ smooth \in BOOLEAN

\* The one editor that creates a rule has all of it, and an id no row has; one
\* that selects has an item left.
Creates(a) ==
  job[a].kind = "create" /\ job[a].at \in {"delete", "commit"} =>
    \E r \in Rules, new \in NewRules :
      job[a].todo = <<Write(r, new)>> /\ \A row \in table : row.id # r

OneCreates ==
  /\ \A a, b \in RuleEditors : job[a].kind = "create" /\ job[b].kind = "create" => a = b
  /\ \A a \in RuleEditors : Creates(a)
  /\ \A a \in RuleEditors :
       job[a].at = "select" => job[a].todo # <<>> /\ job[a].kind # "create"

RouteTypeInv == RouteTypes /\ RuleTypes /\ OneCreates

\* A column an editor sends has a value of the column's type.
LEMMA ColumnsAreTyped ==
  ASSUME NEW w \in RuleWrites, NEW c \in {"priority", "active", "body"},
         c \in DOMAIN w.columns
  PROVE  w.columns[c] \in RuleColumn[c]
<1>1. RuleColumn["priority"] = Priorities /\ RuleColumn["body"] = Bodies
      /\ RuleColumn["active"] = BOOLEAN
  BY DEF RuleColumn
<1>2. CASE w.columns \in NewRules
  <2>1. /\ w.columns \in [priority : Priorities, body : Bodies]
    BY <1>2, RouteAssumption
  <2> QED BY <1>1, <2>1
<1>3. CASE w.columns \in Patches
  BY <1>3, RuleEditAssumption
<1>4. CASE w.columns \in [priority : Priorities]
  BY <1>1, <1>4
<1>5. CASE w.columns = [gone |-> TRUE]
  BY <1>5
<1> QED BY <1>2, <1>3, <1>4, <1>5 DEF RuleWrites

\* A row stays a row, and the same one, after its columns are written.
LEMMA AfterIsRow ==
  ASSUME NEW row \in RuleRow, NEW writes \in SUBSET RuleWrites
  PROVE  After(row, writes) \in RuleRow /\ After(row, writes).id = row.id
<1>. DEFINE Named(c) == {w \in writes : w.id = row.id /\ c \in DOMAIN w.columns}
            Value(c, old) == IF Named(c) = {} THEN old
                             ELSE (CHOOSE w \in Named(c) : TRUE).columns[c]
<1>1. ASSUME NEW c \in {"priority", "active", "body"}, NEW old \in RuleColumn[c]
      PROVE  Value(c, old) \in RuleColumn[c]
  <2>1. CASE Named(c) = {}
    BY <1>1, <2>1
  <2>2. CASE Named(c) # {}
    <3>. DEFINE w == CHOOSE x \in Named(c) : TRUE
    <3>1. w \in Named(c)
      BY <2>2
    <3>. HIDE DEF w
    <3>2. w \in RuleWrites /\ c \in DOMAIN w.columns
      BY <3>1
    <3>3. w.columns[c] \in RuleColumn[c]
      BY <3>2, ColumnsAreTyped
    <3> QED BY <2>2, <3>3 DEF w
  <2> QED BY <2>1, <2>2
<1>2. /\ row.priority \in RuleColumn["priority"] /\ row.active \in RuleColumn["active"]
      /\ row.body \in RuleColumn["body"]
      /\ RuleColumn["priority"] = Priorities /\ RuleColumn["body"] = Bodies
      /\ RuleColumn["active"] = BOOLEAN
  BY DEF RuleColumn, RuleRow
<1>3. After(row, writes) =
        [row EXCEPT !.priority = Value("priority", @), !.active = Value("active", @),
                    !.body = Value("body", @)]
  BY DEF After
<1>. HIDE DEF Value
<1>4. /\ Value("priority", row.priority) \in Priorities
      /\ Value("active", row.active) \in BOOLEAN /\ Value("body", row.body) \in Bodies
  BY <1>1, <1>2
<1> QED BY <1>3, <1>4 DEF RuleRow

\* The rows after a transaction's writes are rows, each with the id of one before.
LEMMA WrittenAreRows ==
  ASSUME NEW rows, rows \subseteq RuleRow, \A x, y \in rows : x.id = y.id => x = y,
         NEW writes \in SUBSET RuleWrites
  PROVE  /\ WrittenTo(rows, writes) \subseteq RuleRow
         /\ \A x, y \in WrittenTo(rows, writes) : x.id = y.id => x = y
         /\ \A x \in WrittenTo(rows, writes) : \E y \in rows : x.id = y.id
<1>1. \A x \in WrittenTo(rows, writes) : \E y \in rows : x = After(y, writes)
  BY DEF WrittenTo
<1>2. \A y \in rows : After(y, writes) \in RuleRow /\ After(y, writes).id = y.id
  BY AfterIsRow
<1> QED BY <1>1, <1>2

LEMMA RouteTypesStart == ASSUME RouteInit PROVE RouteTypeInv
<1>. USE DEF RouteInit
<1>1. RouteTypes
  BY DEF RouteTypes
<1>2. [at |-> "new", kind |-> "none", todo |-> <<>>, pending |-> {}, sent |-> {}] \in Jobs
  BY DEF Jobs
<1>3. RuleTypes
  BY <1>2 DEF RuleTypes
<1>4. OneCreates
  BY DEF OneCreates, Creates
<1> QED BY <1>1, <1>3, <1>4 DEF RouteTypeInv

\* A request's step, or the end of the copy, leaves the rows and the editors alone.
LEMMA RequestTypes ==
  ASSUME RouteTypeInv, UNCHANGED <<table, job>>, smooth' \in BOOLEAN,
         \A l, m \in kept' : l = m, DOMAIN route' = Routed,
         \A r \in Routed : route'[r].at \in {"new", "select", "cache", "done"}
  PROVE  RouteTypeInv'
BY DEF RouteTypeInv, RouteTypes, RuleTypes, OneCreates, Creates

LEMMA RequestsKeepTypes ==
  ASSUME RouteTypeInv, NEW r \in Routed, RulesHit(r) \/ RulesMiss(r) \/ HandleRoute(r)
  PROVE  RouteTypeInv'
<1>1. RouteTypes /\ RuleTypes
  BY DEF RouteTypeInv
<1>2. PICK at \in {"select", "cache", "done"} : \E rules : RoutesTo(r, at, rules)
  BY DEF RulesHit, RulesMiss, HandleRoute, SelectRules, CacheRules
<1>3. PICK rules : RoutesTo(r, at, rules)
  BY <1>2
<1>4. /\ DOMAIN route' = Routed
      /\ \A s \in Routed : route'[s].at \in {"new", "select", "cache", "done"}
  <2>1. route' = [route EXCEPT ![r] = [at |-> at, rules |-> rules]]
    BY <1>3 DEF RoutesTo
  <2> QED BY <1>1, <2>1 DEF RouteTypes, RuleTypes
<1>5. UNCHANGED <<table, job>>
  BY DEF RulesHit, RulesMiss, HandleRoute, SelectRules, CacheRules
<1>6. \A l, m \in kept' : l = m
  <2>1. kept' = kept \/ kept' = {route[r].rules}
    BY DEF RulesHit, RulesMiss, HandleRoute, SelectRules, CacheRules
  <2> QED BY <1>1, <2>1 DEF RuleTypes
<1>7. smooth' \in BOOLEAN
  BY <1>1 DEF RuleTypes, RulesHit, RulesMiss, HandleRoute, SelectRules, CacheRules, Begins
<1> QED BY <1>4, <1>5, <1>6, <1>7, RequestTypes

\* An editor's step: its own job, and the rows, are what remains to be shown.
LEMMA EditorTypes ==
  ASSUME RouteTypeInv, NEW a \in RuleEditors, NEW o \in Jobs, Proceeds(a, o),
         UNCHANGED route, smooth' \in BOOLEAN, kept' = kept \/ kept' = {},
         table' \subseteq RuleRow, \A x, y \in table' : x.id = y.id => x = y,
         o.kind = "create" => \A b \in RuleEditors : b # a => job[b].kind # "create",
         \A x \in table' : (\E y \in table : x.id = y.id) \/ job[a].kind = "create",
         o.kind = job[a].kind \/ UNCHANGED table,
         o.at = "select" => o.todo # <<>> /\ o.kind # "create",
         Creates(a)'
  PROVE  RouteTypeInv'
<1>1. RouteTypes /\ RuleTypes /\ OneCreates
  BY DEF RouteTypeInv
<1>2. /\ DOMAIN job' = RuleEditors /\ job'[a] = o
      /\ \A b \in RuleEditors : b # a => job'[b] = job[b]
  BY <1>1 DEF Proceeds, RouteTypes
<1>3. RouteTypes'
  BY <1>1, <1>2 DEF RouteTypes, Jobs
<1>4. job' \in [RuleEditors -> Jobs]
  BY <1>1 DEF Proceeds, RuleTypes
<1>5. RuleTypes'
  BY <1>1, <1>4 DEF RuleTypes
<1>6. \A b, c \in RuleEditors : job'[b].kind = "create" /\ job'[c].kind = "create" => b = c
  BY <1>1, <1>2 DEF OneCreates
<1>7. ASSUME NEW b \in RuleEditors, b # a PROVE Creates(b)'
  <2>. SUFFICES ASSUME job[b].kind = "create", job[b].at \in {"delete", "commit"}
                PROVE  \E r \in Rules, new \in NewRules :
                         job[b].todo = <<Write(r, new)>> /\ \A row \in table' : row.id # r
    BY <1>2, <1>7 DEF Creates
  <2>1. PICK r \in Rules, new \in NewRules :
          job[b].todo = <<Write(r, new)>> /\ \A row \in table : row.id # r
    BY <1>1 DEF OneCreates, Creates
  <2>2. job[a].kind # "create"
    BY <1>1, <1>7 DEF OneCreates
  <2> QED BY <2>1, <2>2
<1>8. \A b \in RuleEditors :
        job'[b].at = "select" => job'[b].todo # <<>> /\ job'[b].kind # "create"
  BY <1>1, <1>2 DEF OneCreates
<1>9. OneCreates'
  BY <1>6, <1>7, <1>8 DEF OneCreates
<1> QED BY <1>3, <1>5, <1>9 DEF RouteTypeInv

\* A sequence over a set is one over any larger set.
LEMMA SeqOfMore ==
  ASSUME NEW S, NEW T, S \subseteq T, NEW s \in Seq(S)
  PROVE  s \in Seq(T)
OBVIOUS

\* An editor begins.
LEMMA RulingsBeginTypes ==
  ASSUME RouteTypeInv, NEW a \in RuleEditors,
         BeginCreate(a) \/ BeginUpdate(a) \/ BeginDelete(a) \/ BeginReorder(a)
  PROVE  RouteTypeInv'
<1>1. RouteTypes /\ RuleTypes /\ OneCreates
  BY DEF RouteTypeInv
\* What is started is a job, and of a new rule all of it.
<1>2. ASSUME NEW at \in {"delete", "select"},
             NEW kind \in {"create", "update", "delete", "reorder"},
             NEW todo \in Seq(RuleWrites), Starts(a, at, kind, todo),
             at = "select" => todo # <<>> /\ kind # "create",
             kind = "create" =>
               /\ \A b \in RuleEditors : job[b].kind # "create"
               /\ \E r \in Rules, new \in NewRules :
                    todo = <<Write(r, new)>> /\ \A row \in table : row.id # r
      PROVE  RouteTypeInv'
  <2>. DEFINE o == [at |-> at, kind |-> kind, todo |-> todo, pending |-> {}, sent |-> {}]
  <2>1. Proceeds(a, o) /\ UNCHANGED <<table, kept, route>> /\ smooth' \in BOOLEAN
    BY <1>1, <1>2 DEF Starts, Proceeds, Begins, RuleTypes
  <2>2. o \in Jobs /\ o.at = at /\ o.kind = kind /\ o.todo = todo
    BY <1>2 DEF Jobs
  <2>. HIDE DEF o
  <2>3. job'[a] = o
    BY <1>1, <2>1 DEF Proceeds, RouteTypes
  <2>4. Creates(a)'
    BY <1>2, <2>1, <2>2, <2>3 DEF Creates
  <2> QED BY <1>1, <1>2, <2>1, <2>2, <2>4, EditorTypes DEF RuleTypes
<1>3. CASE BeginCreate(a)
  <2>1. PICK r \in Rules, new \in NewRules :
          /\ \A row \in table : row.id # r
          /\ \A b \in RuleEditors : job[b].kind # "create"
          /\ Starts(a, "delete", "create", <<Write(r, new)>>)
    BY <1>3 DEF BeginCreate
  <2>2. Write(r, new) \in RuleWrites
    BY DEF Write, RuleWrites
  <2>3. <<Write(r, new)>> \in Seq(RuleWrites)
    BY <2>2
  <2> QED BY <1>2, <2>1, <2>3
<1>4. CASE BeginUpdate(a)
  <2>1. PICK r \in Rules, patch \in Patches :
          Starts(a, "select", "update", <<Write(r, patch)>>)
    BY <1>4 DEF BeginUpdate
  <2>2. Write(r, patch) \in RuleWrites
    BY DEF Write, RuleWrites
  <2>3. <<Write(r, patch)>> \in Seq(RuleWrites) /\ <<Write(r, patch)>> # <<>>
    BY <2>2
  <2> QED BY <1>2, <2>1, <2>3
<1>5. CASE BeginDelete(a)
  <2>. DEFINE w(r) == Write(r, [gone |-> TRUE])
  <2>1. PICK r \in Rules : Starts(a, "select", "delete", <<w(r)>>)
    BY <1>5 DEF BeginDelete
  <2>2. w(r) \in RuleWrites
    BY DEF Write, RuleWrites
  <2>. HIDE DEF w
  <2>3. <<w(r)>> \in Seq(RuleWrites) /\ <<w(r)>> # <<>>
    BY <2>2
  <2> QED BY <1>2, <2>1, <2>3
<1>6. CASE BeginReorder(a)
  <2>1. PICK items \in Reorders : Starts(a, "delete", "reorder", items)
    BY <1>6 DEF BeginReorder
  <2>2. [id : Rules, columns : [priority : Priorities]] \subseteq RuleWrites
    BY DEF RuleWrites
  <2>3. items \in Seq(RuleWrites)
    BY <2>2, RuleEditAssumption, SeqOfMore
  <2> QED BY <1>2, <2>1, <2>3
<1> QED BY <1>3, <1>4, <1>5, <1>6

\* An editor goes on, and ends.
LEMMA RulingsKeepTypes ==
  ASSUME RouteTypeInv, NEW a \in RuleEditors, HandleRules(a)
  PROVE  RouteTypeInv'
<1>1. RouteTypes /\ RuleTypes /\ OneCreates
  BY DEF RouteTypeInv
<1>2. job[a] \in Jobs /\ DOMAIN job = RuleEditors
  BY <1>1 DEF RuleTypes
<1>3. smooth' \in BOOLEAN /\ UNCHANGED route /\ (kept' = kept \/ kept' = {})
  BY <1>1 DEF HandleRules, DropCopy, SelectRule, CommitRules, InsertRule, SendFails,
              Deadlock, RuleTypes
<1>4. \A o \in Jobs : Proceeds(a, o) => job'[a] = o
  BY <1>2 DEF Proceeds
<1>5. job[a].kind = "create" => \A b \in RuleEditors : b # a => job[b].kind # "create"
  BY <1>1 DEF OneCreates
\* The end of an editor, whatever it has made of the rows.
<1>6. ASSUME NEW how \in {"done", "failed"}, Ends(a, how),
             table' \subseteq RuleRow, \A x, y \in table' : x.id = y.id => x = y,
             \A x \in table' : (\E y \in table : x.id = y.id) \/ job[a].kind = "create"
      PROVE  RouteTypeInv'
  <2>. DEFINE o == [job[a] EXCEPT !.at = how, !.todo = <<>>, !.pending = {}, !.sent = {}]
  <2>1. o \in Jobs /\ o.at = how /\ o.kind = job[a].kind
    <3>. DEFINE first == [job[a] EXCEPT !.at = how]
                second == [first EXCEPT !.todo = <<>>]
                third == [second EXCEPT !.pending = {}]
    <3>1. first \in Jobs /\ first.at = how /\ first.kind = job[a].kind
      BY <1>2 DEF Jobs
    <3>2. o = [third EXCEPT !.sent = {}]
      OBVIOUS
    <3>. HIDE DEF first, o
    <3>3. second \in Jobs /\ second.at = how /\ second.kind = job[a].kind
      <4>. DEFINE none == <<>>
      <4>1. none \in Seq(RuleWrites) /\ second = [first EXCEPT !.todo = none]
        OBVIOUS
      <4>. HIDE DEF none, second
      <4> QED BY <3>1, <4>1 DEF Jobs
    <3>. HIDE DEF second
    <3>4. third \in Jobs /\ third.at = how /\ third.kind = job[a].kind
      BY <3>3 DEF Jobs
    <3>. HIDE DEF third
    <3> QED BY <3>2, <3>4 DEF Jobs
  <2>2. Proceeds(a, o)
    BY <1>6 DEF Ends
  <2>. HIDE DEF o
  <2>3. Creates(a)'
    BY <1>4, <2>1, <2>2 DEF Creates
  <2> QED BY <1>3, <1>5, <1>6, <2>1, <2>2, <2>3, EditorTypes
\* A step of an editor before it commits.
<1>7. ASSUME NEW o \in Jobs, Proceeds(a, o), UNCHANGED table, o.kind = job[a].kind,
             o.at = "select" => o.todo # <<>> /\ o.kind # "create",
             o.kind = "create" => job[a].at = "delete" /\ o.todo = job[a].todo
      PROVE  RouteTypeInv'
  <2>1. job'[a] = o
    BY <1>4, <1>7
  <2>2. Creates(a)'
    BY <1>1, <1>7, <2>1 DEF OneCreates, Creates
  <2>3. /\ table' \subseteq RuleRow /\ \A x, y \in table' : x.id = y.id => x = y
        /\ \A x \in table' : \E y \in table : x.id = y.id
    BY <1>1, <1>7 DEF RuleTypes
  <2> QED BY <1>3, <1>5, <1>7, <2>2, <2>3, EditorTypes
<1>8. CASE DropCopy(a)
  <2>. DEFINE at == IF job[a].kind = "reorder" /\ job[a].todo # <<>>
                    THEN "select" ELSE "commit"
              o == [job[a] EXCEPT !.at = at]
  <2>1. Proceeds(a, o) /\ UNCHANGED table /\ job[a].at = "delete"
    BY <1>8 DEF DropCopy
  <2>2. o \in Jobs /\ o.at = at /\ o.kind = job[a].kind /\ o.todo = job[a].todo
    BY <1>2 DEF Jobs
  <2>. HIDE DEF o
  <2>3. o.at = "select" => o.todo # <<>> /\ o.kind # "create"
    BY <2>2
  <2> QED BY <1>7, <2>1, <2>2, <2>3
<1>9. CASE SelectRule(a)
  <2>1. job[a].at = "select" /\ UNCHANGED table
    BY <1>9 DEF SelectRule
  <2>2. CASE Ends(a, "failed")
    BY <1>1, <1>6, <2>1, <2>2 DEF RuleTypes
  <2>3. CASE ~Ends(a, "failed")
    <3>. DEFINE item == Head(job[a].todo)
                rest == Tail(job[a].todo)
                found == {row \in table : row.id = item.id}
                at == IF job[a].kind # "reorder" THEN "delete"
                      ELSE IF rest = <<>> THEN "commit" ELSE "select"
                pending == {w \in {item} : \E row \in found : Changes(row, w.columns) # {}}
                sent == job[a].sent \cup job[a].pending
                o == [job[a] EXCEPT !.at = at, !.todo = rest, !.pending = pending,
                                    !.sent = sent]
    <3>1. Proceeds(a, o)
      BY <1>9, <2>3 DEF SelectRule
    <3>2. job[a].todo \in Seq(RuleWrites) /\ job[a].todo # <<>>
      BY <1>1, <1>2, <2>1 DEF Jobs, OneCreates
    <3>3. item \in RuleWrites /\ rest \in Seq(RuleWrites)
      BY <3>2
    <3>4. pending \subseteq RuleWrites /\ sent \subseteq RuleWrites
      BY <1>2, <3>3 DEF Jobs
    <3>. HIDE DEF item, rest, found, pending, sent
    <3>5. o \in Jobs /\ o.at = at /\ o.kind = job[a].kind /\ o.todo = rest
      BY <1>2, <3>3, <3>4 DEF Jobs
    <3>6. o.at = "select" => o.todo # <<>>
      BY <3>5
    <3>7. job[a].kind # "create"
      BY <1>1, <2>1 DEF OneCreates
    <3>. HIDE DEF o
    <3> QED BY <1>7, <2>1, <3>1, <3>5, <3>6, <3>7
  <2> QED BY <2>2, <2>3
<1>10. CASE CommitRules(a)
  <2>. DEFINE writes == job[a].sent \cup job[a].pending
  <2>1. Ends(a, "done") /\ table' = IF writes = {} THEN table ELSE WrittenTo(table, writes)
    BY <1>10 DEF CommitRules
  <2>2. writes \subseteq RuleWrites
    BY <1>2 DEF Jobs
  <2>3. table \subseteq RuleRow /\ \A x, y \in table : x.id = y.id => x = y
    BY <1>1 DEF RuleTypes
  <2>. HIDE DEF writes
  <2>4. /\ table' \subseteq RuleRow /\ \A x, y \in table' : x.id = y.id => x = y
        /\ \A x \in table' : \E y \in table : x.id = y.id
    BY <2>1, <2>2, <2>3, WrittenAreRows
  <2> QED BY <1>6, <2>1, <2>4
<1>11. CASE InsertRule(a)
  <2>1. /\ job[a].kind = "create" /\ job[a].at = "commit" /\ Ends(a, "done")
        /\ LET new == Head(job[a].todo)
           IN  table' = table \cup {[id |-> new.id, priority |-> new.columns.priority,
                                     active |-> TRUE, body |-> new.columns.body]}
    BY <1>11 DEF InsertRule
  <2>2. PICK r \in Rules, new \in NewRules :
          job[a].todo = <<Write(r, new)>> /\ \A row \in table : row.id # r
    BY <1>1, <2>1 DEF OneCreates, Creates
  <2>. DEFINE added == [id |-> r, priority |-> new.priority, active |-> TRUE,
                        body |-> new.body]
  <2>3. table' = table \cup {added}
    BY <2>1, <2>2 DEF Write
  <2>4. added \in RuleRow /\ added.id = r
    BY RouteAssumption DEF RuleRow
  <2>. HIDE DEF added
  <2>5. table' \subseteq RuleRow /\ \A x, y \in table' : x.id = y.id => x = y
    BY <1>1, <2>2, <2>3, <2>4 DEF RuleTypes
  <2> QED BY <1>6, <2>1, <2>5
<1>12. CASE SendFails(a) \/ Deadlock(a)
  <2>1. (Ends(a, "done") \/ Ends(a, "failed")) /\ UNCHANGED table
    BY <1>12 DEF SendFails, Deadlock
  <2> QED BY <1>1, <1>6, <2>1 DEF RuleTypes
<1> QED BY <1>8, <1>9, <1>10, <1>11, <1>12 DEF HandleRules

LEMMA RouteTypeStep ==
  ASSUME RouteTypeInv, [RouteNext]_routeVars
  PROVE  RouteTypeInv'
<1>1. CASE UNCHANGED routeVars
  BY <1>1, RequestTypes DEF routeVars, RouteTypeInv, RouteTypes, RuleTypes
<1>2. CASE ExpireRules
  BY <1>2, RequestTypes DEF ExpireRules, RouteTypeInv, RouteTypes, RuleTypes
<1>3. CASE \E r \in Routed : RulesHit(r) \/ RulesMiss(r) \/ HandleRoute(r)
  BY <1>3, RequestsKeepTypes
<1>4. CASE \E a \in RuleEditors :
             BeginCreate(a) \/ BeginUpdate(a) \/ BeginDelete(a) \/ BeginReorder(a)
               \/ HandleRules(a)
  BY <1>4, RulingsBeginTypes, RulingsKeepTypes
<1> QED BY <1>1, <1>2, <1>3, <1>4 DEF RouteNext

\* A set whose members are all the same has at most one.
LEMMA AtMostOne ==
  ASSUME NEW S, \A x, y \in S : x = y
  PROVE  Cardinality(S) <= 1
<1>1. CASE S = {}
  BY <1>1, FS_EmptySet
<1>2. CASE S # {}
  <2>1. PICK x \in S : TRUE
    BY <1>2
  <2>2. S = {x}
    BY <2>1
  <2> QED BY <2>2, FS_Singleton
<1> QED BY <1>1, <1>2

\* Whatever editors and requests do, rules keep their columns' types, no two have
\* one id, the copy is one list, and every handler is at one of its stages.
THEOREM RouteTypeCorrect == RouteSpec => []RouteTypeOK
<1>1. ASSUME RouteTypeInv PROVE RouteTypeOK
  <2>1. Cardinality(kept) <= 1
    BY <1>1, AtMostOne DEF RouteTypeInv, RuleTypes
  <2>2. \A a \in RuleEditors :
          job[a].at \in {"new", "delete", "select", "commit", "done", "failed"}
    BY <1>1 DEF RouteTypeInv, RuleTypes, Jobs
  <2> QED BY <1>1, <2>1, <2>2 DEF RouteTypeInv, RuleTypes, RouteTypeOK
<1> QED BY <1>1, RouteTypesStart, RouteTypeStep, PTL DEF RouteSpec

-----------------------------------------------------------------------------
(* The invariant of the credentials' handlers. *)

ProviderTypes ==
  /\ configs \subseteq Config
  /\ save \in [Savers -> [at : {"new", "select", "write", "remove", "done"},
                          vendor : Vendors, found : SUBSET Config]]
  /\ newest \in [Vendors -> SUBSET Savers]

\* As long as no edits overlap: one at a time; ids are unique, each provider has
\* at most one row, with the newest key, and an edit has found the row there is.
OneByOne ==
  apart =>
    /\ \A s, t \in Saving : s = t
    /\ \A c, d \in configs : c.id = d.id \/ c.vendor = d.vendor => c = d
    /\ \A s \in Savers : save[s].at \in {"new", "select", "write"} =>
                           \A c \in configs : c.id # s
    /\ \A s \in Savers : save[s].at \in {"write", "remove"} =>
                           save[s].found = Of(save[s].vendor)
    /\ ReplacedKeyIsGone

ProviderInv == ProviderTypes /\ OneByOne

LEMMA ProviderStarts == ASSUME ProviderInit PROVE ProviderInv
<1>. USE DEF ProviderInit
<1>1. ProviderTypes
  BY DEF ProviderTypes
<1>2. \A s \in Savers : save[s].at = "new"
  OBVIOUS
<1>3. Saving = {} /\ ReplacedKeyIsGone
  BY <1>2 DEF Saving, ReplacedKeyIsGone, Of
<1>4. OneByOne
  BY <1>2, <1>3 DEF OneByOne
<1> QED BY <1>1, <1>4 DEF ProviderInv

\* Only the stage of an edit and what it has found change.
LEMMA StageChanges ==
  ASSUME ProviderTypes, NEW s \in Savers, NEW found \in SUBSET Config,
         NEW at \in {"new", "select", "write", "remove", "done"}, Goes(s, at, found)
  PROVE  /\ save'[s].at = at /\ save'[s].vendor = save[s].vendor /\ save'[s].found = found
         /\ \A t \in Savers : t # s => save'[t] = save[t]
         /\ save' \in [Savers -> [at : {"new", "select", "write", "remove", "done"},
                                  vendor : Vendors, found : SUBSET Config]]
BY DEF Goes, ProviderTypes

\* An edit begins, or finds its row: no row changes.
LEMMA SaversGoOn ==
  ASSUME ProviderInv, NEW s \in Savers, BeginUpsert(s) \/ BeginRemove(s) \/ SelectConfig(s)
  PROVE  ProviderInv'
<1>1. ProviderTypes /\ OneByOne
  BY DEF ProviderInv
<1>2. UNCHANGED <<configs, newest>> /\ (apart' => apart)
  <2>1. CASE BeginUpsert(s)
    BY <2>1 DEF BeginUpsert
  <2>2. CASE BeginRemove(s)
    BY <2>2 DEF BeginRemove
  <2>3. CASE SelectConfig(s)
    BY <2>3 DEF SelectConfig
  <2> QED BY <2>1, <2>2, <2>3
<1>3. PICK at \in {"select", "write", "remove"}, found \in SUBSET Config :
        /\ Goes(s, at, found)
        /\ at # "remove" => save[s].at \in {"new", "select"}
        /\ found \subseteq Of(save[s].vendor)
        /\ at \in {"write", "remove"} => (found = {} => Of(save[s].vendor) = {})
        /\ apart' => save[s].at = "select" \/ Saving = {}
  <2>1. CASE BeginUpsert(s)
    <3>1. Goes(s, "select", {}) /\ save[s].at = "new" /\ (apart' => Saving = {})
      BY <2>1 DEF BeginUpsert
    <3>2. {} \in SUBSET Config /\ {} \subseteq Of(save[s].vendor)
      OBVIOUS
    <3> QED BY <3>1, <3>2
  <2>2. CASE BeginRemove(s)
    <3>1. PICK c \in Of(save[s].vendor) : Goes(s, "remove", {c})
      BY <2>2 DEF BeginRemove
    <3>2. c \in Config
      BY <1>1 DEF Of, ProviderTypes
    <3>3. apart' => Saving = {}
      BY <2>2 DEF BeginRemove
    <3> QED BY <3>1, <3>2, <3>3
  <2>3. CASE SelectConfig(s)
    <3>1. save[s].at = "select"
      BY <2>3 DEF SelectConfig
    <3>2. CASE Of(save[s].vendor) = {}
      BY <2>3, <3>1, <3>2 DEF SelectConfig
    <3>3. CASE Of(save[s].vendor) # {}
      <4>1. PICK c \in Of(save[s].vendor) : Goes(s, "write", {c})
        BY <2>3, <3>3 DEF SelectConfig
      <4>2. c \in Config
        BY <1>1 DEF Of, ProviderTypes
      <4> QED BY <3>1, <4>1, <4>2
    <3> QED BY <3>2, <3>3
  <2> QED BY <2>1, <2>2, <2>3
<1>4. /\ save'[s].at = at /\ save'[s].vendor = save[s].vendor /\ save'[s].found = found
      /\ \A t \in Savers : t # s => save'[t] = save[t]
      /\ save' \in [Savers -> [at : {"new", "select", "write", "remove", "done"},
                               vendor : Vendors, found : SUBSET Config]]
  BY <1>1, <1>3, StageChanges
<1>5. ProviderTypes'
  BY <1>1, <1>2, <1>4 DEF ProviderTypes
<1>6. OneByOne'
  <2>. SUFFICES ASSUME apart' PROVE OneByOne'
    BY DEF OneByOne
  <2>1. apart /\ \A t \in Saving : t = s
    BY <1>1, <1>2, <1>3 DEF OneByOne, Saving
  <2>2. \A t \in Saving' : t = s
    BY <1>4, <2>1 DEF Saving
  <2>3. \A c, d \in configs' : c.id = d.id \/ c.vendor = d.vendor => c = d
    BY <1>1, <1>2, <2>1 DEF OneByOne
  <2>4. \A t \in Savers : save'[t].at \in {"new", "select", "write"} =>
                            \A c \in configs' : c.id # t
    BY <1>1, <1>2, <1>3, <1>4, <2>1 DEF OneByOne
  <2>5. \A c, d \in Of(save[s].vendor) : c = d
    BY <1>2, <2>3 DEF Of
  <2>6. at \in {"write", "remove"} => found = Of(save[s].vendor)
    BY <1>3, <2>5
  <2>7. \A v : Of(v)' = Of(v)
    BY <1>2 DEF Of
  <2>8. \A t \in Savers : (save[t].at \in {"write", "remove"} =>
                             save[t].found = Of(save[t].vendor))'
    <3>. SUFFICES ASSUME NEW t \in Savers, save'[t].at \in {"write", "remove"}
                  PROVE  (save[t].found = Of(save[t].vendor))'
      OBVIOUS
    <3>1. t = s
      BY <2>2 DEF Saving
    <3>2. save'[t].found = Of(save[s].vendor) /\ save'[t].vendor = save[s].vendor
      BY <1>4, <2>6, <3>1
    <3> QED BY <1>2, <3>2 DEF Of
  <2>9. ReplacedKeyIsGone'
    BY <1>1, <1>2, <2>1, <2>7 DEF OneByOne, ReplacedKeyIsGone
  <2> QED BY <2>2, <2>3, <2>4, <2>8, <2>9 DEF OneByOne
<1> QED BY <1>5, <1>6 DEF ProviderInv

Keys(rows) == {c.key : c \in rows}

\* An edit is over with its write: what it makes of the rows is what remains to
\* be shown.
LEMMA SaverEnds ==
  ASSUME ProviderInv, NEW s \in Savers, save[s].at \in {"write", "remove"},
         Goes(s, "done", {}), UNCHANGED apart,
         configs' \subseteq Config, newest' \in [Vendors -> SUBSET Savers],
         apart => /\ \A c, d \in configs' : c.id = d.id \/ c.vendor = d.vendor => c = d
                  /\ \A c \in configs' : c.id = s \/ \E d \in configs : d.id = c.id
                  /\ ReplacedKeyIsGone'
  PROVE  ProviderInv'
<1>1. ProviderTypes /\ OneByOne
  BY DEF ProviderInv
<1>2. /\ save'[s].at = "done" /\ \A t \in Savers : t # s => save'[t] = save[t]
      /\ save' \in [Savers -> [at : {"new", "select", "write", "remove", "done"},
                               vendor : Vendors, found : SUBSET Config]]
  BY <1>1, StageChanges
<1>3. ProviderTypes'
  BY <1>2 DEF ProviderTypes
<1>4. OneByOne'
  <2>. SUFFICES ASSUME apart' PROVE OneByOne'
    BY DEF OneByOne
  <2>1. apart /\ \A t \in Saving : t = s
    BY <1>1 DEF OneByOne, Saving
  <2>2. Saving' = {}
    BY <1>2, <2>1 DEF Saving
  <2>3. \A t \in Savers : ~(save'[t].at \in {"write", "remove"})
    BY <2>2 DEF Saving
  <2>4. \A t \in Savers : save'[t].at \in {"new", "select", "write"} =>
                            \A c \in configs' : c.id # t
    BY <1>1, <1>2, <2>1 DEF OneByOne
  <2> QED BY <2>1, <2>2, <2>3, <2>4 DEF OneByOne
<1> QED BY <1>3, <1>4 DEF ProviderInv

LEMMA WriteConfigKeeps ==
  ASSUME ProviderInv, NEW s \in Savers, WriteConfig(s)
  PROVE  ProviderInv'
<1>1. ProviderTypes /\ OneByOne
  BY DEF ProviderInv
<1>. DEFINE v == save[s].vendor
            found == {c \in configs : \E f \in save[s].found : f.id = c.id}
            new == [id |-> s, vendor |-> v, key |-> s]
            rest == configs \ found
            given == IF found = {} THEN {new} ELSE {[c EXCEPT !.key = s] : c \in found}
<1>2. /\ save[s].at = "write" /\ Goes(s, "done", {}) /\ UNCHANGED apart
      /\ IF save[s].found # {} /\ found = {}
         THEN UNCHANGED <<configs, newest>>
         ELSE configs' = rest \cup given /\ newest' = [newest EXCEPT ![v] = {s}]
  BY DEF WriteConfig
<1>3. v \in Vendors /\ new \in Config
  BY <1>1 DEF ProviderTypes, Config
<1>4. \A c \in configs : c \in Config /\ [c EXCEPT !.key = s] \in Config
  BY <1>1 DEF ProviderTypes, Config
<1>5. given \subseteq Config
  BY <1>3, <1>4
<1>6. configs' \subseteq Config /\ newest' \in [Vendors -> SUBSET Savers]
  BY <1>1, <1>2, <1>5 DEF ProviderTypes
<1>7. ASSUME apart
      PROVE  /\ \A c, d \in configs' : c.id = d.id \/ c.vendor = d.vendor => c = d
             /\ \A c \in configs' : c.id = s \/ \E d \in configs : d.id = c.id
             /\ ReplacedKeyIsGone'
  <2>1. /\ save[s].found = Of(v) /\ \A c \in configs : c.id # s
        /\ \A c, d \in configs : c.id = d.id \/ c.vendor = d.vendor => c = d
        /\ \A w \in Vendors : Keys(Of(w)) = newest[w]
    BY <1>1, <1>2, <1>7 DEF OneByOne, ReplacedKeyIsGone, Keys
  <2>2. found = Of(v)
    BY <2>1 DEF Of
  <2>. HIDE DEF found
  <2>3. configs' = rest \cup given /\ newest' = [newest EXCEPT ![v] = {s}]
    BY <1>2, <2>1, <2>2
  <2>4. \E one \in Config : /\ given = {one} /\ one.vendor = v /\ one.key = s
                            /\ one.id = s \/ \E d \in found : d.id = one.id
    <3>1. CASE found = {}
      <4>1. given = {new} /\ new.vendor = v /\ new.key = s /\ new.id = s
        BY <3>1
      <4> QED BY <1>3, <4>1
    <3>2. CASE found # {}
      <4>1. PICK c : c \in found
        BY <3>2
      <4>2. c \in configs /\ c.vendor = v /\ \A d \in found : d = c
        BY <2>1, <2>2, <4>1 DEF Of
      <4>3. given = {[c EXCEPT !.key = s]}
        BY <3>2, <4>1, <4>2
      <4>4. /\ [c EXCEPT !.key = s] \in Config /\ [c EXCEPT !.key = s].vendor = v
            /\ [c EXCEPT !.key = s].key = s /\ [c EXCEPT !.key = s].id = c.id
        BY <1>4, <4>2 DEF Config
      <4> QED BY <4>1, <4>3, <4>4
    <3> QED BY <3>1, <3>2
  <2>5. PICK one \in Config : /\ given = {one} /\ one.vendor = v /\ one.key = s
                              /\ one.id = s \/ \E d \in found : d.id = one.id
    BY <2>4
  <2>. HIDE DEF given
  <2>6. \A c \in rest : c \in configs /\ c.vendor # v /\ c.id # one.id
    BY <2>1, <2>2, <2>5 DEF Of
  <2>7. \A c, d \in configs' : c.id = d.id \/ c.vendor = d.vendor => c = d
    BY <2>1, <2>3, <2>5, <2>6
  <2>8. \A c \in configs' : c.id = s \/ \E d \in configs : d.id = c.id
    BY <2>2, <2>3, <2>5 DEF Of
  <2>9. ReplacedKeyIsGone'
    <3>. SUFFICES ASSUME NEW w \in Vendors
                  PROVE  Keys({d \in configs' : d.vendor = w}) = newest'[w]
      BY DEF ReplacedKeyIsGone, Of, Keys
    <3>1. CASE w = v
      <4>1. {d \in configs' : d.vendor = w} = {one}
        BY <2>3, <2>5, <2>6, <3>1
      <4>2. newest'[w] = {s}
        BY <1>1, <2>3, <3>1 DEF ProviderTypes
      <4> QED BY <2>5, <4>1, <4>2 DEF Keys
    <3>2. CASE w # v
      <4>1. {d \in configs' : d.vendor = w} = Of(w)
        BY <2>2, <2>3, <2>5, <3>2 DEF Of
      <4>2. newest'[w] = newest[w]
        BY <1>1, <2>3, <3>2 DEF ProviderTypes
      <4> QED BY <2>1, <4>1, <4>2
    <3> QED BY <3>1, <3>2
  <2> QED BY <2>7, <2>8, <2>9
<1> QED BY <1>2, <1>6, <1>7, SaverEnds

LEMMA RemoveConfigKeeps ==
  ASSUME ProviderInv, NEW s \in Savers, RemoveConfig(s)
  PROVE  ProviderInv'
<1>1. ProviderTypes /\ OneByOne
  BY DEF ProviderInv
<1>. DEFINE v == save[s].vendor
<1>2. /\ save[s].at = "remove" /\ Goes(s, "done", {}) /\ UNCHANGED apart
      /\ configs' = {c \in configs : \A f \in save[s].found : f.id # c.id}
      /\ newest' = [newest EXCEPT ![v] = {}]
  BY DEF RemoveConfig
<1>3. configs' \subseteq Config /\ newest' \in [Vendors -> SUBSET Savers] /\ v \in Vendors
  BY <1>1, <1>2 DEF ProviderTypes
<1>4. ASSUME apart
      PROVE  /\ \A c, d \in configs' : c.id = d.id \/ c.vendor = d.vendor => c = d
             /\ \A c \in configs' : c.id = s \/ \E d \in configs : d.id = c.id
             /\ ReplacedKeyIsGone'
  <2>1. /\ save[s].found = Of(v)
        /\ \A c, d \in configs : c.id = d.id \/ c.vendor = d.vendor => c = d
        /\ \A w \in Vendors : Keys(Of(w)) = newest[w]
    BY <1>1, <1>2, <1>4 DEF OneByOne, ReplacedKeyIsGone, Keys
  <2>2. configs' = configs \ Of(v)
    BY <1>2, <2>1 DEF Of
  <2>3. ReplacedKeyIsGone'
    <3>. SUFFICES ASSUME NEW w \in Vendors
                  PROVE  Keys({d \in configs' : d.vendor = w}) = newest'[w]
      BY DEF ReplacedKeyIsGone, Of, Keys
    <3>1. CASE w = v
      <4>1. {d \in configs' : d.vendor = w} = {}
        BY <2>2, <3>1 DEF Of
      <4>2. newest'[w] = {}
        BY <1>1, <1>2, <3>1 DEF ProviderTypes
      <4> QED BY <4>1, <4>2 DEF Keys
    <3>2. CASE w # v
      <4>1. {d \in configs' : d.vendor = w} = Of(w)
        BY <2>2, <3>2 DEF Of
      <4>2. newest'[w] = newest[w]
        BY <1>1, <1>2, <3>2 DEF ProviderTypes
      <4> QED BY <2>1, <4>1, <4>2
    <3> QED BY <3>1, <3>2
  <2> QED BY <2>1, <2>2, <2>3
<1> QED BY <1>2, <1>3, <1>4, SaverEnds

LEMMA ProviderStep ==
  ASSUME ProviderInv, [ProviderNext]_providerVars
  PROVE  ProviderInv'
<1>1. CASE UNCHANGED providerVars
  BY <1>1 DEF providerVars, ProviderInv, ProviderTypes, OneByOne, ReplacedKeyIsGone,
              Of, Saving
<1>2. CASE ProviderNext
  BY <1>2, SaversGoOn, WriteConfigKeeps, RemoveConfigKeeps DEF ProviderNext
<1> QED BY <1>1, <1>2

\* As long as no two edits of credentials overlapped, a provider has exactly the
\* key given last, or none after a removal.
THEOREM ReplacedKeysGo == ProviderSpec => []ReplacedKeyIsGone
<1>1. ASSUME ProviderInv PROVE ReplacedKeyIsGone
  BY <1>1 DEF ProviderInv, OneByOne, ReplacedKeyIsGone
<1> QED BY <1>1, ProviderStarts, ProviderStep, PTL DEF ProviderSpec

\* An edit has found one row, if any.
FoundOne ==
  /\ \A s \in Savers : \A c, d \in save[s].found : c = d
  /\ apart \in BOOLEAN

LEMMA FoundOneStays ==
  ASSUME ProviderTypes, FoundOne, [ProviderNext]_providerVars
  PROVE  FoundOne'
<1>1. ASSUME NEW s \in Savers, NEW at, NEW found, Goes(s, at, found), apart' \in BOOLEAN,
             \A c, d \in found : c = d
      PROVE  FoundOne'
  <2>. DEFINE next == [save[s] EXCEPT !.at = at, !.found = found]
  <2>1. save' = [save EXCEPT ![s] = next]
    BY <1>1 DEF Goes
  <2>2. next.found = found /\ DOMAIN save = Savers
    BY DEF ProviderTypes
  <2>. HIDE DEF next
  <2>3. \A t \in Savers : save'[t] = IF t = s THEN next ELSE save[t]
    BY <2>1, <2>2
  <2> QED BY <1>1, <2>2, <2>3 DEF FoundOne
<1>2. ASSUME NEW s \in Savers, BeginUpsert(s) \/ SelectConfig(s) \/ WriteConfig(s)
                               \/ BeginRemove(s) \/ RemoveConfig(s)
      PROVE  FoundOne'
  <2>1. apart' \in BOOLEAN
    BY <1>2 DEF BeginUpsert, SelectConfig, WriteConfig, BeginRemove, RemoveConfig, FoundOne
  <2>2. PICK at \in {"select", "write", "remove", "done"} :
          Goes(s, at, {}) \/ \E c : Goes(s, at, {c})
    BY <1>2 DEF BeginUpsert, SelectConfig, WriteConfig, BeginRemove, RemoveConfig
  <2>3. CASE Goes(s, at, {})
    BY <1>1, <2>1, <2>3
  <2>4. CASE \E c : Goes(s, at, {c})
    <3>1. PICK c : Goes(s, at, {c})
      BY <2>4
    <3> QED BY <1>1, <2>1, <3>1
  <2> QED BY <2>2, <2>3, <2>4
<1>3. CASE UNCHANGED providerVars
  BY <1>3 DEF providerVars, FoundOne
<1> QED BY <1>2, <1>3 DEF ProviderNext

\* Credentials keep their columns' types under overlapping upserts and removals,
\* and each edit works on at most one of them.
THEOREM ProviderTypeCorrect == ProviderSpec => []ProviderTypeOK
<1>1. ProviderInit => FoundOne
  BY DEF ProviderInit, FoundOne
<1>2. ProviderInv => ProviderTypes
  BY DEF ProviderInv
<1>3. ASSUME ProviderInv, FoundOne PROVE ProviderTypeOK
  BY <1>3, AtMostOne DEF ProviderInv, ProviderTypes, FoundOne, ProviderTypeOK
<1> QED BY <1>1, <1>2, <1>3, ProviderStarts, ProviderStep, FoundOneStays, PTL
        DEF ProviderSpec
-----------------------------------------------------------------------------
(* The three parts together. *)

\* A behaviour of the settings is one of the policy, of the rules and of the
\* credentials, so what is proved of each part holds of them interleaved.
LEMMA SettingsArePolicies == SettingsSpec => PolicySpec
<1>1. SettingsInit => PolicyInit
  BY DEF SettingsInit
<1>2. [SettingsNext]_settingsVars => [PolicyNext]_policyVars
  BY DEF SettingsNext, PolicyAlone, RoutesAlone, ProvidersAlone, settingsVars
<1> QED BY <1>1, <1>2, PTL DEF SettingsSpec, PolicySpec

LEMMA SettingsAreRules == SettingsSpec => RouteSpec
<1>1. SettingsInit => RouteInit
  BY DEF SettingsInit
<1>2. [SettingsNext]_settingsVars => [RouteNext]_routeVars
  BY DEF SettingsNext, PolicyAlone, RoutesAlone, ProvidersAlone, settingsVars
<1> QED BY <1>1, <1>2, PTL DEF SettingsSpec, RouteSpec

LEMMA SettingsAreCredentials == SettingsSpec => ProviderSpec
<1>1. SettingsInit => ProviderInit
  BY DEF SettingsInit
<1>2. [SettingsNext]_settingsVars => [ProviderNext]_providerVars
  BY DEF SettingsNext, PolicyAlone, RoutesAlone, ProvidersAlone, settingsVars
<1> QED BY <1>1, <1>2, PTL DEF SettingsSpec, ProviderSpec

\* The policy, the rules and the credentials of an organisation keep their
\* columns' types, and every handler works on what it has loaded, whatever
\* overlaps (the routers of orgs, routing and providers).
THEOREM SettingsTypeCorrect == SettingsSpec => []TypeOK
<1>1. PolicyTypeOK /\ RouteTypeOK /\ ProviderTypeOK => TypeOK
  BY DEF TypeOK
<1> QED
  BY <1>1, SettingsArePolicies, SettingsAreRules, SettingsAreCredentials,
     PolicyTypeCorrect, RouteTypeCorrect, ProviderTypeCorrect, PTL
=============================================================================
