------------------------------ MODULE ApiKeys ------------------------------
(***************************************************************************)
(* API keys: how a request is authenticated by one (a select by prefix, the *)
(* comparison of hashes, the commit of last_used_at) and how requests that  *)
(* carry an admin key issue, edit and revoke the keys of an organisation.   *)
(* Edits are written by column: what a handler did not change in its copy   *)
(* of the row is not in its UPDATE.                                         *)
(***************************************************************************)
EXTENDS Integers, FiniteSets

CONSTANTS
  Keys,        \* keys, known to their clients by the secret they were given
  Prefix,      \* the first characters of each, which need not be unique
  KeyOrgs,
  Issued,      \* rows of the keys there are at first
  Calls,       \* requests, each handled once
  Wishes,      \* what each request may ask for
  MaxKeyBusy   \* bound: how many requests are handled at the same time

KeyRow == [id : Keys, org : KeyOrgs, admin : BOOLEAN, active : BOOLEAN,
           lapses : BOOLEAN, expired : BOOLEAN]

Wish ==
  [do : {"proxy"}]
    \cup [do : {"create"}, key : Keys, admin : BOOLEAN, lapses : BOOLEAN]
    \cup [do : {"scopes"}, key : Keys, admin : BOOLEAN]
    \cup [do : {"active"}, key : Keys, active : BOOLEAN]
    \cup [do : {"revoke"}, key : Keys]

ASSUME KeyAssumption ==
  /\ MaxKeyBusy \in Nat
  /\ Wishes \in [Calls -> SUBSET Wish]
  /\ Issued \subseteq KeyRow /\ \A a, b \in Issued : a.id = b.id => a = b

VARIABLES
  keys,        \* api_keys rows
  call,        \* where each request is
  raw,         \* the key it was sent with
  wish,        \* what it asks for
  found,       \* the rows its handler has read last
  held,        \* the row it was authenticated by, as it was then
  barred       \* history: the keys that were no good when a request came and are
               \* no good yet

keyVars == <<keys, call, raw, wish, found, held, barred>>

-----------------------------------------------------------------------------
NoKey == "no key"

Over == {"new", "served", "refused"}

Good(row) == row.active /\ ~row.expired

Advance(c, to) == call' = [call EXCEPT ![c] = to]

Loads(c, rows) == found' = [found EXCEPT ![c] = rows]

\* The row of the key the request was authenticated by.
Holder(c) == CHOOSE row \in held[c] : TRUE

KeyInit ==
  /\ keys = Issued
  /\ call = [c \in Calls |-> "new"] /\ raw = [c \in Calls |-> NoKey]
  /\ wish = [c \in Calls |-> [do |-> "proxy"]]
  /\ found = [c \in Calls |-> {}] /\ held = [c \in Calls |-> {}]
  /\ barred = [c \in Calls |-> {}]

Present(c) ==
  /\ call[c] = "new" /\ Cardinality({q \in Calls : call[q] \notin Over}) < MaxKeyBusy
  /\ Advance(c, "select")
  /\ \E k \in Keys : raw' = [raw EXCEPT ![c] = k]
  /\ \E w \in Wishes[c] : wish' = [wish EXCEPT ![c] = w]
  /\ barred' = [barred EXCEPT ![c] = {row.id : row \in {k \in keys : ~Good(k)}}]
  /\ UNCHANGED <<keys, found, held>>

\* Mutant: revoked keys are candidates too.
CandidatesAny(k) == {row \in keys : Prefix[row.id] = Prefix[k]}

Candidates(k) == {row \in keys : Prefix[row.id] = Prefix[k] /\ row.active}

\* validate_api_key: the select of the candidates ...
SelectKey(c) ==
  /\ call[c] = "select"
  /\ Loads(c, Candidates(raw[c]))
  /\ Advance(c, IF Candidates(raw[c]) = {} THEN "refused" ELSE "verify")
  /\ UNCHANGED <<keys, raw, wish, held, barred>>

\* The candidate whose hash is that of the raw key; the clock is read now.
Matches(c) ==
  {row \in found[c] : row.id = raw[c] /\ \A k \in keys : k.id = row.id => ~k.expired}

\* ... their hashes and the expiry; the commit of last_used_at leaves the columns
\* modelled here alone.  The handlers below work on the row as it was read.
Verify(c) ==
  /\ call[c] = "verify"
  /\ \E row \in Matches(c) : held' = [held EXCEPT ![c] = {row}]
  /\ Loads(c, {})
  /\ Advance(c, IF wish[c].do = "proxy" THEN "served" ELSE "scope")
  /\ UNCHANGED <<keys, raw, wish, barred>>

NotVerified(c) ==
  /\ call[c] = "verify" /\ Matches(c) = {}
  /\ Advance(c, "refused") /\ UNCHANGED <<keys, raw, wish, found, held, barred>>

\* get_current_admin_api_key.
CheckScope(c) ==
  /\ call[c] = "scope"
  /\ Advance(c, IF ~Holder(c).admin THEN "refused"
                ELSE IF wish[c].do = "create" THEN "create" ELSE "load")
  /\ UNCHANGED <<keys, raw, wish, found, held, barred>>

NewKey(c) ==
  [id |-> wish[c].key, org |-> Holder(c).org, admin |-> wish[c].admin, active |-> TRUE,
   lapses |-> wish[c].lapses, expired |-> FALSE]

\* create_key: the id of the new key is one that was never used.
Create(c) ==
  /\ call[c] = "create" /\ \A k \in keys : k.id # wish[c].key
  /\ keys' = keys \cup {NewKey(c)}
  /\ Advance(c, "served") /\ UNCHANGED <<raw, wish, found, held, barred>>

InReach(c) == {row \in keys : row.id = wish[c].key /\ row.org = Holder(c).org}

\* The session already holds the row of the request's own key, as it was read
\* when the request was authenticated, and does not read it again.
Load(c) ==
  /\ call[c] = "load"
  /\ Loads(c, IF InReach(c) = {} THEN {}
              ELSE IF wish[c].key = Holder(c).id THEN held[c] ELSE InReach(c))
  /\ Advance(c, IF InReach(c) = {} THEN "refused" ELSE "write")
  /\ UNCHANGED <<keys, raw, wish, held, barred>>

Copy(c) == CHOOSE row \in found[c] : TRUE

\* What the handlers of PATCH and DELETE assign to their copy of the row.
EditedAdmin(c) == IF wish[c].do = "scopes" THEN wish[c].admin ELSE Copy(c).admin

EditedActive(c) ==
  CASE wish[c].do = "active" -> wish[c].active
    [] wish[c].do = "revoke" -> FALSE
    [] OTHER -> Copy(c).active

\* Mutant: the UPDATE names every column.
KeyWrittenWhole(c, row) ==
  [row EXCEPT !.admin = EditedAdmin(c), !.active = EditedActive(c)]

KeyWritten(c, row) ==
  [row EXCEPT
     !.admin = IF EditedAdmin(c) # Copy(c).admin THEN EditedAdmin(c) ELSE @,
     !.active = IF EditedActive(c) # Copy(c).active THEN EditedActive(c) ELSE @]

CommitKey(c) ==
  /\ call[c] = "write"
  /\ keys' = {IF k.id = wish[c].key THEN KeyWritten(c, k) ELSE k : k \in keys}
  /\ barred' = [q \in Calls |-> barred[q] \ {k.id : k \in {row \in keys' : Good(row)}}]
  /\ Advance(c, "served") /\ Loads(c, {})
  /\ UNCHANGED <<raw, wish, held>>

KeyExpires ==
  \E row \in keys :
    /\ row.lapses /\ ~row.expired
    /\ keys' = (keys \ {row}) \cup {[row EXCEPT !.expired = TRUE]}
    /\ UNCHANGED <<call, raw, wish, found, held, barred>>

Handle(c) ==
  \/ Present(c) \/ SelectKey(c) \/ Verify(c) \/ NotVerified(c) \/ CheckScope(c)
  \/ Create(c) \/ Load(c) \/ CommitKey(c)

KeyNext == (\E c \in Calls : Handle(c)) \/ KeyExpires

KeySpec == KeyInit /\ [][KeyNext]_keyVars

-----------------------------------------------------------------------------
\* Rows are keys' own, and whoever is past authentication holds the key whose
\* secret it sent.
KeyTypeOK ==
  /\ keys \subseteq KeyRow /\ \A a, b \in keys : a.id = b.id => a = b
  /\ \A c \in Calls :
       /\ held[c] \subseteq KeyRow
       /\ \A a, b \in held[c] : a = b /\ a.id = raw[c]
       /\ call[c] \in {"scope", "create", "load", "write"} => held[c] # {}

\* No request is let in by a key that was revoked or expired before it came and
\* has been ever since: a key works for at most the requests on their way.
BarredStaysOut ==
  \A c \in Calls : \A row \in held[c] : row.id \notin barred[c]

\* A step that changes or issues the key in the row new is that of a request
\* which holds an admin key of the same organisation.
ByOwnAdmin(new) ==
  \E c \in Calls :
    /\ call[c] \in {"create", "write"} /\ call'[c] = "served"
    /\ Holder(c).admin /\ Holder(c).org = new.org
    /\ \A k \in keys : k.id = new.id => k.org = new.org

\* A key is changed or issued by requests that hold an admin key of its own
\* organisation only (use and the passing of time aside).
OrgKeepsItsKeys ==
  [][\A new \in keys' :
       \/ \E k \in keys : k.id = new.id /\ k.admin = new.admin /\ k.active = new.active
       \/ ByOwnAdmin(new)]_keyVars

\* A revocation holds until a request that saw it asks to activate the key
\* again: an edit or a use that read the row before does not undo it.
RevocationHolds ==
  [][\A old \in keys, new \in keys' :
       old.id = new.id /\ ~old.active /\ new.active =>
         \E c \in Calls :
           /\ call[c] = "write" /\ call'[c] = "served"
           /\ wish[c].do = "active" /\ wish[c].active
           /\ ~Copy(c).active]_keyVars
=============================================================================
