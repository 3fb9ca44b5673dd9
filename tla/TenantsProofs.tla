---------------------------- MODULE TenantsProofs ----------------------------
(***************************************************************************)
(* The theorems of what is kept for a tenant: its API keys, the windows of  *)
(* its rate limit, the budgets it sets, its teams and projects, and the     *)
(* listings and reports over its rows, for every set of keys, requests,     *)
(* edits and rows.  The six share no state.                                 *)
(***************************************************************************)
EXTENDS Tenants, Functions,
        FiniteSetTheorems, TLAPS

\* API keys.

Stage == Over \cup {"select", "verify", "scope", "create", "load", "write"}

KeyShape ==
  /\ call \in [Calls -> Stage] /\ raw \in [Calls -> Keys \cup {NoKey}]
  /\ wish \in [Calls -> Wish]
  /\ found \in [Calls -> SUBSET KeyRow] /\ held \in [Calls -> SUBSET KeyRow]
  /\ barred \in [Calls -> SUBSET Keys]
  /\ \A c \in Calls : call[c] \in {"new", "select", "verify"} => held[c] = {}

\* A barred key exists and is no good; a new key is not barred.
BarredIsBad ==
  \A c \in Calls : \A id \in barred[c] :
    /\ \E k \in keys : k.id = id
    /\ \A k \in keys : k.id = id => ~Good(k)

\* A candidate was active when it was read, so a barred one has expired.
CandidateHasExpired ==
  \A c \in Calls : call[c] = "verify" =>
    \A row \in found[c] : row.id \in barred[c] => \E k \in keys : k.id = row.id /\ k.expired

\* Who edits holds an admin key; what it writes to is a key of its organisation.
EditorIsAdmin ==
  \A c \in Calls :
    /\ call[c] \in {"create", "load", "write"} => Holder(c).admin
    /\ call[c] \in {"scope", "create", "load", "write"} => wish[c].do # "proxy"
    /\ call[c] = "create" => wish[c].do = "create"
    /\ call[c] \in {"load", "write"} => wish[c].do # "create"
    /\ call[c] = "write" => /\ \E k \in keys : k.id = wish[c].key
                            /\ \A k \in keys : k.id = wish[c].key => k.org = Holder(c).org

KeyInv ==
  KeyShape /\ KeyTypeOK /\ BarredIsBad /\ CandidateHasExpired /\ BarredStaysOut /\ EditorIsAdmin

\* The invariant holds initially.
LEMMA KeyInitInv ==
  ASSUME KeyAssumption, KeyInit
  PROVE  KeyInv
<1>1. KeyShape
  BY DEF KeyInit, KeyShape, Stage, Over, Wish
<1>2. KeyTypeOK /\ BarredIsBad /\ CandidateHasExpired /\ BarredStaysOut /\ EditorIsAdmin
  BY DEF KeyAssumption, KeyInit, KeyTypeOK, BarredIsBad, CandidateHasExpired, BarredStaysOut,
         EditorIsAdmin
<1>. QED
  BY <1>1, <1>2 DEF KeyInv

\* The holder of a request past authentication is the row it was found by.
LEMMA HolderIsHeld ==
  ASSUME KeyInv, NEW c \in Calls, held[c] # {}
  PROVE  Holder(c) \in held[c] /\ held[c] = {Holder(c)} /\ Holder(c) \in KeyRow
BY DEF KeyInv, KeyShape, KeyTypeOK, Holder

\* The holder of a call is what the call has verified.
LEMMA SameHolder ==
  ASSUME NEW c \in Calls, held'[c] = held[c]
  PROVE  Holder(c)' = Holder(c)
BY DEF Holder

\* Presenting a key keeps the invariant.
LEMMA PresentInv ==
  ASSUME KeyAssumption, KeyInv, NEW c \in Calls, Present(c)
  PROVE  KeyInv'
<1>1. call[c] = "new" /\ call' = [call EXCEPT ![c] = "select"] /\ keys' = keys
      /\ found' = found /\ held' = held
  BY DEF Present, Advance
<1>2. PICK k \in Keys : raw' = [raw EXCEPT ![c] = k]
  BY DEF Present
<1>3. PICK w \in Wish : wish' = [wish EXCEPT ![c] = w]
  BY DEF Present, KeyAssumption
<1>4. barred' = [barred EXCEPT ![c] = {row.id : row \in {q \in keys : ~Good(q)}}]
  BY DEF Present
<1>5. KeyShape'
  <2>1. {row.id : row \in {q \in keys : ~Good(q)}} \in SUBSET Keys
    BY DEF KeyInv, KeyTypeOK, KeyRow
  <2>. QED
    BY <1>1, <1>2, <1>3, <1>4, <2>1 DEF KeyInv, KeyShape, Stage
<1>6. KeyTypeOK' /\ BarredStaysOut'
  BY <1>1, <1>2, <1>4 DEF KeyInv, KeyShape, KeyTypeOK, BarredStaysOut
<1>7. BarredIsBad'
  BY <1>1, <1>4 DEF KeyInv, KeyShape, KeyTypeOK, BarredIsBad
<1>8. CandidateHasExpired' /\ EditorIsAdmin'
  BY <1>1, <1>3, <1>4 DEF KeyInv, KeyShape, CandidateHasExpired, EditorIsAdmin, Holder
<1>. QED
  BY <1>5, <1>6, <1>7, <1>8 DEF KeyInv

\* Selecting the candidates of a prefix keeps the invariant.
LEMMA SelectKeyInv ==
  ASSUME KeyAssumption, KeyInv, NEW c \in Calls, SelectKey(c)
  PROVE  KeyInv'
<1>1. call[c] = "select" /\ UNCHANGED <<keys, raw, wish, held, barred>>
      /\ found' = [found EXCEPT ![c] = Candidates(raw[c])]
  BY DEF SelectKey, Loads
<1>2. PICK to \in {"refused", "verify"} : call' = [call EXCEPT ![c] = to]
  BY DEF SelectKey, Advance
<1>3. Candidates(raw[c]) \in SUBSET keys /\ \A row \in Candidates(raw[c]) : row.active
  BY DEF Candidates
<1>4. KeyShape'
  BY <1>1, <1>2, <1>3 DEF KeyInv, KeyShape, KeyTypeOK, Stage, Over
<1>5. KeyTypeOK' /\ BarredStaysOut' /\ BarredIsBad'
  BY <1>1, <1>2 DEF KeyInv, KeyShape, KeyTypeOK, BarredStaysOut, BarredIsBad
<1>6. CandidateHasExpired'
  <2> SUFFICES ASSUME NEW q \in Calls, call'[q] = "verify", NEW row \in found'[q],
                      row.id \in barred[q]
               PROVE  \E k \in keys : k.id = row.id /\ k.expired
    BY <1>1 DEF CandidateHasExpired
  <2>1. CASE q = c
    <3>1. row \in keys /\ row.active
      BY <2>1, <1>1, <1>3 DEF KeyInv, KeyShape
    <3>2. ~Good(row)
      BY <2>1, <3>1 DEF KeyInv, BarredIsBad
    <3>. QED
      BY <3>1, <3>2 DEF Good
  <2>2. CASE q # c
    BY <2>2, <1>1, <1>2 DEF KeyInv, KeyShape, CandidateHasExpired
  <2>. QED
    BY <2>1, <2>2
<1>7. EditorIsAdmin'
  BY <1>1, <1>2 DEF KeyInv, KeyShape, EditorIsAdmin, Holder
<1>. QED
  BY <1>4, <1>5, <1>6, <1>7 DEF KeyInv

\* The heart of it: a candidate that has not expired is good, so it is not barred.
LEMMA VerifyInv ==
  ASSUME KeyAssumption, KeyInv, NEW c \in Calls, Verify(c)
  PROVE  KeyInv'
<1>1. call[c] = "verify" /\ UNCHANGED <<keys, raw, wish, barred>>
      /\ found' = [found EXCEPT ![c] = {}]
  BY DEF Verify, Loads
<1>2. PICK row \in Matches(c) : held' = [held EXCEPT ![c] = {row}]
  BY DEF Verify
<1>3. PICK to \in {"served", "scope"} :
        call' = [call EXCEPT ![c] = to] /\ (to = "scope" => wish[c].do # "proxy")
  BY DEF Verify, Advance
<1>4. row \in found[c] /\ row.id = raw[c] /\ row \in KeyRow
      /\ \A k \in keys : k.id = row.id => ~k.expired
  BY DEF Matches, KeyInv, KeyShape
<1>5. row.id \notin barred[c]
  BY <1>1, <1>4 DEF KeyInv, CandidateHasExpired
<1>6. KeyShape'
  BY <1>1, <1>2, <1>3, <1>4 DEF KeyInv, KeyShape, Stage, Over
<1>7. KeyTypeOK'
  BY <1>1, <1>2, <1>3, <1>4 DEF KeyInv, KeyShape, KeyTypeOK
<1>8. BarredStaysOut' /\ BarredIsBad'
  BY <1>1, <1>2, <1>5 DEF KeyInv, KeyShape, BarredStaysOut, BarredIsBad
<1>9. CandidateHasExpired'
  BY <1>1, <1>3 DEF KeyInv, KeyShape, CandidateHasExpired
<1>10. EditorIsAdmin'
  <2>1. \A q \in Calls \ {c} : held'[q] = held[q] /\ Holder(q)' = Holder(q)
    BY <1>2, SameHolder DEF KeyInv, KeyShape
  <2>. QED
    BY <1>1, <1>3, <2>1 DEF KeyInv, KeyShape, EditorIsAdmin
<1>. QED
  BY <1>6, <1>7, <1>8, <1>9, <1>10 DEF KeyInv

\* Turning a call away keeps the invariant.
LEMMA NotVerifiedInv ==
  ASSUME KeyAssumption, KeyInv, NEW c \in Calls, NotVerified(c)
  PROVE  KeyInv'
<1>1. call[c] = "verify" /\ call' = [call EXCEPT ![c] = "refused"]
      /\ UNCHANGED <<keys, raw, wish, found, held, barred>>
  BY DEF NotVerified, Advance
<1>. QED
  BY <1>1 DEF KeyInv, KeyShape, Stage, Over, KeyTypeOK, BarredStaysOut, BarredIsBad,
              CandidateHasExpired, EditorIsAdmin, Holder

\* The check of the scope keeps the invariant.
LEMMA CheckScopeInv ==
  ASSUME KeyAssumption, KeyInv, NEW c \in Calls, CheckScope(c)
  PROVE  KeyInv'
<1>1. call[c] = "scope" /\ UNCHANGED <<keys, raw, wish, found, held, barred>>
  BY DEF CheckScope
<1>2. PICK to \in {"refused", "create", "load"} :
        /\ call' = [call EXCEPT ![c] = to]
        /\ to # "refused" => Holder(c).admin
        /\ to = "create" => wish[c].do = "create"
        /\ to = "load" => wish[c].do # "create"
  BY DEF CheckScope, Advance
<1>3. KeyShape' /\ KeyTypeOK' /\ BarredStaysOut' /\ BarredIsBad' /\ CandidateHasExpired'
  BY <1>1, <1>2 DEF KeyInv, KeyShape, Stage, Over, KeyTypeOK, BarredStaysOut, BarredIsBad,
                    CandidateHasExpired
<1>4. EditorIsAdmin'
  BY <1>1, <1>2, SameHolder DEF KeyInv, KeyShape, EditorIsAdmin
<1>. QED
  BY <1>3, <1>4 DEF KeyInv

\* Creating a key keeps the invariant.
LEMMA CreateInv ==
  ASSUME KeyAssumption, KeyInv, NEW c \in Calls, Create(c)
  PROVE  KeyInv'
<1>1. call[c] = "create" /\ call' = [call EXCEPT ![c] = "served"]
      /\ keys' = keys \cup {NewKey(c)} /\ (\A k \in keys : k.id # NewKey(c).id)
      /\ UNCHANGED <<raw, wish, found, held, barred>>
  BY DEF Create, Advance, NewKey
<1>2. NewKey(c) \in KeyRow
  <2>1. held[c] # {} /\ wish[c].do = "create" /\ wish[c] \in Wish
    BY <1>1 DEF KeyInv, KeyShape, KeyTypeOK, EditorIsAdmin
  <2>2. wish[c].key \in Keys /\ wish[c].admin \in BOOLEAN /\ wish[c].lapses \in BOOLEAN
    BY <2>1 DEF Wish
  <2>3. Holder(c).org \in KeyOrgs
    BY <2>1, HolderIsHeld DEF KeyRow
  <2>. QED
    BY <2>2, <2>3 DEF NewKey, KeyRow
<1>3. KeyShape'
  BY <1>1 DEF KeyInv, KeyShape, Stage, Over
<1>4. KeyTypeOK'
  BY <1>1, <1>2 DEF KeyInv, KeyShape, KeyTypeOK
<1>5. BarredStaysOut' /\ BarredIsBad' /\ CandidateHasExpired'
  BY <1>1 DEF KeyInv, KeyShape, BarredStaysOut, BarredIsBad, CandidateHasExpired
<1>6. EditorIsAdmin'
  <2> SUFFICES ASSUME NEW q \in Calls, call'[q] = "write", NEW k \in keys', k.id = wish[q].key
               PROVE  k.org = Holder(q).org
    BY <1>1, SameHolder DEF KeyInv, KeyShape, EditorIsAdmin
  <2>1. call[q] = "write" /\ q # c
    BY <1>1 DEF KeyInv, KeyShape
  <2>. QED
    BY <1>1, <2>1, SameHolder DEF KeyInv, KeyShape, EditorIsAdmin
<1>. QED
  BY <1>3, <1>4, <1>5, <1>6 DEF KeyInv

\* Loading a key to edit keeps the invariant.
LEMMA LoadInv ==
  ASSUME KeyAssumption, KeyInv, NEW c \in Calls, Load(c)
  PROVE  KeyInv'
<1>1. call[c] = "load" /\ UNCHANGED <<keys, raw, wish, held, barred>>
  BY DEF Load
<1>2. PICK to \in {"refused", "write"} :
        call' = [call EXCEPT ![c] = to] /\ (to = "write" => InReach(c) # {})
  BY DEF Load, Advance
<1>3. PICK matching \in SUBSET KeyRow : found' = [found EXCEPT ![c] = matching]
  <2>1. held[c] \in SUBSET KeyRow /\ InReach(c) \in SUBSET KeyRow
    BY DEF InReach, KeyInv, KeyShape, KeyTypeOK
  <2>. QED
    BY <2>1 DEF Load, Loads
<1>4. KeyShape'
  BY <1>1, <1>2, <1>3 DEF KeyInv, KeyShape, Stage, Over
<1>5. KeyTypeOK' /\ BarredStaysOut' /\ BarredIsBad'
  BY <1>1, <1>2 DEF KeyInv, KeyShape, KeyTypeOK, BarredStaysOut, BarredIsBad
<1>6. CandidateHasExpired'
  BY <1>1, <1>2, <1>3 DEF KeyInv, KeyShape, CandidateHasExpired
<1>7. EditorIsAdmin'
  <2>1. InReach(c) # {} => /\ \E k \in keys : k.id = wish[c].key
                           /\ \A k \in keys : k.id = wish[c].key => k.org = Holder(c).org
    BY DEF InReach, KeyInv, KeyTypeOK
  <2>. QED
    BY <1>1, <1>2, <2>1, SameHolder DEF KeyInv, KeyShape, EditorIsAdmin
<1>. QED
  BY <1>4, <1>5, <1>6, <1>7 DEF KeyInv

\* What a commit leaves of a row, whichever key it is of.
Image(c, k) == IF k.id = wish[c].key THEN KeyWritten(c, k) ELSE k

\* What an edit writes back is a row of the table.
LEMMA ImageIsARow ==
  ASSUME KeyAssumption, KeyInv, NEW c \in Calls, call[c] = "write", NEW k \in keys
  PROVE  /\ Image(c, k) \in KeyRow /\ Image(c, k).id = k.id /\ Image(c, k).org = k.org
         /\ Image(c, k).expired = k.expired
         /\ ~k.active /\ Image(c, k).active =>
              k.id = wish[c].key /\ wish[c].do = "active" /\ wish[c].active /\ ~Copy(c).active
<1>1. k \in KeyRow /\ wish[c] \in Wish
  BY DEF KeyInv, KeyShape, KeyTypeOK
<1>2. wish[c].do \notin {"proxy", "create"}
  BY DEF KeyInv, EditorIsAdmin
<1>3. /\ wish[c].do \in {"scopes", "active", "revoke"}
      /\ wish[c].do = "scopes" => wish[c].admin \in BOOLEAN
      /\ wish[c].do = "active" => wish[c].active \in BOOLEAN
  BY <1>1, <1>2 DEF Wish
<1>4. EditedAdmin(c) # Copy(c).admin => EditedAdmin(c) \in BOOLEAN
  BY <1>3 DEF EditedAdmin
<1>5. EditedActive(c) # Copy(c).active => EditedActive(c) \in BOOLEAN
  BY <1>3 DEF EditedActive
<1>6. Image(c, k) = [k EXCEPT !.admin = Image(c, k).admin, !.active = Image(c, k).active]
      /\ Image(c, k).admin \in BOOLEAN /\ Image(c, k).active \in BOOLEAN
  BY <1>1, <1>4, <1>5 DEF Image, KeyWritten, KeyRow
<1>7. ~k.active /\ Image(c, k).active =>
        k.id = wish[c].key /\ EditedActive(c) /\ EditedActive(c) # Copy(c).active
  BY <1>1 DEF Image, KeyWritten, KeyRow
<1>8. EditedActive(c) /\ EditedActive(c) # Copy(c).active =>
        wish[c].do = "active" /\ wish[c].active /\ ~Copy(c).active
  BY <1>3 DEF EditedActive
<1>. QED
  BY <1>1, <1>6, <1>7, <1>8 DEF KeyRow

\* Committing an edit keeps the invariant.
LEMMA CommitKeyInv ==
  ASSUME KeyAssumption, KeyInv, NEW c \in Calls, CommitKey(c)
  PROVE  KeyInv'
<1>1. call[c] = "write" /\ call' = [call EXCEPT ![c] = "served"]
      /\ found' = [found EXCEPT ![c] = {}] /\ UNCHANGED <<raw, wish, held>>
      /\ keys' = {Image(c, k) : k \in keys}
  BY DEF CommitKey, Advance, Loads, Image
<1>2. barred' = [q \in Calls |-> barred[q] \ {k.id : k \in {row \in keys' : Good(row)}}]
  BY DEF CommitKey
<1>3. \A k \in keys : Image(c, k) \in KeyRow /\ Image(c, k).id = k.id
                     /\ Image(c, k).org = k.org /\ Image(c, k).expired = k.expired
  BY <1>1, ImageIsARow
<1> HIDE DEF Image
<1>4. KeyShape'
  BY <1>1, <1>2 DEF KeyInv, KeyShape, Stage, Over
<1>5. KeyTypeOK'
  BY <1>1, <1>3 DEF KeyInv, KeyShape, KeyTypeOK
<1>6. BarredStaysOut'
  BY <1>1, <1>2 DEF KeyInv, KeyShape, BarredStaysOut
<1>7. BarredIsBad'
  <2> SUFFICES ASSUME NEW q \in Calls, NEW id \in barred'[q]
               PROVE  (\E k \in keys' : k.id = id) /\ \A k \in keys' : k.id = id => ~Good(k)
    BY DEF BarredIsBad
  <2>1. id \in barred[q] /\ id \notin {k.id : k \in {row \in keys' : Good(row)}}
    BY <1>2
  <2>. QED
    BY <1>1, <1>3, <2>1 DEF KeyInv, BarredIsBad
<1>8. CandidateHasExpired'
  <2> SUFFICES ASSUME NEW q \in Calls, call'[q] = "verify", NEW row \in found'[q],
                      row.id \in barred'[q]
               PROVE  \E k \in keys' : k.id = row.id /\ k.expired
    BY DEF CandidateHasExpired
  <2>1. call[q] = "verify" /\ row \in found[q] /\ row.id \in barred[q]
    BY <1>1, <1>2 DEF KeyInv, KeyShape
  <2>2. PICK k \in keys : k.id = row.id /\ k.expired
    BY <2>1 DEF KeyInv, CandidateHasExpired
  <2>. QED
    BY <1>1, <1>3, <2>2
<1>9. EditorIsAdmin'
  BY <1>1, <1>3, SameHolder DEF KeyInv, KeyShape, EditorIsAdmin
<1>. QED
  BY <1>4, <1>5, <1>6, <1>7, <1>8, <1>9 DEF KeyInv

\* The expiry of a key keeps the invariant.
LEMMA KeyExpiresInv ==
  ASSUME KeyAssumption, KeyInv, KeyExpires
  PROVE  KeyInv'
<1>1. PICK row \in keys : ~row.expired /\ keys' = (keys \ {row}) \cup {[row EXCEPT !.expired = TRUE]}
  BY DEF KeyExpires
<1>2. UNCHANGED <<call, raw, wish, found, held, barred>>
  BY DEF KeyExpires
<1> DEFINE new == [row EXCEPT !.expired = TRUE]
<1>3. row \in KeyRow /\ new \in KeyRow /\ new.id = row.id /\ new.org = row.org /\ new.expired
      /\ ~Good(new)
  <2>1. row \in KeyRow
    BY DEF KeyInv, KeyTypeOK
  <2>2. new \in KeyRow /\ new.id = row.id /\ new.org = row.org /\ new.expired
    BY <2>1 DEF KeyRow
  <2>. QED
    BY <2>1, <2>2 DEF Good
<1> HIDE DEF new
<1>4. keys' = (keys \ {row}) \cup {new}
  BY <1>1 DEF new
<1>5. KeyShape' /\ BarredStaysOut'
  BY <1>2 DEF KeyInv, KeyShape, BarredStaysOut
<1>6. KeyTypeOK'
  BY <1>2, <1>3, <1>4 DEF KeyInv, KeyShape, KeyTypeOK
<1>7. BarredIsBad'
  BY <1>2, <1>3, <1>4 DEF KeyInv, KeyTypeOK, BarredIsBad
<1>8. CandidateHasExpired'
  BY <1>2, <1>3, <1>4 DEF KeyInv, KeyTypeOK, CandidateHasExpired
<1>9. EditorIsAdmin'
  BY <1>2, <1>3, <1>4, SameHolder DEF KeyInv, EditorIsAdmin
<1>. QED
  BY <1>5, <1>6, <1>7, <1>8, <1>9 DEF KeyInv

\* Every step keeps the invariant.
LEMMA KeyNextInv ==
  ASSUME KeyAssumption, KeyInv, [KeyNext]_keyVars
  PROVE  KeyInv'
<1>1. CASE UNCHANGED keyVars
  BY <1>1, SameHolder DEF keyVars, KeyInv, KeyShape, KeyTypeOK, BarredIsBad,
       CandidateHasExpired, BarredStaysOut, EditorIsAdmin
<1>2. CASE KeyNext
  BY <1>2, PresentInv, SelectKeyInv, VerifyInv, NotVerifiedInv, CheckScopeInv, CreateInv,
     LoadInv, CommitKeyInv, KeyExpiresInv DEF KeyNext, Handle
<1>. QED
  BY <1>1, <1>2

\* Keys keep their shape, and whoever is past authentication sent the secret of
\* the key it holds (validate_api_key).
THEOREM KeyTypeCorrect == KeySpec => []KeyTypeOK
<1>1. KeyInv => KeyTypeOK
  BY DEF KeyInv
<1>. QED
  BY <1>1, KeyAssumption, KeyInitInv, KeyNextInv, PTL DEF KeySpec

\* A key that was revoked or has expired lets in only requests that had come
\* before (validate_api_key beside revoke_key and update_key).
THEOREM RevokedStaysOut == KeySpec => []BarredStaysOut
<1>1. KeyInv => BarredStaysOut
  BY DEF KeyInv
<1>. QED
  BY <1>1, KeyAssumption, KeyInitInv, KeyNextInv, PTL DEF KeySpec

\* Only a commit changes a row's columns, and it is one of an editor.
LEMMA WhoChangesKeys ==
  ASSUME KeyAssumption, KeyInv, [KeyNext]_keyVars, NEW new \in keys'
  PROVE  \/ \E k \in keys : k.id = new.id /\ k.admin = new.admin /\ k.active = new.active
         \/ ByOwnAdmin(new)
<1>1. ASSUME NEW c \in Calls, Create(c)
      PROVE  new \in keys \/ ByOwnAdmin(new)
  <2>1. CASE new \in keys
    BY <2>1
  <2>2. CASE new \notin keys
    <3>1. new = NewKey(c) /\ call[c] = "create" /\ call' = [call EXCEPT ![c] = "served"]
          /\ \A k \in keys : k.id # NewKey(c).id
      BY <1>1, <2>2 DEF Create, Advance, NewKey
    <3>2. Holder(c).admin /\ new.org = Holder(c).org /\ call'[c] = "served"
      BY <3>1 DEF KeyInv, KeyShape, EditorIsAdmin, NewKey
    <3>. QED
      BY <3>1, <3>2 DEF ByOwnAdmin
  <2>. QED
    BY <2>1, <2>2
<1>2. ASSUME NEW c \in Calls, CommitKey(c)
      PROVE  new \in keys \/ ByOwnAdmin(new)
  <2>1. call[c] = "write" /\ call' = [call EXCEPT ![c] = "served"]
        /\ keys' = {Image(c, k) : k \in keys}
    BY <1>2 DEF CommitKey, Advance, Image
  <2>2. PICK k \in keys : new = Image(c, k)
    BY <2>1
  <2>3. CASE k.id # wish[c].key
    BY <2>2, <2>3 DEF Image
  <2>4. CASE k.id = wish[c].key
    <3>1. new.id = k.id /\ new.org = k.org
      BY <2>1, <2>2, ImageIsARow
    <3>2. Holder(c).admin /\ (\A q \in keys : q.id = k.id => q.org = Holder(c).org)
          /\ call'[c] = "served"
      BY <2>1, <2>4 DEF KeyInv, KeyShape, EditorIsAdmin
    <3>. QED
      BY <2>1, <3>1, <3>2 DEF ByOwnAdmin
  <2>. QED
    BY <2>3, <2>4
<1>3. CASE KeyExpires
  <2>1. PICK row \in keys : keys' = (keys \ {row}) \cup {[row EXCEPT !.expired = TRUE]}
    BY <1>3 DEF KeyExpires
  <2>2. row \in KeyRow
    BY DEF KeyInv, KeyTypeOK
  <2>. QED
    BY <2>1, <2>2 DEF KeyRow
<1>4. CASE keys' = keys
  BY <1>4
<1>5. keys' = keys \/ KeyExpires \/ \E c \in Calls : Create(c) \/ CommitKey(c)
  BY DEF KeyNext, Handle, keyVars, Present, SelectKey, Verify, NotVerified, CheckScope, Load
<1>. QED
  BY <1>1, <1>2, <1>3, <1>4, <1>5

\* The keys of an organisation are issued, edited and revoked by its own
\* administrators only (create_key, update_key, revoke_key).
THEOREM OrganisationKeepsItsKeys == KeySpec => OrgKeepsItsKeys
<1>1. ASSUME KeyInv, [KeyNext]_keyVars
      PROVE  [\A new \in keys' :
               \/ \E k \in keys : k.id = new.id /\ k.admin = new.admin /\ k.active = new.active
               \/ ByOwnAdmin(new)]_keyVars
  BY <1>1, KeyAssumption, WhoChangesKeys
<1>. QED
  BY <1>1, KeyAssumption, KeyInitInv, KeyNextInv, PTL DEF KeySpec, OrgKeepsItsKeys

\* Who activates a key asked for it and had read it as inactive.
LEMMA WhoActivates ==
  ASSUME KeyAssumption, KeyInv, [KeyNext]_keyVars, NEW old \in keys, NEW new \in keys',
         old.id = new.id, ~old.active, new.active
  PROVE  \E c \in Calls : /\ call[c] = "write" /\ call'[c] = "served"
                          /\ wish[c].do = "active" /\ wish[c].active /\ ~Copy(c).active
<1>1. \A a, b \in keys : a.id = b.id => a = b
  BY DEF KeyInv, KeyTypeOK
<1>2. ASSUME NEW c \in Calls, Create(c)
      PROVE  FALSE
  <2>1. new \in keys \/ new = NewKey(c)
    BY <1>2 DEF Create
  <2>2. old.id # NewKey(c).id
    BY <1>2 DEF Create, NewKey
  <2>. QED
    BY <1>1, <2>1, <2>2
<1>3. ASSUME NEW c \in Calls, CommitKey(c)
      PROVE  /\ call[c] = "write" /\ call'[c] = "served"
             /\ wish[c].do = "active" /\ wish[c].active /\ ~Copy(c).active
  <2>1. call[c] = "write" /\ call' = [call EXCEPT ![c] = "served"]
        /\ keys' = {Image(c, k) : k \in keys}
    BY <1>3 DEF CommitKey, Advance, Image
  <2>2. PICK k \in keys : new = Image(c, k)
    BY <2>1
  <2>3. k = old
    BY <1>1, <2>1, <2>2, ImageIsARow
  <2>. QED
    BY <2>1, <2>2, <2>3, ImageIsARow DEF KeyInv, KeyShape
<1>4. CASE KeyExpires
  <2>1. PICK row \in keys : keys' = (keys \ {row}) \cup {[row EXCEPT !.expired = TRUE]}
    BY <1>4 DEF KeyExpires
  <2>2. row \in KeyRow
    BY DEF KeyInv, KeyTypeOK
  <2>3. \E k \in keys : k.id = new.id /\ k.active = new.active
    BY <2>1, <2>2 DEF KeyRow
  <2>. QED
    BY <1>1, <2>3
<1>5. CASE keys' = keys
  BY <1>1, <1>5
<1>6. keys' = keys \/ KeyExpires \/ \E c \in Calls : Create(c) \/ CommitKey(c)
  BY DEF KeyNext, Handle, keyVars, Present, SelectKey, Verify, NotVerified, CheckScope, Load
<1>. QED
  BY <1>2, <1>3, <1>4, <1>5, <1>6

\* A revocation is undone on purpose only: edits are written by column, and a
\* column that the handler left as it had read it is not written (update_key).
THEOREM RevocationIsUndoneOnPurpose == KeySpec => RevocationHolds
<1>1. ASSUME KeyInv, [KeyNext]_keyVars
      PROVE  [\A old \in keys, new \in keys' :
               old.id = new.id /\ ~old.active /\ new.active =>
                 \E c \in Calls :
                   /\ call[c] = "write" /\ call'[c] = "served"
                   /\ wish[c].do = "active" /\ wish[c].active
                   /\ ~Copy(c).active]_keyVars
  BY <1>1, KeyAssumption, WhoActivates
<1>. QED
  BY <1>1, KeyAssumption, KeyInitInv, KeyNextInv, PTL DEF KeySpec, RevocationHolds
-----------------------------------------------------------------------------
\* The rate limiter.

\* A request that has yet to be counted has read the clock within the Skew.
InSkew == \A r \in Limited : stage[r] \in Windows => clock <= now[r] + Skew

\* What has passed and is no longer in the sorted set has left the window.
KeptInWindow ==
  \A w \in Windows : \A s \in passed[w] : s \in scores[w] \/ s + Size[w] <= clock

\* No score is younger than the last write, and each was tried.
ScoresWritten ==
  \A w \in Windows : \A s \in scores[w] : s <= touched[w] /\ s \in tried[w]

\* The scores that passed in the window that ends at t, less the Skew.
PassedBy(w, t) == {s \in passed[w] : t < s + Size[w] - Skew /\ s <= t}

PassedInQuota ==
  \A w \in Windows : \A t \in passed[w] : Cardinality(PassedBy(w, t)) <= Quota[w]

\* Who was turned away stays so.
OverHasCome ==
  \A w \in Windows : \A r \in over[w] : stage[r] = "refused"

RateInv ==
  /\ RateTypeOK /\ InSkew /\ KeptInWindow /\ ScoresWritten
  /\ PassedInQuota /\ OverHasCome /\ RefusedIsBusy

\* A window holds finitely many times.
LEMMA FiniteTimes ==
  ASSUME NEW n \in Nat, NEW S \in SUBSET (0..n)
  PROVE  IsFiniteSet(S) /\ Cardinality(S) \in Nat
<1>1. IsFiniteSet(0..n)
  BY FS_Interval, SMT
<1>. QED
  BY <1>1, FS_Subset, FS_CardinalityType

\* A subset of a window holds no more times.
LEMMA FewerTimes ==
  ASSUME NEW n \in Nat, NEW S \in SUBSET (0..n), NEW T \in SUBSET S
  PROVE  Cardinality(T) <= Cardinality(S)
BY FiniteTimes, FS_Subset

\* The invariant holds initially.
LEMMA RateInitInv ==
  ASSUME RateAssumption, RateInit
  PROVE  RateInv
BY DEF RateAssumption, RateInit, RateInv, RateTypeOK, Admitted, Windows, InSkew,
       KeptInWindow, ScoresWritten, PassedInQuota, OverHasCome, RefusedIsBusy

\* The scores that passed in a window of the new score are all counted.
LEMMA CountedInWindow ==
  ASSUME RateAssumption, RateInv, NEW r \in Limited, NEW w \in Windows, stage[r] = w,
         NEW t \in 0..clock, now[r] <= t
  PROVE  {s \in passed[w] \cup {now[r]} : t < s + Size[w] - Skew /\ s <= t} \in SUBSET Counted(r, w)
<1>1. clock <= now[r] + Skew /\ now[r] \in 0..clock /\ Size[w] \in Nat /\ Skew \in Nat
      /\ clock \in Nat /\ passed[w] \in SUBSET (0..clock)
  BY DEF RateInv, InSkew, RateTypeOK, RateAssumption
<1>2. SUFFICES ASSUME NEW s \in passed[w] \cup {now[r]}, t < s + Size[w] - Skew, s <= t
               PROVE  s \in Counted(r, w)
  OBVIOUS
<1>. QED
  BY <1>1, <1>2 DEF RateInv, KeptInWindow, Counted, Prune

\* A request that reaches Redis: the typed part of what follows, the same
\* whether it passes or not.
LEMMA CountTypes ==
  ASSUME RateAssumption, RateInv, NEW r \in Limited, NEW w \in Windows, Count(r, w)
  PROVE  /\ clock \in Nat /\ now[r] \in 0..clock
         /\ Counted(r, w) \in SUBSET (0..clock)
         /\ scores' \in [Windows -> SUBSET (0..clock)] /\ scores'[w] = Counted(r, w)
         /\ \A v \in Windows \ {w} : scores'[v] = scores[v] /\ tried'[v] = tried[v]
                                     /\ touched'[v] = touched[v]
         /\ tried' \in [Windows -> SUBSET (0..clock)] /\ tried'[w] = tried[w] \cup {now[r]}
         /\ touched' \in [Windows -> 0..clock] /\ touched'[w] = clock
<1>1. clock \in Nat /\ now[r] \in 0..clock /\ scores \in [Windows -> SUBSET (0..clock)]
      /\ tried \in [Windows -> SUBSET (0..clock)] /\ touched \in [Windows -> 0..clock]
  BY DEF RateInv, RateTypeOK
<1>2. Counted(r, w) \in SUBSET (0..clock)
  BY <1>1 DEF Counted, Prune
<1>3. clock \in 0..clock
  BY <1>1
<1>. QED
  BY <1>1, <1>2, <1>3 DEF Count

\* What is out of the window of a request that comes within the Skew is out of
\* the window that ends now.
LEMMA CountKeeps ==
  ASSUME RateAssumption, RateInv, NEW r \in Limited, NEW w \in Windows, Count(r, w)
  PROVE  /\ \A v \in Windows : \A s \in passed[v] : s \in scores'[v] \/ s + Size[v] <= clock
         /\ now[r] \in scores'[w]
         /\ ScoresWritten'
<1>1. clock \in Nat /\ now[r] \in 0..clock /\ passed[w] \in SUBSET (0..clock)
      /\ Size[w] \in Nat
  BY DEF RateInv, RateTypeOK, RateAssumption
<1>2. \A v \in Windows : \A s \in passed[v] : s \in scores'[v] \/ s + Size[v] <= clock
  <2> SUFFICES ASSUME NEW v \in Windows, NEW s \in passed[v]
               PROVE  s \in scores'[v] \/ s + Size[v] <= clock
    OBVIOUS
  <2>1. CASE v = w
    <3>1. s \in scores[w] \/ s + Size[w] <= clock
      BY <2>1 DEF RateInv, KeptInWindow
    <3>2. s \in scores[w] => s \in Counted(r, w) \/ s + Size[w] <= clock
      BY <1>1, <2>1 DEF Counted, Prune
    <3>. QED
      BY <2>1, <3>1, <3>2, CountTypes
  <2>2. CASE v # w
    BY <2>2, CountTypes DEF RateInv, KeptInWindow
  <2>. QED
    BY <2>1, <2>2
<1>3. now[r] \in scores'[w]
  BY CountTypes DEF Counted
<1>4. ScoresWritten'
  <2> SUFFICES ASSUME NEW v \in Windows, NEW s \in scores'[v]
               PROVE  s <= touched'[v] /\ s \in tried'[v]
    BY DEF ScoresWritten
  <2>1. CASE v = w
    <3>1. s \in Counted(r, w) /\ s \in 0..clock /\ touched'[w] = clock
      BY <2>1, CountTypes
    <3>2. s \in scores[w] \/ s = now[r]
      BY <3>1 DEF Counted, Prune
    <3>. QED
      BY <2>1, <3>1, <3>2, CountTypes DEF RateInv, ScoresWritten
  <2>2. CASE v # w
    BY <2>2, CountTypes DEF RateInv, ScoresWritten
  <2>. QED
    BY <2>1, <2>2
<1>. QED
  BY <1>2, <1>3, <1>4

\* A refusal is justified by what was tried, and stays so as more is tried.
LEMMA TriesGrow ==
  ASSUME RateAssumption, RateInv, NEW r \in Limited, NEW w \in Windows, Count(r, w),
         NEW v \in Windows, NEW q \in over[v]
  PROVE  Cardinality({s \in tried'[v] : s + Size[v] > now[q]}) > Quota[v]
<1> DEFINE Old == {s \in tried[v] : s + Size[v] > now[q]}
           New == {s \in tried'[v] : s + Size[v] > now[q]}
<1>1. clock \in Nat /\ New \in SUBSET (0..clock) /\ Old \in SUBSET New
  BY CountTypes DEF RateInv, RateTypeOK
<1>2. Cardinality(Old) > Quota[v]
  BY DEF RateInv, RefusedIsBusy
<1>3. Cardinality(Old) <= Cardinality(New) /\ Cardinality(New) \in Nat
      /\ Cardinality(Old) \in Nat
  BY <1>1, FewerTimes, FiniteTimes
<1>4. Quota[v] \in Nat
  BY DEF RateAssumption
<1>. HIDE DEF Old, New
<1>5. Cardinality(New) > Quota[v]
  BY <1>2, <1>3, <1>4
<1>. QED
  BY <1>5 DEF New

\* Refusing a request keeps the invariant.
LEMMA RefuseInv ==
  ASSUME RateAssumption, RateInv, NEW r \in Limited, NEW w \in Windows, Refuse(r, w)
  PROVE  RateInv'
<1>1. Count(r, w) /\ ~Within(r, w) /\ stage[r] = w /\ now' = now /\ clock' = clock
      /\ passed' = passed /\ stage' = [stage EXCEPT ![r] = "refused"]
      /\ over' = [over EXCEPT ![w] = @ \cup {r}]
  BY DEF Refuse, Count
<1>2. RateTypeOK'
  BY <1>1, CountTypes DEF RateInv, RateTypeOK, Admitted
<1>3. InSkew'
  BY <1>1 DEF RateInv, InSkew, RateTypeOK, Windows
<1>4. KeptInWindow' /\ ScoresWritten'
  BY <1>1, CountKeeps DEF KeptInWindow
<1>5. PassedInQuota'
  BY <1>1 DEF RateInv, PassedInQuota, PassedBy
<1>6. OverHasCome'
  BY <1>1 DEF RateInv, OverHasCome, RateTypeOK
<1>7. RefusedIsBusy'
  <2> SUFFICES ASSUME NEW v \in Windows, NEW q \in over'[v]
               PROVE  Cardinality({s \in tried'[v] : s + Size[v] > now[q]}) > Quota[v]
    BY <1>1 DEF RefusedIsBusy
  <2>1. CASE q \in over[v]
    BY <2>1, <1>1, TriesGrow
  <2>2. CASE q \notin over[v]
    <3> DEFINE New == {s \in tried'[w] : s + Size[w] > now[r]}
    <3>1. q = r /\ v = w
      BY <2>2, <1>1 DEF RateInv, RateTypeOK
    <3>2. clock \in Nat /\ New \in SUBSET (0..clock) /\ Counted(r, w) \in SUBSET New
      <4>1. now[r] \in Nat /\ Size[w] \in Nat /\ Size[w] > 0
        BY DEF RateInv, RateTypeOK, RateAssumption
      <4>2. \A s \in Counted(r, w) : s \in tried'[w] /\ s + Size[w] > now[r]
        BY <4>1, <1>1, CountTypes DEF Counted, Prune, RateInv, ScoresWritten
      <4>. QED
        BY <4>2, <1>1, CountTypes
    <3>3. Cardinality(Counted(r, w)) <= Cardinality(New) /\ Cardinality(New) \in Nat
          /\ Cardinality(Counted(r, w)) \in Nat
      BY <3>2, FewerTimes, FiniteTimes
    <3>4. ~(Cardinality(Counted(r, w)) <= Quota[w]) /\ Quota[w] \in Nat
      BY <1>1 DEF Within, RateAssumption
    <3>. HIDE DEF New
    <3>5. Cardinality(New) > Quota[w]
      BY <3>3, <3>4
    <3>. QED
      BY <3>1, <3>5 DEF New
  <2>. QED
    BY <2>1, <2>2
<1>. QED
  BY <1>2, <1>3, <1>4, <1>5, <1>6, <1>7 DEF RateInv

\* Passing a request on to the next window keeps the invariant.
LEMMA PassInv ==
  ASSUME RateAssumption, RateInv, NEW r \in Limited, NEW w \in Windows, Pass(r, w)
  PROVE  RateInv'
<1>1. Count(r, w) /\ Within(r, w) /\ stage[r] = w /\ now' = now /\ clock' = clock
      /\ passed' = [passed EXCEPT ![w] = @ \cup {now[r]}]
      /\ stage' = [stage EXCEPT ![r] = NextStage(w)] /\ over' = over
  BY DEF Pass, Count
<1>2. RateTypeOK'
  <2>1. passed' \in [Windows -> SUBSET (0..clock)] /\ now \in [Limited -> 0..clock]
        /\ stage' \in [Limited -> Windows \cup {"new", "admitted", "refused"}]
    BY <1>1 DEF RateInv, RateTypeOK, NextStage, Windows
  <2>2. \A q \in Limited : stage'[q] \in {"hour", "admitted"} => now[q] \in passed'["minute"]
    BY <1>1 DEF RateInv, RateTypeOK, NextStage, Windows
  <2>3. \A q \in Limited : stage'[q] = "admitted" => now[q] \in passed'["hour"]
    BY <1>1 DEF RateInv, RateTypeOK, Admitted, NextStage, Windows
  <2>. QED
    BY <1>1, <2>1, <2>2, <2>3, CountTypes DEF RateInv, RateTypeOK, Admitted
<1>3. InSkew'
  BY <1>1 DEF RateInv, InSkew, RateTypeOK, NextStage, Windows
<1>4. ScoresWritten'
  BY <1>1, CountKeeps
<1>5. KeptInWindow'
  BY <1>1, CountKeeps DEF KeptInWindow, RateInv, RateTypeOK
<1>6. PassedInQuota'
  <2> SUFFICES ASSUME NEW v \in Windows, NEW t \in passed'[v]
               PROVE  Cardinality(PassedBy(v, t)') <= Quota[v]
    BY DEF PassedInQuota
  <2>0. t \in 0..clock /\ clock \in Nat /\ now[r] \in 0..clock /\ passed[v] \in SUBSET (0..clock)
        /\ Size[v] \in Nat /\ Skew \in Nat /\ Skew < Size[v] /\ Quota[v] \in Nat
    BY <1>1 DEF RateInv, RateTypeOK, RateAssumption
  <2>1. CASE v # w
    BY <2>1, <1>1 DEF RateInv, RateTypeOK, PassedInQuota, PassedBy
  <2>2. CASE v = w /\ now[r] <= t
    <3>1. PassedBy(w, t)' \in SUBSET Counted(r, w)
      BY <2>0, <2>2, <1>1, CountedInWindow DEF PassedBy, RateInv, RateTypeOK
    <3>2. Counted(r, w) \in SUBSET (0..clock)
      BY <1>1, CountTypes
    <3> DEFINE P == PassedBy(w, t)'
    <3>3. Cardinality(P) <= Cardinality(Counted(r, w)) /\ Cardinality(P) \in Nat
          /\ Cardinality(Counted(r, w)) \in Nat
      BY <2>0, <3>1, <3>2, FewerTimes, FiniteTimes
    <3>4. Cardinality(Counted(r, w)) <= Quota[w]
      BY <1>1 DEF Within
    <3>. QED
      BY <2>0, <2>2, <3>3, <3>4
  <2>3. CASE v = w /\ t < now[r]
    <3>1. t \in passed[w]
      BY <2>0, <2>3, <1>1 DEF RateInv, RateTypeOK
    <3>2. PassedBy(w, t)' = PassedBy(w, t)
      BY <2>0, <2>3, <1>1 DEF PassedBy, RateInv, RateTypeOK
    <3>. QED
      BY <2>3, <3>1, <3>2 DEF RateInv, PassedInQuota
  <2>. QED
    BY <2>0, <2>1, <2>2, <2>3
<1>7. OverHasCome'
  BY <1>1 DEF RateInv, OverHasCome, RateTypeOK, Windows
<1>8. RefusedIsBusy'
  BY <1>1, TriesGrow DEF RefusedIsBusy
<1>. QED
  BY <1>2, <1>3, <1>4, <1>5, <1>6, <1>7, <1>8 DEF RateInv

\* Reading the clock keeps the invariant.
LEMMA ReadClockInv ==
  ASSUME RateAssumption, RateInv, NEW r \in Limited, ReadClock(r)
  PROVE  RateInv'
<1>1. stage[r] = "new" /\ \A w \in Windows : r \notin over[w]
  BY DEF ReadClock, RateInv, OverHasCome
<1>2. RateTypeOK'
  BY DEF ReadClock, RateInv, RateTypeOK, Admitted, Windows
<1>3. InSkew'
  BY DEF ReadClock, RateInv, RateTypeOK, InSkew, RateAssumption
<1>4. KeptInWindow' /\ ScoresWritten' /\ PassedInQuota'
  BY DEF ReadClock, RateInv, KeptInWindow, ScoresWritten, PassedInQuota, PassedBy
<1>5. OverHasCome'
  BY <1>1 DEF ReadClock, RateInv, OverHasCome, RateTypeOK
<1>6. RefusedIsBusy'
  BY <1>1 DEF ReadClock, RateInv, RefusedIsBusy, RateTypeOK
<1>. QED
  BY <1>2, <1>3, <1>4, <1>5, <1>6 DEF RateInv

\* The expiry of a window keeps the invariant.
LEMMA ExpireInv ==
  ASSUME RateAssumption, RateInv, NEW w \in Windows, Expire(w)
  PROVE  RateInv'
<1>1. RateTypeOK'
  BY DEF Expire, RateInv, RateTypeOK, Admitted
<1>2. InSkew' /\ PassedInQuota' /\ OverHasCome' /\ RefusedIsBusy'
  BY DEF Expire, RateInv, InSkew, PassedInQuota, PassedBy, OverHasCome, RefusedIsBusy
<1>3. ScoresWritten'
  BY DEF Expire, RateInv, ScoresWritten, RateTypeOK
<1>4. KeptInWindow'
  <2> SUFFICES ASSUME NEW v \in Windows, NEW s \in passed[v]
               PROVE  s \in scores'[v] \/ s + Size[v] <= clock
    BY DEF Expire, KeptInWindow
  <2>1. s \in scores[v] \/ s + Size[v] <= clock
    BY DEF RateInv, KeptInWindow
  <2>2. s \in Nat /\ Size[v] \in Nat /\ Buffer \in Nat /\ clock \in Nat /\ touched[v] \in Nat
    BY DEF RateInv, RateTypeOK, RateAssumption
  <2>3. v = w /\ s \in scores[v] => s + Size[v] <= clock
    BY <2>2 DEF Expire, TimeToLive, RateInv, ScoresWritten
  <2>4. v # w => scores'[v] = scores[v]
    BY DEF Expire, RateInv, RateTypeOK
  <2>. QED
    BY <2>1, <2>3, <2>4
<1>. QED
  BY <1>1, <1>2, <1>3, <1>4 DEF RateInv

\* The passing of time keeps the invariant.
LEMMA TickInv ==
  ASSUME RateAssumption, RateInv, Tick
  PROVE  RateInv'
<1>0. clock \in Nat /\ clock' = clock + 1 /\ 0..clock \in SUBSET (0..clock')
  BY DEF Tick, RateInv, RateTypeOK
<1>1. RateTypeOK'
  BY <1>0 DEF Tick, RateInv, RateTypeOK, Admitted
<1>2. InSkew'
  BY DEF Tick, InSkew
<1>3. KeptInWindow'
  BY <1>0 DEF Tick, RateInv, RateTypeOK, KeptInWindow, RateAssumption
<1>4. ScoresWritten' /\ PassedInQuota' /\ OverHasCome' /\ RefusedIsBusy'
  BY DEF Tick, RateInv, ScoresWritten, PassedInQuota, PassedBy, OverHasCome, RefusedIsBusy
<1>. QED
  BY <1>1, <1>2, <1>3, <1>4 DEF RateInv

\* Every step keeps the invariant.
LEMMA RateNextInv ==
  ASSUME RateAssumption, RateInv, [RateNext]_rateVars
  PROVE  RateInv'
<1>1. CASE UNCHANGED rateVars
  BY <1>1 DEF rateVars, RateInv, RateTypeOK, Admitted, InSkew, KeptInWindow, ScoresWritten,
              PassedInQuota, PassedBy, OverHasCome, RefusedIsBusy
<1>2. CASE RateNext
  BY <1>2, ReadClockInv, PassInv, RefuseInv, ExpireInv, TickInv DEF RateNext
<1>. QED
  BY <1>1, <1>2

\* Types, and that admission takes both windows: RateLimiter.__call__ raises
\* on the first window that is exceeded.
THEOREM RateTypeCorrect == RateSpec => []RateTypeOK
<1>1. RateInv => RateTypeOK
  BY DEF RateInv
<1>. QED
  BY <1>1, RateAssumption, RateInitInv, RateNextInv, PTL DEF RateSpec

\* Admissions are among what passed each window.
LEMMA AdmittedPassed ==
  ASSUME RateAssumption, RateInv
  PROVE  AtMostQuota
<1> SUFFICES ASSUME NEW w \in Windows, NEW r \in Admitted
             PROVE  Cardinality(Recent(w, now[r])) <= Quota[w]
  BY DEF AtMostQuota
<1>1. \A q \in Admitted : now[q] \in passed[w]
  BY DEF RateInv, RateTypeOK, Admitted, Windows
<1>2. Recent(w, now[r]) \in SUBSET PassedBy(w, now[r])
  BY <1>1 DEF Recent, PassedBy
<1>3. clock \in Nat /\ PassedBy(w, now[r]) \in SUBSET (0..clock) /\ Quota[w] \in Nat
  BY DEF PassedBy, RateInv, RateTypeOK, RateAssumption
<1>4. Cardinality(PassedBy(w, now[r])) <= Quota[w]
  BY <1>1 DEF RateInv, PassedInQuota
<1>5. Cardinality(Recent(w, now[r])) <= Cardinality(PassedBy(w, now[r]))
      /\ Cardinality(Recent(w, now[r])) \in Nat /\ Cardinality(PassedBy(w, now[r])) \in Nat
  BY <1>2, <1>3, FewerTimes, FiniteTimes
<1>. QED
  BY <1>3, <1>4, <1>5

\* However requests overtake each other on the way to Redis, a window that is
\* the Skew shorter than the configured one never holds more admissions than
\* the quota (_is_limit_exceeded).
THEOREM AdmissionsInQuota == RateSpec => []AtMostQuota
<1>. QED
  BY AdmittedPassed, RateAssumption, RateInitInv, RateNextInv, PTL DEF RateSpec

\* No request is refused unless more than the quota tried within its window:
\* a client that pauses for a window is admitted again.
THEOREM RefusalsAreBusy == RateSpec => []RefusedIsBusy
<1>1. RateInv => RefusedIsBusy
  BY DEF RateInv
<1>. QED
  BY <1>1, RateAssumption, RateInitInv, RateNextInv, PTL DEF RateSpec

\* The limiter admits no more than the quota and refuses no one below it,
\* whatever order requests reach Redis in (RateLimiter.__call__).
THEOREM QuotaIsKept == RateSpec => []QuotaIsExact
<1>1. AtMostQuota /\ RefusedIsBusy => QuotaIsExact
  BY DEF QuotaIsExact
<1>. QED
  BY <1>1, AdmissionsInQuota, RefusalsAreBusy, PTL
-----------------------------------------------------------------------------
\* Budgets.

Stages == {"new", "select", "write", "read", "done", "failed"}

Typed ==
  /\ budgets \in SUBSET Budget
  /\ upsert \in [Upserts -> [at : Stages, key : BudgetKeys, limit : Limits,
                             found : SUBSET Budget]]
  /\ lastLimit \in [BudgetKeys -> SUBSET Limits]
  /\ doubledKeys \in SUBSET BudgetKeys
  /\ inTurn \in BOOLEAN

\* A row has the key of the upsert that inserted it, which is past its write.
RowsAreInserted ==
  \A b \in budgets :
    b.key = upsert[b.id].key /\ upsert[b.id].at \notin {"new", "select", "write"}

IdsAreKeys == \A a, b \in budgets : a.id = b.id => a = b

\* What an upsert found was a row of its key, and is there or was deleted.
FoundWereRows ==
  \A u \in Upserts : \A b \in upsert[u].found :
    /\ b.key = upsert[u].key /\ b.key = upsert[b.id].key
    /\ upsert[b.id].at \notin {"new", "select", "write"}
    /\ b.id \in dropped \/ \E c \in budgets : c.id = b.id

DoublesAreKnown ==
  \A a, b \in budgets : a # b /\ a.key = b.key => a.key \in doubledKeys

OneAtATime == inTurn => \A u, v \in Upserting : u = v

\* In turn, an upsert about to write has found whatever row there is.
FoundAll ==
  inTurn => \A u \in Upserts :
    upsert[u].at = "write" => BudgetsOf(upsert[u].key) \subseteq upsert[u].found

OneRowEach == inTurn => \A a, b \in budgets : a.key = b.key => a = b

LimitsStand == inTurn => \A k \in BudgetKeys : {b.limit : b \in BudgetsOf(k)} = lastLimit[k]

BudgetInv ==
  /\ Typed /\ RowsAreInserted /\ IdsAreKeys /\ FoundWereRows /\ DoublesAreKnown
  /\ OneAtATime /\ FoundAll /\ OneRowEach /\ LimitsStand /\ FailedSetNothing

\* A set with more than one element has two different ones.
LEMMA TwoOfMany ==
  ASSUME NEW S, Cardinality(S) > 1
  PROVE  \E a, b \in S : a # b
<1>1. SUFFICES ASSUME \A a, b \in S : a = b  PROVE FALSE
  OBVIOUS
<1>2. CASE S = {}
  BY <1>2, FS_EmptySet
<1>3. CASE S # {}
  <2>1. PICK x : x \in S
    BY <1>3
  <2>2. S = {x}
    BY <1>1, <2>1
  <2>. QED
    BY <2>2, FS_Singleton
<1>. QED
  BY <1>2, <1>3

\* The invariant holds initially.
LEMMA BudgetInitInv ==
  ASSUME BudgetInit
  PROVE  BudgetInv
<1>1. \A u \in Upserts : upsert[u].at = "new" /\ upsert[u].found = {}
  BY DEF BudgetInit
<1>2. Typed
  BY DEF BudgetInit, Typed, Stages
<1>3. LimitsStand
  BY DEF BudgetInit, LimitsStand, BudgetsOf
<1>. QED
  BY <1>1, <1>2, <1>3 DEF BudgetInit, BudgetInv, RowsAreInserted, IdsAreKeys, FoundWereRows,
     DoublesAreKnown, OneAtATime, Upserting, FoundAll, OneRowEach, FailedSetNothing

\* An upsert that goes on keeps the type of all.
LEMMA UpsertGoesTyped ==
  ASSUME Typed, NEW u \in Upserts, NEW to \in Stages, NEW new \in SUBSET Budget,
         UpsertGoes(u, to, new)
  PROVE  upsert' \in [Upserts -> [at : Stages, key : BudgetKeys, limit : Limits,
                                 found : SUBSET Budget]]
<1>. DEFINE next == [upsert[u] EXCEPT !.at = to, !.found = new]
<1>1. next \in [at : Stages, key : BudgetKeys, limit : Limits, found : SUBSET Budget]
  BY DEF Typed
<1>2. upsert' = [upsert EXCEPT ![u] = next]
  BY DEF UpsertGoes
<1>. HIDE DEF next
<1>. QED
  BY <1>1, <1>2 DEF Typed

\* Starting an upsert keeps the invariant.
LEMMA BeginSetInv ==
  ASSUME BudgetInv, NEW u \in Upserts, BeginSet(u)
  PROVE  BudgetInv'
<1>. USE DEF BudgetInv
<1>1. Typed'
  BY DEF Typed, BeginSet, UpsertGoes, Stages
<1>2. /\ \A v \in Upserts \ {u} : upsert'[v] = upsert[v]
      /\ upsert'[u].at = "select" /\ upsert'[u].found = {}
      /\ \A v \in Upserts : upsert'[v].key = upsert[v].key /\ upsert'[v].limit = upsert[v].limit
      /\ upsert[u].at = "new"
      /\ UNCHANGED <<budgets, lastLimit, doubledKeys, dropped>>
  BY DEF Typed, BeginSet, UpsertGoes
<1>3. inTurn' => inTurn /\ Upserting' = {u}
  BY <1>2 DEF BeginSet, Upserting
<1>4. RowsAreInserted' /\ FoundWereRows'
  BY <1>2 DEF RowsAreInserted, FoundWereRows, Typed, Budget
<1>5. FoundAll'
  BY <1>2, <1>3 DEF FoundAll, BudgetsOf
<1>6. FailedSetNothing'
  BY <1>2 DEF FailedSetNothing
<1>7. LimitsStand'
  BY <1>2, <1>3 DEF LimitsStand, BudgetsOf
<1>. QED
  BY <1>1, <1>2, <1>3, <1>4, <1>5, <1>6, <1>7 DEF IdsAreKeys, DoublesAreKnown, OneAtATime, OneRowEach

\* The select of an upsert keeps the invariant.
LEMMA SelectBudgetInv ==
  ASSUME BudgetInv, NEW u \in Upserts, SelectBudget(u)
  PROVE  BudgetInv'
<1>. USE DEF BudgetInv
<1>. DEFINE selected == BudgetsOf(upsert[u].key)
<1>1. selected \in SUBSET Budget /\ selected \in SUBSET budgets
  BY DEF Typed, BudgetsOf
<1>2. /\ \A v \in Upserts \ {u} : upsert'[v] = upsert[v]
      /\ upsert'[u].at = (IF Doubled(selected) THEN "failed" ELSE "write")
      /\ upsert'[u].found = selected
      /\ \A v \in Upserts : upsert'[v].key = upsert[v].key /\ upsert'[v].limit = upsert[v].limit
      /\ upsert[u].at = "select"
      /\ UNCHANGED <<budgets, lastLimit, doubledKeys, dropped, inTurn>>
  BY DEF Typed, SelectBudget, UpsertGoes
<1>3. Typed'
  <2>. DEFINE to == IF Doubled(selected) THEN "failed" ELSE "write"
  <2>1. to \in Stages /\ selected \in SUBSET Budget /\ UpsertGoes(u, to, selected)
    BY <1>1 DEF Stages, SelectBudget
  <2>. HIDE DEF to, selected
  <2>. QED
    BY <1>2, <2>1, UpsertGoesTyped DEF Typed
<1>4. RowsAreInserted'
  BY <1>2 DEF RowsAreInserted, Typed, Budget
<1>5. FoundWereRows'
  <2>1. SUFFICES ASSUME NEW v \in Upserts, NEW b \in upsert'[v].found
                 PROVE  /\ b.key = upsert[v].key /\ b.key = upsert[b.id].key
                        /\ upsert'[b.id].at \notin {"new", "select", "write"}
                        /\ b.id \in dropped \/ \E c \in budgets : c.id = b.id
    BY <1>2, <1>3 DEF FoundWereRows, Typed, Budget
  <2>2. CASE v = u
    BY <1>1, <1>2, <2>1, <2>2 DEF RowsAreInserted, BudgetsOf, Typed, Budget
  <2>3. CASE v # u
    BY <1>2, <2>1, <2>3 DEF FoundWereRows, Typed, Budget
  <2>. QED
    BY <2>2, <2>3
<1>6. OneAtATime' /\ FoundAll'
  BY <1>2 DEF OneAtATime, FoundAll, Upserting, BudgetsOf
<1>7. LimitsStand'
  BY <1>2 DEF LimitsStand, BudgetsOf
<1>8. FailedSetNothing'
  <2>1. Doubled(selected) => upsert[u].key \in doubledKeys
    BY TwoOfMany DEF Doubled, DoublesAreKnown, BudgetsOf
  <2>. QED
    BY <1>2, <2>1 DEF FailedSetNothing
<1>. QED
  BY <1>2, <1>3, <1>4, <1>5, <1>6, <1>7, <1>8 DEF IdsAreKeys, DoublesAreKnown, OneRowEach

\* The rows after a write: the ones there were, one limit set or one row added.
LEMMA RowsAfterWrite ==
  ASSUME Typed, RowsAreInserted, NEW u \in Upserts, WriteBudget(u)
  PROVE  /\ budgets' \in SUBSET Budget
         /\ \A b \in budgets : \E c \in budgets' : c.id = b.id /\ c.key = b.key
         /\ \A c \in budgets' :
              \/ c = NewBudget(u) /\ upsert[u].found = {}
              \/ \E b \in budgets : c.id = b.id /\ c.key = b.key
         /\ IdsAreKeys => IdsAreKeys'
<1>1. upsert[u].limit \in Limits /\ NewBudget(u) \in Budget /\ upsert[u].at = "write"
      /\ NewBudget(u).id = u
  BY DEF Typed, NewBudget, Budget, WriteBudget
<1>2. CASE upsert[u].found = {}
  <2>1. budgets' = budgets \cup {NewBudget(u)}
    BY <1>2 DEF WriteBudget
  <2>2. \A b \in budgets : b.id # u
    BY <1>1 DEF RowsAreInserted
  <2>3. IdsAreKeys => IdsAreKeys'
    BY <1>1, <2>1, <2>2 DEF IdsAreKeys
  <2>. QED
    BY <1>1, <1>2, <2>1, <2>3 DEF Typed
<1>3. CASE upsert[u].found # {}
  <2>1. budgets' = Updated(u)
    BY <1>3 DEF WriteBudget
  <2>. DEFINE New(b) == IF \E copy \in upsert[u].found : copy.id = b.id /\ copy.limit # upsert[u].limit
                        THEN [b EXCEPT !.limit = upsert[u].limit] ELSE b
  <2>2. budgets' = {New(b) : b \in budgets}
    BY <2>1 DEF Updated
  <2>3. \A b \in budgets : New(b) \in Budget /\ New(b).id = b.id /\ New(b).key = b.key
    BY <1>1 DEF Typed, Budget
  <2>. HIDE DEF New
  <2>4. IdsAreKeys => IdsAreKeys'
    BY <2>2, <2>3 DEF IdsAreKeys
  <2>. QED
    BY <2>2, <2>3, <2>4
<1>. QED
  BY <1>2, <1>3

\* In turn, the row that was written has the limit, and is the only one.
LEMMA OnlyRowWritten ==
  ASSUME BudgetInv, NEW u \in Upserts, WriteBudget(u), inTurn
  PROVE  /\ \E own \in budgets' : own.limit = upsert[u].limit
              /\ {b \in budgets' : b.key = upsert[u].key} = {own}
         /\ \A k \in BudgetKeys \ {upsert[u].key} :
              {b \in budgets' : b.key = k} = BudgetsOf(k)
<1>. USE DEF BudgetInv
<1>1. /\ upsert[u].limit \in Limits /\ NewBudget(u) \in Budget /\ upsert[u].at = "write"
      /\ NewBudget(u).id = u /\ NewBudget(u).key = upsert[u].key
      /\ NewBudget(u).limit = upsert[u].limit
      /\ BudgetsOf(upsert[u].key) \subseteq upsert[u].found
  BY DEF Typed, NewBudget, Budget, WriteBudget, FoundAll
<1>2. CASE upsert[u].found = {}
  <2>1. budgets' = budgets \cup {NewBudget(u)} /\ BudgetsOf(upsert[u].key) = {}
    BY <1>1, <1>2 DEF WriteBudget
  <2>2. {b \in budgets' : b.key = upsert[u].key} = {NewBudget(u)}
    BY <1>1, <2>1 DEF BudgetsOf
  <2>. QED
    BY <1>1, <2>1, <2>2 DEF BudgetsOf
<1>3. CASE upsert[u].found # {}
  <2>1. budgets' = Updated(u)
    BY <1>3 DEF WriteBudget
  <2>. DEFINE New(b) == IF \E copy \in upsert[u].found : copy.id = b.id /\ copy.limit # upsert[u].limit
                        THEN [b EXCEPT !.limit = upsert[u].limit] ELSE b
  <2>2. budgets' = {New(b) : b \in budgets}
    BY <2>1 DEF Updated
  <2>3. \A b \in budgets : New(b).id = b.id /\ New(b).key = b.key
    BY <1>1 DEF Typed, Budget
  <2>4. PICK own \in budgets : own.key = upsert[u].key
    <3>1. PICK b \in upsert[u].found : TRUE
      BY <1>3
    <3>2. PICK c \in budgets : c.id = b.id
      BY DEF WriteBudget, StillThere
    <3>. QED
      BY <3>1, <3>2 DEF FoundWereRows, RowsAreInserted
  <2>5. BudgetsOf(upsert[u].key) = {own}
    BY <2>4 DEF OneRowEach, BudgetsOf
  <2>6. New(own).limit = upsert[u].limit
    BY <1>1, <2>4, <2>5 DEF Typed, Budget, BudgetsOf
  <2>7. \A b \in budgets : b.key # upsert[u].key => New(b) = b
    <3>1. SUFFICES ASSUME NEW b \in budgets, b.key # upsert[u].key,
                          NEW copy \in upsert[u].found, copy.id = b.id
                   PROVE  FALSE
      OBVIOUS
    <3>. QED
      BY <3>1 DEF FoundWereRows, RowsAreInserted
  <2>. HIDE DEF New
  <2>8. {b \in budgets' : b.key = upsert[u].key} = {New(own)}
    BY <2>2, <2>3, <2>4, <2>5 DEF BudgetsOf
  <2>9. \A k \in BudgetKeys \ {upsert[u].key} : {b \in budgets' : b.key = k} = BudgetsOf(k)
    BY <2>2, <2>3, <2>7 DEF BudgetsOf
  <2>. QED
    BY <2>2, <2>4, <2>6, <2>8, <2>9
<1>. QED
  BY <1>2, <1>3

\* The insert or update of an upsert keeps the invariant.
LEMMA WriteBudgetInv ==
  ASSUME BudgetInv, NEW u \in Upserts, WriteBudget(u)
  PROVE  BudgetInv'
<1>. USE DEF BudgetInv
<1>. DEFINE kept == IF upsert[u].found = {} THEN {NewBudget(u)} ELSE upsert[u].found
<1>1. /\ \A v \in Upserts \ {u} : upsert'[v] = upsert[v]
      /\ upsert'[u].at = "read" /\ upsert'[u].found = kept
      /\ \A v \in Upserts : upsert'[v].key = upsert[v].key /\ upsert'[v].limit = upsert[v].limit
      /\ upsert[u].at = "write" /\ NewBudget(u) \in Budget /\ NewBudget(u).id = u
      /\ NewBudget(u).key = upsert[u].key
      /\ upsert[u].key \in BudgetKeys /\ upsert[u].limit \in Limits
      /\ UNCHANGED <<dropped, inTurn>>
      /\ lastLimit' = [lastLimit EXCEPT ![upsert[u].key] = {upsert[u].limit}]
  BY DEF Typed, WriteBudget, UpsertGoes, NewBudget, Budget
<1>2. /\ budgets' \in SUBSET Budget
      /\ \A b \in budgets : \E c \in budgets' : c.id = b.id /\ c.key = b.key
      /\ \A c \in budgets' :
           \/ c = NewBudget(u) /\ upsert[u].found = {}
           \/ \E b \in budgets : c.id = b.id /\ c.key = b.key
      /\ IdsAreKeys'
  BY RowsAfterWrite
<1>3. doubledKeys' = doubledKeys \cup {k \in BudgetKeys :
                       \E a, b \in budgets' : a # b /\ a.key = k /\ b.key = k}
  BY DEF WriteBudget
<1>4. Typed'
  <2>1. kept \in SUBSET Budget
    BY <1>1 DEF Typed
  <2>2. "read" \in Stages /\ UpsertGoes(u, "read", kept)
    BY DEF WriteBudget, Stages
  <2>3. upsert' \in [Upserts -> [at : Stages, key : BudgetKeys, limit : Limits,
                                 found : SUBSET Budget]]
    BY <2>1, <2>2, UpsertGoesTyped
  <2>. QED
    BY <1>1, <1>2, <1>3, <2>3 DEF Typed
<1>5. RowsAreInserted'
  <2>1. SUFFICES ASSUME NEW c \in budgets'
                 PROVE  /\ c.key = upsert[c.id].key
                        /\ upsert'[c.id].at \notin {"new", "select", "write"} /\ c.id \in Upserts
    BY <1>1, <1>4 DEF RowsAreInserted, Typed, Budget
  <2>2. CASE c = NewBudget(u)
    BY <1>1, <2>2
  <2>3. CASE \E b \in budgets : c.id = b.id /\ c.key = b.key
    BY <1>1, <2>3 DEF RowsAreInserted, Typed, Budget
  <2>. QED
    BY <1>2, <2>2, <2>3
<1>6. FoundWereRows'
  <2>1. SUFFICES ASSUME NEW v \in Upserts, NEW b \in upsert'[v].found
                 PROVE  /\ b.key = upsert[v].key /\ b.key = upsert[b.id].key
                        /\ upsert'[b.id].at \notin {"new", "select", "write"}
                        /\ b.id \in dropped \/ \E c \in budgets' : c.id = b.id
                        /\ b.id \in Upserts
    BY <1>1, <1>4 DEF FoundWereRows, Typed, Budget
  <2>2. CASE v = u /\ upsert[u].found = {}
    <3>1. b = NewBudget(u) /\ b \in budgets'
      BY <1>1, <2>1, <2>2 DEF WriteBudget
    <3>. QED
      BY <1>1, <2>2, <3>1
  <2>3. CASE v # u \/ upsert[u].found # {}
    <3>1. b \in upsert[v].found
      BY <1>1, <2>1, <2>3
    <3>. QED
      BY <1>1, <1>2, <3>1 DEF FoundWereRows, Typed, Budget
  <2>. QED
    BY <2>2, <2>3
<1>7. DoublesAreKnown'
  BY <1>3, <1>4 DEF DoublesAreKnown, Typed, Budget
<1>8. OneAtATime'
  BY <1>1 DEF OneAtATime, Upserting
<1>9. FoundAll'
  <2>1. SUFFICES ASSUME inTurn, NEW v \in Upserts, upsert'[v].at = "write"  PROVE FALSE
    BY <1>1 DEF FoundAll
  <2>2. v # u /\ upsert[v].at = "write" /\ v \in Upserting /\ u \in Upserting
    BY <1>1, <2>1 DEF Upserting
  <2>. QED
    BY <2>1, <2>2 DEF OneAtATime
<1>10. OneRowEach' /\ LimitsStand'
  <2>1. SUFFICES ASSUME inTurn  PROVE OneRowEach' /\ LimitsStand'
    BY <1>1 DEF OneRowEach, LimitsStand
  <2>2. PICK own \in budgets' : own.limit = upsert[u].limit
                                /\ {b \in budgets' : b.key = upsert[u].key} = {own}
    BY <2>1, OnlyRowWritten
  <2>3. \A k \in BudgetKeys \ {upsert[u].key} : {b \in budgets' : b.key = k} = BudgetsOf(k)
    BY <2>1, OnlyRowWritten
  <2>4. OneRowEach'
    <3>1. SUFFICES ASSUME NEW a \in budgets', NEW b \in budgets', a.key = b.key  PROVE a = b
      BY DEF OneRowEach
    <3>2. CASE a.key = upsert[u].key
      <4>1. a \in {c \in budgets' : c.key = upsert[u].key}
            /\ b \in {c \in budgets' : c.key = upsert[u].key}
        BY <3>1, <3>2
      <4>. QED
        BY <2>2, <4>1
    <3>3. CASE a.key # upsert[u].key
      <4>1. a.key \in BudgetKeys
        BY <1>2 DEF Budget
      <4>. QED
        BY <2>1, <2>3, <3>1, <3>3, <4>1 DEF OneRowEach, BudgetsOf
    <3>. QED
      BY <3>2, <3>3
  <2>5. LimitsStand'
    <3>1. SUFFICES ASSUME NEW k \in BudgetKeys
                   PROVE  {b.limit : b \in {c \in budgets' : c.key = k}} = lastLimit'[k]
      BY DEF LimitsStand, BudgetsOf
    <3>2. CASE k = upsert[u].key
      BY <1>1, <2>2, <3>2 DEF Typed
    <3>3. CASE k # upsert[u].key
      BY <1>1, <2>1, <2>3, <3>3 DEF Typed, LimitsStand
    <3>. QED
      BY <3>2, <3>3
  <2>. QED
    BY <2>4, <2>5
<1>11. FailedSetNothing'
  BY <1>1, <1>3 DEF FailedSetNothing
<1>. QED
  BY <1>2, <1>4, <1>5, <1>6, <1>7, <1>8, <1>9, <1>10, <1>11

\* The answer, with the row or with an error: no row changes.
LEMMA AnswerInv ==
  ASSUME BudgetInv, NEW u \in Upserts, ReadBack(u) \/ RowIsGone(u)
  PROVE  BudgetInv'
<1>. USE DEF BudgetInv
<1>1. /\ \A v \in Upserts \ {u} : upsert'[v] = upsert[v]
      /\ upsert'[u].at \in {"done", "failed"} /\ upsert'[u].found \in SUBSET upsert[u].found
      /\ \A v \in Upserts : upsert'[v].key = upsert[v].key /\ upsert'[v].limit = upsert[v].limit
      /\ UNCHANGED <<budgets, lastLimit, doubledKeys, dropped, inTurn>>
      /\ upsert[u].at \in {"write", "read"}
  BY DEF Typed, ReadBack, RowIsGone, UpsertGoes
<1>2. Typed'
  BY DEF Typed, ReadBack, RowIsGone, UpsertGoes, Stages
<1>3. RowsAreInserted' /\ FoundWereRows'
  BY <1>1 DEF RowsAreInserted, FoundWereRows, Typed, Budget
<1>4. OneAtATime' /\ FoundAll' /\ LimitsStand'
  BY <1>1 DEF OneAtATime, FoundAll, LimitsStand, Upserting, BudgetsOf
<1>5. FailedSetNothing'
  <2>1. upsert'[u].at = "failed" => \E b \in upsert'[u].found : b.id \in dropped
    <3>1. SUFFICES ASSUME RowIsGone(u)  PROVE \E b \in upsert'[u].found : b.id \in dropped
      BY DEF ReadBack, UpsertGoes, Typed
    <3>. QED
      BY <3>1 DEF RowIsGone, UpsertGoes, StillThere, FoundWereRows, Typed
  <2>. QED
    BY <1>1, <2>1 DEF FailedSetNothing
<1>. QED
  BY <1>1, <1>2, <1>3, <1>4, <1>5 DEF IdsAreKeys, DoublesAreKnown, OneRowEach

\* Deleting a budget keeps the invariant.
LEMMA DeleteBudgetInv ==
  ASSUME BudgetInv, DeleteBudget
  PROVE  BudgetInv'
<1>. USE DEF BudgetInv
<1>1. PICK row \in budgets :
        /\ budgets' = budgets \ {row} /\ dropped' = dropped \cup {row.id}
        /\ lastLimit' = [lastLimit EXCEPT ![row.key] = {}]
        /\ UNCHANGED <<upsert, doubledKeys, inTurn>>
  BY DEF DeleteBudget
<1>2. Typed'
  BY <1>1 DEF Typed
<1>3. RowsAreInserted' /\ IdsAreKeys' /\ DoublesAreKnown' /\ OneAtATime' /\ OneRowEach'
  BY <1>1 DEF RowsAreInserted, IdsAreKeys, DoublesAreKnown, OneAtATime, OneRowEach, Upserting
<1>4. FoundWereRows'
  BY <1>1 DEF FoundWereRows, IdsAreKeys
<1>5. FoundAll' /\ FailedSetNothing'
  BY <1>1 DEF FoundAll, FailedSetNothing, BudgetsOf
<1>6. LimitsStand'
  <2>1. SUFFICES ASSUME inTurn, NEW k \in BudgetKeys
                 PROVE  {b.limit : b \in {c \in budgets' : c.key = k}} = lastLimit'[k]
    BY <1>1 DEF LimitsStand, BudgetsOf
  <2>2. CASE k = row.key
    <3>1. {c \in budgets' : c.key = k} = {}
      BY <1>1, <2>1, <2>2 DEF OneRowEach
    <3>. QED
      BY <1>1, <2>2, <3>1 DEF Typed
  <2>3. CASE k # row.key
    <3>1. {c \in budgets' : c.key = k} = BudgetsOf(k)
      BY <1>1, <2>3 DEF BudgetsOf
    <3>. QED
      BY <1>1, <2>1, <2>3, <3>1 DEF Typed, LimitsStand
  <2>. QED
    BY <2>2, <2>3
<1>. QED
  BY <1>2, <1>3, <1>4, <1>5, <1>6

\* The inductive invariant holds in every behaviour of the upserts.
THEOREM BudgetInvariant == BudgetSpec => []BudgetInv
<1>1. BudgetInit => BudgetInv
  BY BudgetInitInv
<1>2. BudgetInv /\ [BudgetNext]_budgetVars => BudgetInv'
  <2>1. SUFFICES ASSUME BudgetInv, [BudgetNext]_budgetVars  PROVE BudgetInv'
    OBVIOUS
  <2>2. CASE UNCHANGED budgetVars
    BY <2>1, <2>2 DEF budgetVars, BudgetInv, Typed, RowsAreInserted, IdsAreKeys, FoundWereRows,
       DoublesAreKnown, OneAtATime, Upserting, FoundAll, BudgetsOf, OneRowEach, LimitsStand,
       FailedSetNothing
  <2>. QED
    BY <2>1, <2>2, BeginSetInv, SelectBudgetInv, WriteBudgetInv, AnswerInv, DeleteBudgetInv
       DEF BudgetNext
<1>. QED
  BY <1>1, <1>2, PTL DEF BudgetSpec

\* BudgetTypeOK, what it says of set_budget's rows, always.
THEOREM BudgetTypeCorrect == BudgetSpec => []BudgetTypeOK
<1>1. BudgetInv => BudgetTypeOK
  BY DEF BudgetInv, Typed, IdsAreKeys, FoundWereRows, BudgetTypeOK
<1>. QED
  BY <1>1, BudgetInvariant, PTL

\* While upserts do not overlap, the limit set_budget committed last stands,
\* whatever is deleted in between.
THEOREM LastLimitAlwaysStands == BudgetSpec => []LastLimitStands
<1>1. BudgetInv => LastLimitStands
  <2>1. SUFFICES ASSUME BudgetInv, inTurn, NEW k \in BudgetKeys
                 PROVE  /\ {b.limit : b \in {c \in budgets : c.key = k}} = lastLimit[k]
                        /\ Cardinality({b \in budgets : b.key = k}) <= 1
    BY DEF LastLimitStands
  <2>. DEFINE own == {b \in budgets : b.key = k}
  <2>2. {b.limit : b \in own} = lastLimit[k]
    BY <2>1 DEF BudgetInv, LimitsStand, BudgetsOf
  <2>3. own = {} \/ \E b : own = {b}
    BY <2>1 DEF BudgetInv, OneRowEach
  <2>. HIDE DEF own
  <2>4. CASE own = {}
    BY <2>2, <2>4, FS_EmptySet DEF own
  <2>5. CASE \E b : own = {b}
    <3>1. Cardinality(own) = 1
      BY <2>5, FS_Singleton
    <3>. QED
      BY <2>2, <3>1 DEF own
  <2>. QED
    BY <2>3, <2>4, <2>5
<1>. QED
  BY <1>1, BudgetInvariant, PTL

\* However upserts and deletions overlap, an upsert is refused only for a
\* doubled or a deleted budget.
THEOREM FailuresAreExplained == BudgetSpec => []FailedSetNothing
<1>1. BudgetInv => FailedSetNothing
  BY DEF BudgetInv
<1>. QED
  BY <1>1, BudgetInvariant, PTL

\* What set_budget answers is true of the table: a limit it reports is the one
\* that stands, and an error means a doubled or a deleted budget.
THEOREM LimitsStayHonest == BudgetSpec => []LimitsAreHonest
<1>1. LastLimitStands /\ FailedSetNothing => LimitsAreHonest
  BY DEF LimitsAreHonest
<1>. QED
  BY <1>1, LastLimitAlwaysStands, FailuresAreExplained, PTL

-----------------------------------------------------------------------------
\* Attribution.

Single(S) == \A x, y \in S : x = y

Charge == [request : Requests, team : TeamIds \cup {None}, project : ProjectIds \cup {None}]

AttributionShape ==
  /\ teams \in SUBSET TeamRow /\ projects \in SUBSET ProjectRow
  /\ at \in [Requests -> {"new", "team", "new team", "move team", "project", "new project",
                          "link", "dept", "new dept", "done", "over", "failed"}]
  /\ tag \in [Requests -> Tags]
  /\ team \in [Requests -> SUBSET TeamRow] /\ project \in [Requests -> SUBSET ProjectRow]
  /\ charged \in SUBSET Charge /\ gone \in SUBSET Ids
  /\ doubled \in BOOLEAN /\ calm \in BOOLEAN /\ edits \in Nat

\* Ids are keys, and a handler has one row of each kind.
RowsAreKeyed ==
  /\ IsFiniteSet(teams) /\ IsFiniteSet(projects)
  /\ \A a, b \in teams : a.id = b.id => a = b
  /\ \A a, b \in projects : a.id = b.id => a = b
  /\ \A r \in Requests : Single(team[r]) /\ Single(project[r])

\* The foreign keys of projects and of the log.
ReferencesHold ==
  \A p \in projects \cup charged : p.team = None \/ \E t \in teams : t.id = p.team

\* What a handler looks for, and has found by the stage it is at.
StagesAgree ==
  \A r \in Requests :
    /\ at[r] \in {"team", "new team", "move team"} => tag[r].team # None
    /\ at[r] = "move team" => tag[r].dept # None /\ team[r] # {}
    /\ at[r] = "new project" => tag[r].project # None
    /\ at[r] = "link" => team[r] # {} /\ project[r] # {}
    /\ at[r] = "new dept" => tag[r].dept # None /\ tag[r].team = None
    /\ at[r] \notin {"new", "team", "new team", "failed"} /\ tag[r].team # None => team[r] # {}
    /\ at[r] \in {"new", "team", "new team", "move team", "project"} => project[r] = {}

\* Two rows of one name are remembered; rows only go when a team is deleted.
LossesAreKnown ==
  /\ NamedTwice(teams) \/ NamedTwice(projects) => doubled
  /\ gone = {} => \A r \in Requests :
       /\ \A t \in team[r] : \E u \in teams : u.id = t.id
       /\ \A p \in project[r] : \E q \in projects : q.id = p.id

ShapeInv ==
  /\ AttributionShape /\ RowsAreKeyed /\ ReferencesHold /\ StagesAgree
  /\ ChargedAsNamed /\ LossesAreKnown /\ LostOnlyIfDoubled

Deserted == calm /\ edits = 0

\* What a handler did not find is still not there, and its project is in its
\* team.
Serves(r) ==
  /\ at[r] = "new team" => Find(teams, tag[r].org, tag[r].team) = {}
  /\ at[r] = "new project" => Find(projects, tag[r].org, tag[r].project) = {}
  /\ at[r] = "new dept" => \A t \in teams : ~(t.org = tag[r].org /\ SameName(t, tag[r].dept))
  /\ at[r] \in {"dept", "done"} /\ tag[r].team # None =>
       \A p \in projects : p.id = IdOf(project[r]) => p.team = IdOf(team[r])

\* So it is while handlers do not overlap and nobody edits: there is one at a
\* time.
SerialCharges ==
  Deserted => (\A r, s \in Handled : r = s) /\ \A r \in Requests : Serves(r)

ChargeInv == SerialCharges /\ OneRowPerName
-----------------------------------------------------------------------------
\* Several is what it says of a finite set.
LEMMA SeveralMeansTwo ==
  ASSUME NEW S, IsFiniteSet(S)  PROVE Several(S) <=> ~Single(S)
<1>1. CASE S = {}
  BY <1>1, FS_EmptySet DEF Several, Single
<1>2. CASE S # {}
  <2>1. PICK x \in S : TRUE
    BY <1>2
  <2>2. CASE Single(S)
    <3>1. S = {x}
      BY <2>1, <2>2 DEF Single
    <3>2. Cardinality({x}) = 1
      BY FS_Singleton
    <3>. QED
      BY <2>2, <3>1, <3>2 DEF Several
  <2>3. CASE ~Single(S)
    <3>1. Cardinality(S) \in Nat
      BY FS_CardinalityType
    <3>2. Cardinality(S) # 0
      BY <1>2, FS_EmptySet
    <3>3. Cardinality(S) # 1
      <4>1. ASSUME Cardinality(S) = 1  PROVE FALSE
        <5>1. PICK y : S = {y}
          BY <4>1, FS_Singleton
        <5>. QED
          BY <2>3, <5>1 DEF Single
      <4>. QED
        BY <4>1
    <3>. QED
      BY <2>3, <3>1, <3>2, <3>3 DEF Several
  <2>. QED
    BY <2>2, <2>3
<1>. QED
  BY <1>1, <1>2

\* A query that finds several rows has found two of one name.
LEMMA TwoFound ==
  ASSUME ShapeInv, NEW org, NEW value
  PROVE  /\ Several(Find(teams, org, value)) => NamedTwice(teams)
         /\ Several(Find(projects, org, value)) => NamedTwice(projects)
         /\ Several({t \in teams : t.org = org /\ SameName(t, value)}) => NamedTwice(teams)
<1>1. ASSUME NEW T \in {teams, projects}, NEW S \in SUBSET T,
             \A x \in S : x.org = org /\ ((value \in Ids /\ x.id = value) \/ SameName(x, value)),
             value \in Ids => (\A x \in S : x.id = value) \/ (\A x \in S : SameName(x, value)),
             Several(S)
      PROVE  NamedTwice(T)
  <2>1. IsFiniteSet(T) /\ \A a, b \in T : a.id = b.id => a = b
    BY DEF ShapeInv, RowsAreKeyed
  <2>2. IsFiniteSet(S)
    BY <2>1, FS_Subset
  <2>3. PICK x, y \in S : x # y
    BY <1>1, <2>2, SeveralMeansTwo DEF Single
  <2>4. SameName(x, value) /\ SameName(y, value)
    BY <1>1, <2>1, <2>3
  <2>. QED
    BY <1>1, <2>3, <2>4 DEF NamedTwice, SameName
<1>2. \A T \in {teams, projects} : Several(Find(T, org, value)) => NamedTwice(T)
  <2>1. SUFFICES ASSUME NEW T \in {teams, projects}, Several(Find(T, org, value))  PROVE NamedTwice(T)
    OBVIOUS
  <2>2. /\ Find(T, org, value) \in SUBSET T
        /\ \A x \in Find(T, org, value) :
             x.org = org /\ IF value \in Ids THEN x.id = value ELSE SameName(x, value)
    BY DEF Find
  <2>. QED
    BY <1>1, <2>1, <2>2
<1>3. Several({t \in teams : t.org = org /\ SameName(t, value)}) => NamedTwice(teams)
  <2>. DEFINE S == {t \in teams : t.org = org /\ SameName(t, value)}
  <2>1. S \in SUBSET teams /\ \A x \in S : x.org = org /\ SameName(x, value)
    OBVIOUS
  <2>. HIDE DEF S
  <2>2. Several(S) => NamedTwice(teams)
    BY <1>1, <2>1
  <2>. QED
    BY <2>2 DEF S
<1>. QED
  BY <1>2, <1>3

\* A request that fails has met two rows of one name, or a row that is gone.
LEMMA FailureExplained ==
  ASSUME ShapeInv, NEW r \in Requests, CannotResolve(r)  PROVE doubled \/ gone # {}
<1>1. SUFFICES ASSUME ~doubled, gone = {}  PROVE FALSE
  OBVIOUS
<1>2. ~NamedTwice(teams) /\ ~NamedTwice(projects)
  BY <1>1 DEF ShapeInv, LossesAreKnown
<1>3. TeamIsThere(r)
  BY <1>1 DEF ShapeInv, LossesAreKnown, TeamIsThere
<1>4. ~(at[r] = "link" /\ \A p \in projects : p.id # IdOf(project[r]))
  <2>1. SUFFICES ASSUME at[r] = "link"  PROVE \E p \in projects : p.id = IdOf(project[r])
    OBVIOUS
  <2>2. project[r] # {}
    BY <2>1 DEF ShapeInv, StagesAgree
  <2>3. \E p \in project[r] : p.id = IdOf(project[r])
    BY <2>2 DEF IdOf
  <2>. QED
    BY <1>1, <2>3 DEF ShapeInv, LossesAreKnown
<1>. QED
  BY <1>2, <1>3, <1>4, TwoFound DEF CannotResolve

\* The id of a single row.
LEMMA IdOfSingle ==
  ASSUME NEW S, Single(S), NEW x \in S  PROVE IdOf(S) = x.id
BY DEF Single, IdOf

\* What a tag may give.
LEMMA TagValues ==
  ASSUME ShapeInv, NEW r \in Requests
  PROVE  /\ tag[r].org \in Orgs /\ tag[r].team \in Names \cup Ids \cup {None}
         /\ tag[r].project \in Names \cup Ids \cup {None} /\ tag[r].dept \in Names \cup {None}
<1>1. tag[r] \in Tags
  BY DEF ShapeInv, AttributionShape
<1>2. tag[r] \in [org : Orgs, team : Names \cup Ids \cup {None},
                 project : Names \cup Ids \cup {None}, dept : Names \cup {None}]
  BY <1>1, AttributionAssumption
<1>. QED
  BY <1>2

\* A step takes a handler to a stage, with rows it has now, finds or creates.
Handles(r, to, T, P) ==
  /\ at' = [at EXCEPT ![r] = to]
  /\ to \in {"team", "new team", "move team", "project", "new project", "link", "dept",
             "new dept", "done", "failed"}
  /\ team' = [team EXCEPT ![r] = T] /\ project' = [project EXCEPT ![r] = P]
  /\ T = team[r] \/ (/\ T \in SUBSET teams' /\ Single(T)
                     /\ \A t \in T : t.org = tag[r].org /\
                          LET value == IF tag[r].team = None THEN tag[r].dept ELSE tag[r].team
                          IN  t.id = value \/ SameName(t, value))
  /\ P = project[r] \/ (/\ P \in SUBSET projects' /\ Single(P)
                        /\ \A p \in P : /\ p.org = tag[r].org
                                        /\ p.id = tag[r].project \/ SameName(p, tag[r].project))
  /\ tag' = tag /\ calm' \in BOOLEAN
  /\ to = "failed" => doubled \/ gone # {}
  /\ to \in {"team", "new team", "move team"} => tag[r].team # None
  /\ to = "move team" => tag[r].dept # None /\ T # {}
  /\ to = "new project" => tag[r].project # None
  /\ to = "link" => T # {} /\ P # {}
  /\ to = "new dept" => tag[r].dept # None /\ tag[r].team = None
  /\ to \notin {"new", "team", "new team", "failed"} /\ tag[r].team # None => T # {}
  /\ to \in {"team", "new team", "move team", "project"} => P = {}

\* A step leaves the tables sound, and takes no row of them but into gone.
TablesKeep ==
  /\ teams' \in SUBSET TeamRow /\ projects' \in SUBSET ProjectRow
  /\ IsFiniteSet(teams') /\ IsFiniteSet(projects')
  /\ \A a, b \in teams' : a.id = b.id => a = b
  /\ \A a, b \in projects' : a.id = b.id => a = b
  /\ charged' \in SUBSET Charge
  /\ \A p \in projects' \cup charged' : p.team = None \/ \E t \in teams' : t.id = p.team
  /\ gone' \in SUBSET Ids /\ gone \subseteq gone'
  /\ doubled' \in BOOLEAN /\ (doubled => doubled') /\ edits' \in Nat
  /\ NamedTwice(teams') \/ NamedTwice(projects') => doubled'
  /\ gone' = {} => /\ \A t \in teams : \E u \in teams' : u.id = t.id
                   /\ \A p \in projects : \E q \in projects' : q.id = p.id
                   /\ charged \subseteq charged'

LEMMA UntouchedTables ==
  ASSUME ShapeInv, UNCHANGED <<teams, projects, charged, gone, doubled, edits>>
  PROVE  TablesKeep
BY DEF ShapeInv, AttributionShape, RowsAreKeyed, ReferencesHold, LossesAreKnown, TablesKeep

\* A step of a handler that leaves the tables sound keeps the invariant.
LEMMA HandlingInv ==
  ASSUME ShapeInv, TablesKeep, NEW r \in Requests, NEW to, NEW newTeam, NEW newProject,
         Handles(r, to, newTeam, newProject)
  PROVE  ShapeInv'
<1>1. /\ at'[r] = to /\ team'[r] = newTeam /\ project'[r] = newProject
      /\ \A s \in Requests \ {r} : at'[s] = at[s] /\ team'[s] = team[s] /\ project'[s] = project[s]
      /\ tag' = tag
  BY DEF ShapeInv, AttributionShape, Handles
<1>2. newTeam \in SUBSET TeamRow /\ newProject \in SUBSET ProjectRow
  BY DEF ShapeInv, AttributionShape, Handles, TablesKeep
<1>3. Single(newTeam) /\ Single(newProject)
  BY DEF ShapeInv, RowsAreKeyed, Handles
<1>4. AttributionShape'
  BY <1>2 DEF ShapeInv, AttributionShape, Handles, TablesKeep
<1>5. RowsAreKeyed'
  BY <1>1, <1>3 DEF ShapeInv, RowsAreKeyed, TablesKeep
<1>6. ReferencesHold'
  BY DEF ReferencesHold, TablesKeep
<1>7. StagesAgree'
  <2>1. /\ to \in {"team", "new team", "move team"} => tag[r].team # None
        /\ to = "move team" => tag[r].dept # None /\ newTeam # {}
        /\ to = "new project" => tag[r].project # None
        /\ to = "link" => newTeam # {} /\ newProject # {}
        /\ to = "new dept" => tag[r].dept # None /\ tag[r].team = None
        /\ to \notin {"new", "team", "new team", "failed"} /\ tag[r].team # None => newTeam # {}
        /\ to \in {"team", "new team", "move team", "project"} => newProject = {}
        /\ to # "new"
    BY DEF Handles
  <2>. QED
    BY <1>1, <2>1 DEF ShapeInv, StagesAgree
<1>8. ChargedAsNamed'
  <2>1. ASSUME NEW s \in Requests, s # r
        PROVE  /\ \A t \in team'[s] : t.org = tag[s].org /\
                    LET value == IF tag[s].team = None THEN tag[s].dept ELSE tag[s].team
                    IN  t.id = value \/ SameName(t, value)
               /\ \A p \in project'[s] :
                    p.org = tag[s].org /\ (p.id = tag[s].project \/ SameName(p, tag[s].project))
    BY <1>1, <2>1 DEF ShapeInv, ChargedAsNamed
  <2>2. /\ \A t \in newTeam : t.org = tag[r].org /\
             LET value == IF tag[r].team = None THEN tag[r].dept ELSE tag[r].team
             IN  t.id = value \/ SameName(t, value)
        /\ \A p \in newProject :
             p.org = tag[r].org /\ (p.id = tag[r].project \/ SameName(p, tag[r].project))
    BY DEF ShapeInv, ChargedAsNamed, Handles
  <2>. QED
    BY <1>1, <2>1, <2>2 DEF ChargedAsNamed
<1>9. LossesAreKnown'
  <2>1. gone' = {} => /\ \A t \in newTeam : \E u \in teams' : u.id = t.id
                      /\ \A p \in newProject : \E q \in projects' : q.id = p.id
    <3>1. SUFFICES ASSUME gone' = {}
          PROVE  /\ \A t \in newTeam : \E u \in teams' : u.id = t.id
                 /\ \A p \in newProject : \E q \in projects' : q.id = p.id
      OBVIOUS
    <3>2. gone = {}
      BY <3>1 DEF TablesKeep
    <3>3. /\ \A t \in team[r] : \E u \in teams : u.id = t.id
          /\ \A p \in project[r] : \E q \in projects : q.id = p.id
      BY <3>2 DEF ShapeInv, LossesAreKnown
    <3>4. /\ \A t \in team[r] : \E u \in teams' : u.id = t.id
          /\ \A p \in project[r] : \E q \in projects' : q.id = p.id
      BY <3>1, <3>3 DEF TablesKeep
    <3>5. newTeam = team[r] \/ newTeam \in SUBSET teams'
      BY DEF Handles
    <3>6. newProject = project[r] \/ newProject \in SUBSET projects'
      BY DEF Handles
    <3>. QED
      BY <3>4, <3>5, <3>6
  <2>2. ASSUME gone' = {}, NEW s \in Requests \ {r}
        PROVE  /\ \A t \in team'[s] : \E u \in teams' : u.id = t.id
               /\ \A p \in project'[s] : \E q \in projects' : q.id = p.id
    BY <1>1, <2>2 DEF ShapeInv, LossesAreKnown, TablesKeep
  <2>3. ASSUME gone' = {}, NEW s \in Requests
        PROVE  /\ \A t \in team'[s] : \E u \in teams' : u.id = t.id
               /\ \A p \in project'[s] : \E q \in projects' : q.id = p.id
    BY <1>1, <2>1, <2>2, <2>3
  <2>4. NamedTwice(teams)' \/ NamedTwice(projects)' => doubled'
    BY DEF TablesKeep
  <2>. QED
    BY <2>3, <2>4 DEF LossesAreKnown
<1>10. LostOnlyIfDoubled'
  BY <1>1 DEF ShapeInv, LostOnlyIfDoubled, Handles, TablesKeep
<1>. QED
  BY <1>4, <1>5, <1>6, <1>7, <1>8, <1>9, <1>10 DEF ShapeInv

\* So does an edit, which handlers do not see at once.
LEMMA EditingInv ==
  ASSUME ShapeInv, TablesKeep, UNCHANGED <<at, tag, team, project, calm>>
  PROVE  ShapeInv'
<1>1. AttributionShape'
  BY DEF ShapeInv, AttributionShape, TablesKeep
<1>2. RowsAreKeyed' /\ ReferencesHold' /\ StagesAgree'
  BY DEF ShapeInv, RowsAreKeyed, ReferencesHold, StagesAgree, TablesKeep
<1>3. ChargedAsNamed'
  BY DEF ShapeInv, ChargedAsNamed
<1>4. LossesAreKnown'
  <2>1. ASSUME gone' = {}, NEW s \in Requests
        PROVE  /\ \A t \in team[s] : \E u \in teams' : u.id = t.id
               /\ \A p \in project[s] : \E q \in projects' : q.id = p.id
    BY <2>1 DEF ShapeInv, LossesAreKnown, TablesKeep
  <2>2. NamedTwice(teams)' \/ NamedTwice(projects)' => doubled'
    BY DEF TablesKeep
  <2>. QED
    BY <2>1, <2>2 DEF LossesAreKnown
<1>5. LostOnlyIfDoubled'
  BY DEF ShapeInv, LostOnlyIfDoubled, TablesKeep
<1>. QED
  BY <1>1, <1>2, <1>3, <1>4, <1>5 DEF ShapeInv

\* The steps of a request that only read.
LEMMA ComeShape ==
  ASSUME ShapeInv, NEW r \in Requests, Come(r)  PROVE ShapeInv'
<1>. DEFINE to == IF tag[r].team = None THEN "project" ELSE "team"
<1>1. /\ at' = [at EXCEPT ![r] = to] /\ to \in {"team", "project"}
      /\ to = "project" => tag[r].team = None
      /\ to = "team" => tag[r].team # None
      /\ UNCHANGED <<teams, projects, tag, team, project, charged, gone, doubled, edits>>
  BY DEF Come, Goto
<1>. HIDE DEF to
<1>2. project[r] = {}
  BY DEF Come, ShapeInv, StagesAgree
<1>3. calm' \in BOOLEAN
  BY DEF Come, ShapeInv, AttributionShape
<1>4. team' = [team EXCEPT ![r] = team[r]] /\ project' = [project EXCEPT ![r] = project[r]]
  BY <1>1 DEF ShapeInv, AttributionShape
<1>5. Handles(r, to, team[r], project[r])
  BY <1>1, <1>2, <1>3, <1>4 DEF Handles
<1>6. TablesKeep
  BY <1>1, UntouchedTables
<1>. QED
  BY <1>5, <1>6, HandlingInv

LEMMA FindTeamShape ==
  ASSUME ShapeInv, NEW r \in Requests, FindTeam(r)  PROVE ShapeInv'
<1>. DEFINE hits == Find(teams, tag[r].org, tag[r].team)
            to == IF hits = {} THEN "new team"
                  ELSE IF tag[r].dept # None /\ \A t \in hits : t.dept # tag[r].dept
                  THEN "move team" ELSE "project"
<1>1. /\ at' = [at EXCEPT ![r] = to] /\ at[r] = "team" /\ ~Several(hits)
      /\ team' = [team EXCEPT ![r] = hits]
      /\ UNCHANGED <<teams, projects, tag, project, charged, gone, doubled, edits, calm>>
  BY DEF FindTeam, Goto
<1>2. /\ hits \in SUBSET teams
      /\ \A t \in hits : t.org = tag[r].org /\ (t.id = tag[r].team \/ SameName(t, tag[r].team))
  BY DEF Find
<1>3. /\ to \in {"new team", "move team", "project"} /\ (to # "new team" => hits # {})
      /\ to = "move team" => tag[r].dept # None
  OBVIOUS
<1>. HIDE DEF to, hits
<1>4. Single(hits)
  <2>1. IsFiniteSet(hits)
    BY <1>2, FS_Subset DEF ShapeInv, RowsAreKeyed
  <2>. QED
    BY <1>1, <2>1, SeveralMeansTwo
<1>5. tag[r].team # None /\ project[r] = {}
  BY <1>1 DEF ShapeInv, StagesAgree
<1>6. project' = [project EXCEPT ![r] = project[r]] /\ calm' \in BOOLEAN
  BY <1>1 DEF ShapeInv, AttributionShape
<1>7. Handles(r, to, hits, project[r])
  BY <1>1, <1>2, <1>3, <1>4, <1>5, <1>6 DEF Handles
<1>8. TablesKeep
  BY <1>1, UntouchedTables
<1>. QED
  BY <1>7, <1>8, HandlingInv

LEMMA FindProjectShape ==
  ASSUME ShapeInv, NEW r \in Requests, FindProject(r) \/ NoProject(r)  PROVE ShapeInv'
<1>. DEFINE hits == Find(projects, tag[r].org, tag[r].project)
            to == IF hits = {} THEN "new project"
                  ELSE IF TakesProject(r, hits) THEN "link" ELSE "dept"
<1>1. /\ at[r] = "project"
      /\ UNCHANGED <<teams, projects, tag, team, charged, gone, doubled, edits, calm>>
  BY DEF FindProject, NoProject
<1>2. team' = [team EXCEPT ![r] = team[r]] /\ calm' \in BOOLEAN
  BY <1>1 DEF ShapeInv, AttributionShape
<1>3. tag[r].team # None => team[r] # {}
  BY <1>1 DEF ShapeInv, StagesAgree
<1>4. CASE FindProject(r)
  <2>1. /\ at' = [at EXCEPT ![r] = to] /\ ~Several(hits) /\ tag[r].project # None
        /\ project' = [project EXCEPT ![r] = hits]
    BY <1>4 DEF FindProject, Goto
  <2>2. /\ hits \in SUBSET projects
        /\ \A p \in hits :
             p.org = tag[r].org /\ (p.id = tag[r].project \/ SameName(p, tag[r].project))
    BY DEF Find
  <2>3. /\ to \in {"new project", "link", "dept"} /\ (to # "new project" => hits # {})
        /\ to = "link" => team[r] # {}
    BY DEF TakesProject
  <2>. HIDE DEF to, hits
  <2>4. Single(hits)
    <3>1. IsFiniteSet(hits)
      BY <2>2, FS_Subset DEF ShapeInv, RowsAreKeyed
    <3>. QED
      BY <2>1, <3>1, SeveralMeansTwo
  <2>5. Handles(r, to, team[r], hits)
    BY <1>1, <1>2, <1>3, <2>1, <2>2, <2>3, <2>4 DEF Handles
  <2>6. TablesKeep
    BY <1>1, UntouchedTables
  <2>. QED
    BY <2>5, <2>6, HandlingInv
<1>5. CASE NoProject(r)
  <2>1. at' = [at EXCEPT ![r] = "dept"] /\ project' = [project EXCEPT ![r] = project[r]]
    BY <1>5 DEF NoProject, Goto, ShapeInv, AttributionShape
  <2>2. Handles(r, "dept", team[r], project[r])
    BY <1>1, <1>2, <1>3, <2>1 DEF Handles
  <2>3. TablesKeep
    BY <1>1, UntouchedTables
  <2>. QED
    BY <2>2, <2>3, HandlingInv
<1>. QED
  BY <1>4, <1>5

LEMMA FindDeptShape ==
  ASSUME ShapeInv, NEW r \in Requests, FindDept(r) \/ Resolve(r)  PROVE ShapeInv'
<1>. DEFINE hits == {t \in teams : t.org = tag[r].org /\ SameName(t, tag[r].dept)}
            to == IF hits = {} THEN "new dept" ELSE "done"
<1>1. /\ at[r] = "dept"
      /\ UNCHANGED <<teams, projects, tag, project, charged, gone, doubled, edits, calm>>
  BY DEF FindDept, Resolve
<1>2. project' = [project EXCEPT ![r] = project[r]] /\ calm' \in BOOLEAN
  BY <1>1 DEF ShapeInv, AttributionShape
<1>3. tag[r].team # None => team[r] # {}
  BY <1>1 DEF ShapeInv, StagesAgree
<1>4. CASE FindDept(r)
  <2>1. /\ at' = [at EXCEPT ![r] = to] /\ ~Several(hits) /\ tag[r].dept # None
        /\ team' = [team EXCEPT ![r] = hits] /\ tag[r].team = None
    BY <1>3, <1>4 DEF FindDept, NeedsDept, Goto
  <2>2. /\ hits \in SUBSET teams
        /\ \A t \in hits : t.org = tag[r].org /\ SameName(t, tag[r].dept)
    OBVIOUS
  <2>3. to \in {"new dept", "done"}
    OBVIOUS
  <2>. HIDE DEF to, hits
  <2>4. Single(hits)
    <3>1. IsFiniteSet(hits)
      BY <2>2, FS_Subset DEF ShapeInv, RowsAreKeyed
    <3>. QED
      BY <2>1, <3>1, SeveralMeansTwo
  <2>5. Handles(r, to, hits, project[r])
    BY <1>1, <1>2, <2>1, <2>2, <2>3, <2>4 DEF Handles
  <2>6. TablesKeep
    BY <1>1, UntouchedTables
  <2>. QED
    BY <2>5, <2>6, HandlingInv
<1>5. CASE Resolve(r)
  <2>1. at' = [at EXCEPT ![r] = "done"] /\ team' = [team EXCEPT ![r] = team[r]]
    BY <1>5 DEF Resolve, Goto, ShapeInv, AttributionShape
  <2>2. Handles(r, "done", team[r], project[r])
    BY <1>1, <1>2, <1>3, <2>1 DEF Handles
  <2>3. TablesKeep
    BY <1>1, UntouchedTables
  <2>. QED
    BY <2>2, <2>3, HandlingInv
<1>. QED
  BY <1>4, <1>5

LEMMA CannotResolveShape ==
  ASSUME ShapeInv, NEW r \in Requests, CannotResolve(r)  PROVE ShapeInv'
<1>1. /\ at' = [at EXCEPT ![r] = "failed"]
      /\ UNCHANGED <<teams, projects, tag, team, project, charged, gone, doubled, edits, calm>>
  BY DEF CannotResolve, Fails, Goto
<1>2. /\ team' = [team EXCEPT ![r] = team[r]] /\ project' = [project EXCEPT ![r] = project[r]]
      /\ calm' \in BOOLEAN
  BY <1>1 DEF ShapeInv, AttributionShape
<1>3. doubled \/ gone # {}
  BY FailureExplained
<1>4. Handles(r, "failed", team[r], project[r])
  BY <1>1, <1>2, <1>3 DEF Handles
<1>5. TablesKeep
  BY <1>1, UntouchedTables
<1>. QED
  BY <1>4, <1>5, HandlingInv

\* The log: the rows it refers to are there unless one has been deleted.
LEMMA LogChargeShape ==
  ASSUME ShapeInv, NEW r \in Requests, LogCharge(r)  PROVE ShapeInv'
<1>. DEFINE new == [request |-> r, team |-> IdOf(team[r]), project |-> IdOf(project[r])]
            there == TeamIsThere(r) /\ \A p \in project[r] : \E q \in projects : q.id = p.id
<1>1. /\ at' = [at EXCEPT ![r] = "over"] /\ at[r] = "done"
      /\ charged' = IF there THEN charged \cup {new} ELSE charged
      /\ UNCHANGED <<teams, projects, tag, team, project, gone, doubled, edits, calm>>
  BY DEF LogCharge, Goto
<1>2. at'[r] = "over" /\ \A s \in Requests \ {r} : at'[s] = at[s]
  BY <1>1 DEF ShapeInv, AttributionShape
<1>3. new \in Charge /\ new.request = r /\ new.team = IdOf(team[r])
  <2>1. team[r] \in SUBSET TeamRow /\ project[r] \in SUBSET ProjectRow
    BY DEF ShapeInv, AttributionShape
  <2>2. IdOf(team[r]) \in TeamIds \cup {None}
    <3>1. CASE team[r] = {}
      BY <3>1 DEF IdOf
    <3>2. CASE team[r] # {}
      BY <2>1, <3>2 DEF IdOf, TeamRow
    <3>. QED
      BY <3>1, <3>2
  <2>3. IdOf(project[r]) \in ProjectIds \cup {None}
    <3>1. CASE project[r] = {}
      BY <3>1 DEF IdOf
    <3>2. CASE project[r] # {}
      BY <2>1, <3>2 DEF IdOf, ProjectRow
    <3>. QED
      BY <3>1, <3>2
  <2>. QED
    BY <2>2, <2>3 DEF Charge
<1>4. there => new.team = None \/ \E t \in teams : t.id = new.team
  <2>1. CASE team[r] = {}
    BY <1>3, <2>1 DEF IdOf
  <2>2. CASE team[r] # {}
    BY <1>3, <2>2 DEF IdOf, TeamIsThere
  <2>. QED
    BY <2>1, <2>2
<1>5. there \/ gone # {}
  BY DEF ShapeInv, LossesAreKnown, TeamIsThere
<1>. HIDE DEF new, there
<1>6. AttributionShape'
  <2>1. charged' \in SUBSET Charge
    BY <1>1, <1>3 DEF ShapeInv, AttributionShape
  <2>. QED
    BY <1>1, <2>1 DEF ShapeInv, AttributionShape
<1>7. RowsAreKeyed' /\ ChargedAsNamed' /\ LossesAreKnown'
  BY <1>1 DEF ShapeInv, RowsAreKeyed, ChargedAsNamed, LossesAreKnown, NamedTwice, SameName
<1>8. ReferencesHold'
  BY <1>1, <1>4 DEF ShapeInv, ReferencesHold
<1>9. StagesAgree'
  BY <1>1, <1>2 DEF ShapeInv, StagesAgree
<1>10. LostOnlyIfDoubled'
  BY <1>1, <1>2, <1>3, <1>5 DEF ShapeInv, LostOnlyIfDoubled
<1>. QED
  BY <1>6, <1>7, <1>8, <1>9, <1>10 DEF ShapeInv

\* The id of a new row is the id of no other.
LEMMA FreshId ==
  ASSUME NEW ids, NEW table, NEW id \in Fresh(ids, table)
  PROVE  id \in ids \ gone /\ \A row \in table : row.id # id
BY DEF Fresh

\* Creating a row, and changing one in place, leave the tables sound.
LEMMA CreatingTeam ==
  ASSUME ShapeInv, NEW row \in TeamRow, row.id \in Fresh(TeamIds, teams),
         teams' = teams \cup {row}, UNCHANGED <<projects, charged, gone>>, Remember, edits' \in Nat
  PROVE  TablesKeep
<1>1. \A t \in teams : t.id # row.id
  BY FreshId
<1>2. teams' \in SUBSET TeamRow /\ IsFiniteSet(teams')
  BY FS_AddElement DEF ShapeInv, AttributionShape, RowsAreKeyed
<1>3. \A a, b \in teams' : a.id = b.id => a = b
  BY <1>1 DEF ShapeInv, RowsAreKeyed
<1>4. doubled' \in BOOLEAN /\ (doubled => doubled')
  BY DEF Remember, ShapeInv, AttributionShape
<1>5. NamedTwice(teams') \/ NamedTwice(projects') => doubled'
  BY DEF Remember
<1>6. \A p \in projects' \cup charged' : p.team = None \/ \E t \in teams' : t.id = p.team
  BY DEF ShapeInv, ReferencesHold
<1>7. /\ projects' \in SUBSET ProjectRow /\ IsFiniteSet(projects') /\ charged' \in SUBSET Charge
      /\ gone' \in SUBSET Ids /\ \A a, b \in projects' : a.id = b.id => a = b
  BY DEF ShapeInv, AttributionShape, RowsAreKeyed
<1>. QED
  BY <1>2, <1>3, <1>4, <1>5, <1>6, <1>7 DEF TablesKeep

LEMMA ChangingTeam ==
  ASSUME ShapeInv, NEW old \in teams, NEW new \in TeamRow, new.id = old.id,
         teams' = (teams \ {old}) \cup {new}, UNCHANGED <<projects, charged, gone>>,
         doubled' \in BOOLEAN, doubled => doubled', NamedTwice(teams') => doubled', edits' \in Nat
  PROVE  TablesKeep
<1>1. teams' \in SUBSET TeamRow /\ IsFiniteSet(teams')
  <2>1. IsFiniteSet(teams \ {old})
    BY FS_Subset DEF ShapeInv, RowsAreKeyed
  <2>. QED
    BY <2>1, FS_AddElement DEF ShapeInv, AttributionShape
<1>2. \A a, b \in teams' : a.id = b.id => a = b
  BY DEF ShapeInv, RowsAreKeyed
<1>3. \A t \in teams : \E u \in teams' : u.id = t.id
  OBVIOUS
<1>4. \A p \in projects' \cup charged' : p.team = None \/ \E t \in teams' : t.id = p.team
  BY <1>3 DEF ShapeInv, ReferencesHold
<1>5. NamedTwice(projects') => doubled'
  BY DEF ShapeInv, LossesAreKnown, NamedTwice
<1>6. /\ projects' \in SUBSET ProjectRow /\ IsFiniteSet(projects') /\ charged' \in SUBSET Charge
      /\ gone' \in SUBSET Ids /\ \A a, b \in projects' : a.id = b.id => a = b
  BY DEF ShapeInv, AttributionShape, RowsAreKeyed
<1>. QED
  BY <1>1, <1>2, <1>3, <1>4, <1>5, <1>6 DEF TablesKeep

LEMMA CreatingProject ==
  ASSUME ShapeInv, NEW row \in ProjectRow, row.id \in Fresh(ProjectIds, projects),
         row.team = None \/ (\E t \in teams : t.id = row.team),
         projects' = projects \cup {row}, UNCHANGED <<teams, charged, gone>>, Remember,
         edits' \in Nat
  PROVE  TablesKeep
<1>1. \A p \in projects : p.id # row.id
  BY FreshId
<1>2. projects' \in SUBSET ProjectRow /\ IsFiniteSet(projects')
  BY FS_AddElement DEF ShapeInv, AttributionShape, RowsAreKeyed
<1>3. \A a, b \in projects' : a.id = b.id => a = b
  BY <1>1 DEF ShapeInv, RowsAreKeyed
<1>4. doubled' \in BOOLEAN /\ (doubled => doubled')
  BY DEF Remember, ShapeInv, AttributionShape
<1>5. NamedTwice(teams') \/ NamedTwice(projects') => doubled'
  BY DEF Remember
<1>6. \A p \in projects' \cup charged' : p.team = None \/ \E t \in teams' : t.id = p.team
  BY DEF ShapeInv, ReferencesHold
<1>7. /\ teams' \in SUBSET TeamRow /\ IsFiniteSet(teams') /\ charged' \in SUBSET Charge
      /\ gone' \in SUBSET Ids /\ \A a, b \in teams' : a.id = b.id => a = b
  BY DEF ShapeInv, AttributionShape, RowsAreKeyed
<1>. QED
  BY <1>2, <1>3, <1>4, <1>5, <1>6, <1>7 DEF TablesKeep

LEMMA ChangingProject ==
  ASSUME ShapeInv, NEW old \in projects, NEW new \in ProjectRow, new.id = old.id,
         new.team = None \/ (\E t \in teams : t.id = new.team),
         projects' = (projects \ {old}) \cup {new}, UNCHANGED <<teams, charged, gone>>,
         doubled' \in BOOLEAN, doubled => doubled', NamedTwice(projects') => doubled', edits' \in Nat
  PROVE  TablesKeep
<1>1. projects' \in SUBSET ProjectRow /\ IsFiniteSet(projects')
  <2>1. IsFiniteSet(projects \ {old})
    BY FS_Subset DEF ShapeInv, RowsAreKeyed
  <2>. QED
    BY <2>1, FS_AddElement DEF ShapeInv, AttributionShape
<1>2. \A a, b \in projects' : a.id = b.id => a = b
  BY DEF ShapeInv, RowsAreKeyed
<1>3. \A p \in projects : \E q \in projects' : q.id = p.id
  OBVIOUS
<1>4. \A p \in projects' \cup charged' : p.team = None \/ \E t \in teams' : t.id = p.team
  BY DEF ShapeInv, ReferencesHold
<1>5. NamedTwice(teams') => doubled'
  BY DEF ShapeInv, LossesAreKnown, NamedTwice
<1>6. /\ teams' \in SUBSET TeamRow /\ IsFiniteSet(teams') /\ charged' \in SUBSET Charge
      /\ gone' \in SUBSET Ids /\ \A a, b \in teams' : a.id = b.id => a = b
  BY DEF ShapeInv, AttributionShape, RowsAreKeyed
<1>. QED
  BY <1>1, <1>2, <1>3, <1>4, <1>5, <1>6 DEF TablesKeep

\* A row that keeps its organisation and its name doubles no name.
LEMMA SameNames ==
  ASSUME NEW table, NEW old \in table, NEW new, new.id = old.id, new.org = old.org, new.name = old.name,
         \A a, b \in table : a.id = b.id => a = b, NamedTwice((table \ {old}) \cup {new})
  PROVE  NamedTwice(table)
<1>1. PICK a, b \in (table \ {old}) \cup {new} : a # b /\ a.org = b.org /\ Folded(a.name) = Folded(b.name)
  BY DEF NamedTwice
<1>2. CASE a = new
  BY <1>1, <1>2 DEF NamedTwice
<1>3. CASE b = new
  BY <1>1, <1>3 DEF NamedTwice
<1>4. CASE a # new /\ b # new
  BY <1>1, <1>4 DEF NamedTwice
<1>. QED
  BY <1>2, <1>3, <1>4

\* The steps that write: a team for a name or a department that has none.
LEMMA CreateTeamShape ==
  ASSUME ShapeInv, NEW r \in Requests, NEW name \in Names \cup Ids, NEW dept \in Names \cup {None},
         NEW to \in {"project", "done"}, CreateTeam(r, name, dept, to),
         name = IF tag[r].team = None THEN tag[r].dept ELSE tag[r].team,
         to = "project" => project[r] = {}
  PROVE  ShapeInv'
<1>1. PICK id \in Fresh(TeamIds, teams) :
        LET row == [id |-> id, org |-> tag[r].org, name |-> name, dept |-> dept]
        IN  /\ teams' = teams \cup {row} /\ at' = [at EXCEPT ![r] = to]
            /\ team' = [team EXCEPT ![r] = {row}]
            /\ UNCHANGED <<projects, tag, project, closed, charged, gone, calm, edits>>
            /\ Remember
  BY DEF CreateTeam, Goto
<1>. DEFINE row == [id |-> id, org |-> tag[r].org, name |-> name, dept |-> dept]
<1>2. row \in TeamRow /\ row.id = id /\ row.org = tag[r].org /\ row.name = name
  BY FreshId, TagValues DEF TeamRow
<1>3. teams' = teams \cup {row} /\ team' = [team EXCEPT ![r] = {row}]
  BY <1>1
<1>. HIDE DEF row
<1>4. edits' \in Nat /\ calm' \in BOOLEAN /\ project' = [project EXCEPT ![r] = project[r]]
  BY <1>1 DEF ShapeInv, AttributionShape
<1>5. TablesKeep
  BY <1>1, <1>2, <1>3, <1>4, CreatingTeam
<1>6. SameName(row, name) /\ Single({row})
  BY <1>2 DEF SameName, Single
<1>7. Handles(r, to, {row}, project[r])
  BY <1>1, <1>2, <1>3, <1>4, <1>6 DEF Handles
<1>. QED
  BY <1>5, <1>7, HandlingInv

LEMMA AddTeamShape ==
  ASSUME ShapeInv, NEW r \in Requests, AddTeam(r) \/ AddDept(r)  PROVE ShapeInv'
<1>1. CASE AddTeam(r)
  <2>1. tag[r].team # None /\ project[r] = {}
    BY <1>1 DEF AddTeam, ShapeInv, StagesAgree
  <2>2. tag[r].team \in Names \cup Ids /\ tag[r].dept \in Names \cup {None}
    BY <2>1, TagValues
  <2>3. CreateTeam(r, tag[r].team, tag[r].dept, "project")
    BY <1>1 DEF AddTeam
  <2>. QED
    BY <2>1, <2>2, <2>3, CreateTeamShape
<1>2. CASE AddDept(r)
  <2>1. tag[r].team = None /\ tag[r].dept # None
    BY <1>2 DEF AddDept, ShapeInv, StagesAgree
  <2>2. tag[r].dept \in Names
    BY <2>1, TagValues
  <2>3. CreateTeam(r, tag[r].dept, tag[r].dept, "done")
    BY <1>2 DEF AddDept
  <2>. QED
    BY <2>1, <2>2, <2>3, CreateTeamShape
<1>. QED
  BY <1>1, <1>2

LEMMA MoveTeamShape ==
  ASSUME ShapeInv, NEW r \in Requests, MoveTeam(r)  PROVE ShapeInv'
<1>. DEFINE read == CHOOSE t \in team[r] : TRUE
            row == CHOOSE t \in teams : t.id = read.id
            new == [row EXCEPT !.dept = tag[r].dept]
<1>1. /\ at[r] = "move team" /\ \E t \in teams : t.id = read.id
      /\ teams' = (teams \ {row}) \cup {new} /\ at' = [at EXCEPT ![r] = "project"]
      /\ UNCHANGED <<projects, tag, team, project, charged, gone, doubled, calm, edits>>
  BY DEF MoveTeam, Goto
<1>2. row \in teams
  BY <1>1
<1>3. tag[r].dept \in Names \cup {None} /\ row \in TeamRow
  BY <1>2, TagValues DEF ShapeInv, AttributionShape
<1>4. new \in TeamRow /\ new.id = row.id /\ new.org = row.org /\ new.name = row.name
  BY <1>3 DEF TeamRow
<1>. HIDE DEF new, row, read
<1>5. NamedTwice(teams') => doubled'
  <2>1. \A a, b \in teams : a.id = b.id => a = b
    BY DEF ShapeInv, RowsAreKeyed
  <2>2. NamedTwice((teams \ {row}) \cup {new}) => NamedTwice(teams)
    BY <1>2, <1>4, <2>1, SameNames
  <2>. QED
    BY <1>1, <2>2 DEF ShapeInv, LossesAreKnown
<1>6. edits' \in Nat /\ doubled' \in BOOLEAN
  BY <1>1 DEF ShapeInv, AttributionShape
<1>7. TablesKeep
  BY <1>1, <1>2, <1>4, <1>5, <1>6, ChangingTeam
<1>8. /\ team' = [team EXCEPT ![r] = team[r]] /\ project' = [project EXCEPT ![r] = project[r]]
      /\ calm' \in BOOLEAN
  BY <1>1 DEF ShapeInv, AttributionShape
<1>9. team[r] # {} /\ project[r] = {}
  BY <1>1 DEF ShapeInv, StagesAgree
<1>10. Handles(r, "project", team[r], project[r])
  BY <1>1, <1>8, <1>9 DEF Handles
<1>. QED
  BY <1>7, <1>10, HandlingInv

LEMMA IdOfTeam ==
  ASSUME ShapeInv, NEW r \in Requests, TeamIsThere(r)
  PROVE  /\ IdOf(team[r]) \in TeamIds \cup {None}
         /\ IdOf(team[r]) = None \/ \E t \in teams : t.id = IdOf(team[r])
<1>1. CASE team[r] = {}
  BY <1>1 DEF IdOf
<1>2. CASE team[r] # {}
  <2>1. PICK t \in team[r] : IdOf(team[r]) = t.id
    BY <1>2 DEF IdOf
  <2>2. t \in TeamRow
    BY <2>1 DEF ShapeInv, AttributionShape
  <2>. QED
    BY <2>1, <2>2 DEF TeamIsThere, TeamRow
<1>. QED
  BY <1>1, <1>2

LEMMA AddProjectShape ==
  ASSUME ShapeInv, NEW r \in Requests, AddProject(r)  PROVE ShapeInv'
<1>1. PICK id \in Fresh(ProjectIds, projects) :
        LET row == [id |-> id, org |-> tag[r].org, name |-> tag[r].project,
                    team |-> IdOf(team[r]), active |-> TRUE]
        IN  /\ at[r] = "new project" /\ TeamIsThere(r)
            /\ projects' = projects \cup {row} /\ at' = [at EXCEPT ![r] = "dept"]
            /\ project' = [project EXCEPT ![r] = {row}]
            /\ UNCHANGED <<teams, tag, team, closed, charged, gone, calm, edits>>
            /\ Remember
  BY DEF AddProject, Goto
<1>. DEFINE row == [id |-> id, org |-> tag[r].org, name |-> tag[r].project,
                    team |-> IdOf(team[r]), active |-> TRUE]
<1>2. tag[r].project # None /\ (tag[r].team # None => team[r] # {})
  BY <1>1 DEF ShapeInv, StagesAgree
<1>3. /\ row \in ProjectRow /\ row.id = id /\ row.org = tag[r].org /\ row.name = tag[r].project
      /\ row.team = IdOf(team[r])
  BY <1>1, <1>2, FreshId, TagValues, IdOfTeam DEF ProjectRow
<1>4. projects' = projects \cup {row} /\ project' = [project EXCEPT ![r] = {row}]
  BY <1>1
<1>. HIDE DEF row
<1>5. edits' \in Nat /\ calm' \in BOOLEAN /\ team' = [team EXCEPT ![r] = team[r]]
  BY <1>1 DEF ShapeInv, AttributionShape
<1>6. TablesKeep
  <2>1. row.team = None \/ \E t \in teams : t.id = row.team
    BY <1>1, <1>3, IdOfTeam
  <2>. QED
    BY <1>1, <1>3, <1>4, <1>5, <2>1, CreatingProject
<1>7. SameName(row, tag[r].project) /\ Single({row})
  BY <1>3 DEF SameName, Single
<1>8. Handles(r, "dept", team[r], {row})
  BY <1>1, <1>2, <1>3, <1>4, <1>5, <1>7 DEF Handles
<1>. QED
  BY <1>6, <1>8, HandlingInv

LEMMA LinkProjectShape ==
  ASSUME ShapeInv, NEW r \in Requests, LinkProject(r)  PROVE ShapeInv'
<1>1. PICK row \in projects :
        /\ at[r] = "link" /\ row.id = IdOf(project[r]) /\ TeamIsThere(r)
        /\ projects' = (projects \ {row}) \cup {[row EXCEPT !.team = IdOf(team[r])]}
        /\ at' = [at EXCEPT ![r] = "dept"]
        /\ UNCHANGED <<teams, tag, team, project, closed, charged, gone, doubled, calm, edits>>
  BY DEF LinkProject, Goto
<1>. DEFINE new == [row EXCEPT !.team = IdOf(team[r])]
<1>2. row \in ProjectRow
  BY DEF ShapeInv, AttributionShape
<1>3. /\ new \in ProjectRow /\ new.id = row.id /\ new.org = row.org /\ new.name = row.name
      /\ new.team = IdOf(team[r])
  BY <1>1, <1>2, IdOfTeam DEF ProjectRow
<1>4. projects' = (projects \ {row}) \cup {new}
  BY <1>1
<1>. HIDE DEF new
<1>5. NamedTwice(projects') => doubled'
  <2>1. \A a, b \in projects : a.id = b.id => a = b
    BY DEF ShapeInv, RowsAreKeyed
  <2>2. NamedTwice((projects \ {row}) \cup {new}) => NamedTwice(projects)
    BY <1>3, <2>1, SameNames
  <2>. QED
    BY <1>1, <1>4, <2>2 DEF ShapeInv, LossesAreKnown
<1>6. edits' \in Nat /\ doubled' \in BOOLEAN
  BY <1>1 DEF ShapeInv, AttributionShape
<1>7. TablesKeep
  <2>1. new.team = None \/ \E t \in teams : t.id = new.team
    BY <1>1, <1>3, IdOfTeam
  <2>. QED
    BY <1>1, <1>3, <1>4, <1>5, <1>6, <2>1, ChangingProject
<1>8. /\ team' = [team EXCEPT ![r] = team[r]] /\ project' = [project EXCEPT ![r] = project[r]]
      /\ calm' \in BOOLEAN
  BY <1>1 DEF ShapeInv, AttributionShape
<1>9. team[r] # {}
  BY <1>1 DEF ShapeInv, StagesAgree
<1>10. Handles(r, "dept", team[r], project[r])
  BY <1>1, <1>8, <1>9 DEF Handles
<1>. QED
  BY <1>7, <1>10, HandlingInv

\* The edits of administrators.
LEMMA EditedIdentity ==
  ASSUME ShapeInv, NEW e \in TeamEdits
  PROVE  e.org \in Orgs /\ e.name \in Names
BY AttributionAssumption

LEMMA InterfereTypes ==
  ASSUME ShapeInv, Interfere
  PROVE  /\ edits' \in Nat /\ doubled' \in BOOLEAN /\ (doubled => doubled')
         /\ NamedTwice(teams') \/ NamedTwice(projects') => doubled'
         /\ UNCHANGED <<at, tag, team, project, calm>> /\ Remember
<1>1. edits' \in Nat /\ UNCHANGED <<at, tag, team, project, calm>> /\ Remember
  <2>1. Remember
    BY Zenon DEF Interfere
  <2>2. edits' = edits + 1 /\ UNCHANGED <<at, tag, team, project, calm>>
    BY DEF Interfere
  <2>3. edits \in Nat
    BY DEF ShapeInv, AttributionShape
  <2>. QED
    BY <2>1, <2>2, <2>3
<1>2. doubled' \in BOOLEAN /\ (doubled => doubled')
  BY <1>1 DEF Remember, ShapeInv, AttributionShape
<1>3. NamedTwice(teams') \/ NamedTwice(projects') => doubled'
  BY <1>1 DEF Remember
<1>. QED
  BY <1>1, <1>2, <1>3

LEMMA TeamEditsShape ==
  ASSUME ShapeInv, CreateTeamByHand \/ UpdateTeam  PROVE ShapeInv'
<1>1. CASE CreateTeamByHand
  <2>1. PICK e \in TeamEdits, id \in Fresh(TeamIds, teams) :
          /\ teams' = teams \cup {[id |-> id, org |-> e.org, name |-> e.name, dept |-> None]}
          /\ UNCHANGED <<projects, charged, gone>> /\ Interfere
    BY <1>1 DEF CreateTeamByHand
  <2>. DEFINE row == [id |-> id, org |-> e.org, name |-> e.name, dept |-> None]
  <2>2. row \in TeamRow /\ row.id = id /\ teams' = teams \cup {row}
    BY <2>1, FreshId, EditedIdentity DEF TeamRow
  <2>. HIDE DEF row
  <2>3. TablesKeep
    BY <2>1, <2>2, InterfereTypes, CreatingTeam
  <2>. QED
    BY <2>1, <2>3, InterfereTypes, EditingInv
<1>2. CASE UpdateTeam
  <2>1. PICK e \in TeamEdits, row \in teams :
          \E new \in {[row EXCEPT !.name = e.name], [row EXCEPT !.dept = e.name]} \ {row} :
            /\ teams' = (teams \ {row}) \cup {new}
            /\ UNCHANGED <<projects, charged, gone>> /\ Interfere
    BY <1>2 DEF UpdateTeam
  <2>2. PICK new \in {[row EXCEPT !.name = e.name], [row EXCEPT !.dept = e.name]} :
            /\ teams' = (teams \ {row}) \cup {new}
            /\ UNCHANGED <<projects, charged, gone>> /\ Interfere
    BY <2>1
  <2>3. row \in TeamRow
    BY DEF ShapeInv, AttributionShape
  <2>4. new \in TeamRow /\ new.id = row.id
    BY <2>3, EditedIdentity DEF TeamRow
  <2>5. TablesKeep
    BY <2>2, <2>4, InterfereTypes, ChangingTeam
  <2>. QED
    BY <2>2, <2>5, InterfereTypes, EditingInv
<1>. QED
  BY <1>1, <1>2

LEMMA ProjectEditsShape ==
  ASSUME ShapeInv, CreateProjectByHand \/ UpdateProject \/ CloseProject  PROVE ShapeInv'
<1>1. CASE CreateProjectByHand
  <2>1. PICK e \in TeamEdits, id \in Fresh(ProjectIds, projects),
             parent \in {None} \cup {t.id : t \in teams} :
          /\ projects' = projects \cup {[id |-> id, org |-> e.org, name |-> e.name,
                                         team |-> parent, active |-> TRUE]}
          /\ UNCHANGED <<teams, charged, gone>> /\ Interfere
    BY <1>1 DEF CreateProjectByHand
  <2>. DEFINE row == [id |-> id, org |-> e.org, name |-> e.name, team |-> parent, active |-> TRUE]
  <2>2. parent = None \/ \E t \in teams : t.id = parent
    OBVIOUS
  <2>3. parent \in TeamIds \cup {None}
    BY <2>2 DEF ShapeInv, AttributionShape, TeamRow
  <2>4. row \in ProjectRow /\ row.id = id /\ row.team = parent /\ projects' = projects \cup {row}
    BY <2>1, <2>3, FreshId, EditedIdentity DEF ProjectRow
  <2>. HIDE DEF row
  <2>5. TablesKeep
    BY <2>1, <2>2, <2>4, InterfereTypes, CreatingProject
  <2>. QED
    BY <2>1, <2>5, InterfereTypes, EditingInv
<1>2. CASE UpdateProject
  <2>1. PICK row \in projects, e \in TeamEdits :
          \E new \in {[row EXCEPT !.name = e.name], [row EXCEPT !.active = ~@]}
                    \cup {[row EXCEPT !.team = t.id] : t \in {u \in teams : u.org = row.org}} :
            /\ projects' = (projects \ {row}) \cup {new}
            /\ UNCHANGED <<teams, charged, gone>> /\ Interfere
    BY <1>2 DEF UpdateProject
  <2>2. PICK new \in {[row EXCEPT !.name = e.name], [row EXCEPT !.active = ~@]}
                    \cup {[row EXCEPT !.team = t.id] : t \in {u \in teams : u.org = row.org}} :
            /\ projects' = (projects \ {row}) \cup {new}
            /\ UNCHANGED <<teams, charged, gone>> /\ Interfere
    BY <2>1
  <2>3. row \in ProjectRow /\ (row.team = None \/ \E t \in teams : t.id = row.team)
    BY DEF ShapeInv, AttributionShape, ReferencesHold
  <2>4. /\ new \in ProjectRow /\ new.id = row.id
        /\ new.team = None \/ \E t \in teams : t.id = new.team
    <3>1. CASE new = [row EXCEPT !.name = e.name]
      BY <2>3, <3>1, EditedIdentity DEF ProjectRow
    <3>2. CASE new = [row EXCEPT !.active = ~@]
      BY <2>3, <3>2 DEF ProjectRow
    <3>3. ASSUME NEW t \in teams, new = [row EXCEPT !.team = t.id]
          PROVE  /\ new \in ProjectRow /\ new.id = row.id
                 /\ new.team = None \/ \E u \in teams : u.id = new.team
      <4>1. t.id \in TeamIds
        BY DEF ShapeInv, AttributionShape, TeamRow
      <4>. QED
        BY <2>3, <3>3, <4>1 DEF ProjectRow
    <3>. QED
      BY <3>1, <3>2, <3>3
  <2>5. TablesKeep
    BY <2>2, <2>4, InterfereTypes, ChangingProject
  <2>. QED
    BY <2>2, <2>5, InterfereTypes, EditingInv
<1>3. CASE CloseProject
  <2>1. PICK row \in projects :
          /\ projects' = (projects \ {row}) \cup {[row EXCEPT !.active = FALSE]}
          /\ UNCHANGED <<teams, charged, gone>> /\ Interfere
    BY <1>3 DEF CloseProject
  <2>. DEFINE new == [row EXCEPT !.active = FALSE]
  <2>2. row \in ProjectRow /\ (row.team = None \/ \E t \in teams : t.id = row.team)
    BY DEF ShapeInv, AttributionShape, ReferencesHold
  <2>3. new \in ProjectRow /\ new.id = row.id /\ new.team = row.team
    BY <2>2 DEF ProjectRow
  <2>4. projects' = (projects \ {row}) \cup {new}
    BY <2>1
  <2>. HIDE DEF new
  <2>5. TablesKeep
    BY <2>1, <2>2, <2>3, <2>4, InterfereTypes, ChangingProject
  <2>. QED
    BY <2>1, <2>5, InterfereTypes, EditingInv
<1>. QED
  BY <1>1, <1>2, <1>3

\* A team goes with its projects, and the log forgets them.
LEMMA DeleteTeamShape ==
  ASSUME ShapeInv, DeleteTeam  PROVE ShapeInv'
<1>1. PICK row \in teams :
        LET lost == {p.id : p \in {q \in projects : q.team = row.id}}
        IN  /\ teams' = teams \ {row}
            /\ projects' = {p \in projects : p.id \notin lost}
            /\ charged' = {IF c.project \in lost THEN [c EXCEPT !.project = None] ELSE c :
                             c \in KeptRows(row.id)}
            /\ gone' = gone \cup {row.id} \cup lost
            /\ edits < MaxEdits /\ edits' = edits + 1
            /\ UNCHANGED <<at, tag, team, project, closed, doubled, calm>>
  BY Zenon DEF DeleteTeam
<1>. DEFINE lost == {p.id : p \in {q \in projects : q.team = row.id}}
<1>2. row \in TeamRow /\ lost \subseteq Ids
  <2>1. row \in TeamRow /\ \A p \in projects : p \in ProjectRow
    BY DEF ShapeInv, AttributionShape
  <2>2. \A p \in projects : p.id \in Ids
    BY <2>1 DEF ProjectRow, Ids
  <2>. QED
    BY <2>1, <2>2
<1>3. \A p \in projects : p.team = row.id => p.id \in lost
  OBVIOUS
<1>4. /\ teams' = teams \ {row} /\ projects' = {p \in projects : p.id \notin lost}
      /\ charged' = {IF c.project \in lost THEN [c EXCEPT !.project = None] ELSE c :
                       c \in KeptRows(row.id)}
      /\ gone' = gone \cup {row.id} \cup lost /\ edits' = edits + 1
      /\ UNCHANGED <<at, tag, team, project, doubled, calm>>
  BY <1>1
<1>. HIDE DEF lost
<1>5. \A c \in KeptRows(row.id) : c \in Charge /\ c.team # row.id /\
        (c.team = None \/ \E t \in teams : t.id = c.team)
  <2>1. ASSUME NEW d \in charged
        PROVE  LET c == Forget(d, row.id)
               IN  c \in Charge /\ c.team # row.id /\ (c.team = None \/ \E t \in teams : t.id = c.team)
    <3>1. d \in Charge /\ (d.team = None \/ \E t \in teams : t.id = d.team)
      BY DEF ShapeInv, AttributionShape, ReferencesHold
    <3>2. row.id # None
      BY <1>2, AttributionAssumption DEF TeamRow, Ids
    <3>3. [d EXCEPT !.team = None] \in Charge /\ [d EXCEPT !.team = None].team = None
      BY <3>1 DEF Charge
    <3>. QED
      BY <3>1, <3>2, <3>3 DEF Forget
  <2>. QED
    BY <2>1 DEF KeptRows
<1>6. \A c \in charged' : c \in Charge /\ c.team # row.id /\
        (c.team = None \/ \E t \in teams : t.id = c.team)
  <2>1. ASSUME NEW c \in Charge, c.team # row.id, c.team = None \/ \E t \in teams : t.id = c.team
        PROVE  LET d == IF c.project \in lost THEN [c EXCEPT !.project = None] ELSE c
               IN  d \in Charge /\ d.team # row.id /\ (d.team = None \/ \E t \in teams : t.id = d.team)
    <3>1. [c EXCEPT !.project = None] \in Charge /\ [c EXCEPT !.project = None].team = c.team
      BY DEF Charge
    <3>. QED
      BY <2>1, <3>1
  <2>. QED
    BY <1>4, <1>5, <2>1
<1>7. \A p \in projects' : p.team # row.id /\ (p.team = None \/ \E t \in teams : t.id = p.team)
  BY <1>3, <1>4 DEF ShapeInv, ReferencesHold
<1>8. \A p \in projects' \cup charged' : p.team = None \/ \E t \in teams' : t.id = p.team
  BY <1>4, <1>6, <1>7
<1>9. /\ teams' \in SUBSET TeamRow /\ projects' \in SUBSET ProjectRow
      /\ IsFiniteSet(teams') /\ IsFiniteSet(projects')
      /\ \A a, b \in teams' : a.id = b.id => a = b
      /\ \A a, b \in projects' : a.id = b.id => a = b
  BY <1>4, FS_Subset DEF ShapeInv, AttributionShape, RowsAreKeyed
<1>10. /\ gone' \in SUBSET Ids /\ gone \subseteq gone' /\ gone' # {}
       /\ doubled' \in BOOLEAN /\ (doubled => doubled') /\ edits' \in Nat
  <2>1. gone \in SUBSET Ids /\ doubled \in BOOLEAN /\ edits \in Nat
    BY DEF ShapeInv, AttributionShape
  <2>2. row.id \in Ids
    BY <1>2 DEF TeamRow, Ids
  <2>3. doubled' = doubled
    BY <1>4
  <2>. QED
    BY <1>2, <1>4, <2>1, <2>2, <2>3
<1>11. NamedTwice(teams') \/ NamedTwice(projects') => doubled'
  BY <1>4 DEF ShapeInv, LossesAreKnown, NamedTwice
<1>12. TablesKeep
  BY <1>6, <1>8, <1>9, <1>10, <1>11 DEF TablesKeep
<1>. QED
  BY <1>4, <1>12, EditingInv
-----------------------------------------------------------------------------
AttributionSpec == AttributionInit /\ [][AttributionNext]_attributionVars

LEMMA ShapeInvariant == AttributionSpec => []ShapeInv
<1>1. AttributionInit => ShapeInv
  <2>1. SUFFICES ASSUME AttributionInit  PROVE ShapeInv
    OBVIOUS
  <2>2. AttributionShape
    BY <2>1 DEF AttributionInit, AttributionShape
  <2>3. RowsAreKeyed /\ ReferencesHold
    BY <2>1, FS_EmptySet DEF AttributionInit, RowsAreKeyed, ReferencesHold, Single
  <2>4. StagesAgree /\ ChargedAsNamed /\ LossesAreKnown /\ LostOnlyIfDoubled
    BY <2>1 DEF AttributionInit, StagesAgree, ChargedAsNamed, LossesAreKnown, LostOnlyIfDoubled,
                NamedTwice
  <2>. QED
    BY <2>2, <2>3, <2>4 DEF ShapeInv
<1>2. ShapeInv /\ [AttributionNext]_attributionVars => ShapeInv'
  <2>1. SUFFICES ASSUME ShapeInv, [AttributionNext]_attributionVars  PROVE ShapeInv'
    OBVIOUS
  <2>2. ASSUME NEW r \in Requests, Resolving(r)  PROVE ShapeInv'
    BY <2>1, <2>2, ComeShape, FindTeamShape, AddTeamShape, MoveTeamShape, FindProjectShape,
       AddProjectShape, LinkProjectShape, FindDeptShape, CannotResolveShape, LogChargeShape
    DEF Resolving
  <2>3. CASE Editing
    BY <2>1, <2>3, TeamEditsShape, ProjectEditsShape, DeleteTeamShape DEF Editing
  <2>4. CASE UNCHANGED attributionVars
    <3>1. TablesKeep /\ UNCHANGED <<at, tag, team, project, calm>>
      BY <2>1, <2>4, UntouchedTables DEF attributionVars
    <3>. QED
      BY <2>1, <3>1, EditingInv
  <2>. QED
    BY <2>1, <2>2, <2>3, <2>4 DEF AttributionNext
<1>. QED
  BY <1>1, <1>2, PTL DEF AttributionSpec
-----------------------------------------------------------------------------
\* A row of another name, or of another organisation, doubles no name.
LEMMA OneMore ==
  ASSUME NEW table, NEW row, ~NamedTwice(table),
         \A x \in table : ~(x.org = row.org /\ Folded(x.name) = Folded(row.name))
  PROVE  ~NamedTwice(table \cup {row})
<1>1. SUFFICES ASSUME NEW a \in table \cup {row}, NEW b \in table \cup {row}, a # b,
                      a.org = b.org, Folded(a.name) = Folded(b.name)
               PROVE  FALSE
  BY DEF NamedTwice
<1>2. CASE a \in table /\ b \in table
  BY <1>1, <1>2 DEF NamedTwice
<1>3. CASE a = row /\ b \in table
  BY <1>1, <1>3
<1>4. CASE b = row /\ a \in table
  BY <1>1, <1>4
<1>. QED
  BY <1>1, <1>2, <1>3, <1>4

\* No row has the id None.
LEMMA NoneIsNoId ==
  ASSUME ShapeInv
  PROVE  (\A t \in teams : t.id # None) /\ (\A p \in projects : p.id # None)
<1>1. (\A t \in teams : t.id \in TeamIds) /\ (\A p \in projects : p.id \in ProjectIds)
  BY DEF ShapeInv, AttributionShape, TeamRow, ProjectRow
<1>. QED
  BY <1>1, AttributionAssumption DEF Ids

\* What a step of a handler keeps of the charges while it is the only one.
Charges(r) == Serves(r)' /\ OneRowPerName'

NamesOnly == \A r \in Requests : {tag[r].team, tag[r].project} \cap Ids = {}

\* A step that leaves the tables doubles no name.
LEMMA TablesAsTheyWere ==
  ASSUME OneRowPerName, Deserted, UNCHANGED <<teams, projects, tag>>  PROVE OneRowPerName'
BY DEF OneRowPerName, Deserted, NamedTwice

LEMMA ReadingCharges ==
  ASSUME ShapeInv, ChargeInv, Deserted, NEW r \in Requests,
         Come(r) \/ FindTeam(r) \/ NoProject(r) \/ FindDept(r) \/ Resolve(r) \/ CannotResolve(r) \/ LogCharge(r)
  PROVE  Charges(r)
<1>1. UNCHANGED <<teams, projects, tag>> /\ Serves(r)
  BY DEF Come, FindTeam, NoProject, FindDept, Resolve, CannotResolve, LogCharge, Fails,
         ChargeInv, SerialCharges
<1>2. OneRowPerName'
  BY <1>1, TablesAsTheyWere DEF ChargeInv
<1>3. CASE Come(r) \/ CannotResolve(r) \/ LogCharge(r)
  <2>1. at'[r] \in {"team", "project", "failed", "over"}
    BY <1>3 DEF Come, CannotResolve, LogCharge, Fails, Goto, ShapeInv, AttributionShape
  <2>. QED
    BY <1>2, <2>1 DEF Charges, Serves
<1>4. CASE FindTeam(r)
  <2>1. /\ at'[r] \in {"new team", "move team", "project"}
        /\ at'[r] = "new team" => Find(teams, tag[r].org, tag[r].team) = {}
    BY <1>4 DEF FindTeam, Goto, ShapeInv, AttributionShape
  <2>. QED
    BY <1>1, <1>2, <2>1 DEF Charges, Serves, Find, SameName
<1>5. CASE NoProject(r)
  <2>1. /\ at'[r] = "dept" /\ project'[r] = project[r] /\ at[r] = "project"
    BY <1>5 DEF NoProject, Goto, ShapeInv, AttributionShape
  <2>2. IdOf(project'[r]) = None
    BY <2>1 DEF IdOf, ShapeInv, StagesAgree
  <2>3. \A p \in projects' : p.id # IdOf(project'[r])
    BY <1>1, <2>2, NoneIsNoId
  <2>. QED
    BY <1>2, <2>1, <2>3 DEF Charges, Serves
<1>6. CASE FindDept(r)
  <2>1. /\ at[r] = "dept" /\ team[r] = {} /\ at'[r] \in {"new dept", "done"}
        /\ at'[r] = "new dept" =>
             {t \in teams : t.org = tag[r].org /\ SameName(t, tag[r].dept)} = {}
    BY <1>6 DEF FindDept, NeedsDept, Goto, ShapeInv, AttributionShape
  <2>2. tag[r].team = None
    BY <2>1 DEF ShapeInv, StagesAgree
  <2>. QED
    BY <1>1, <1>2, <2>1, <2>2 DEF Charges, Serves, SameName
<1>7. CASE Resolve(r)
  <2>1. /\ at[r] = "dept" /\ at'[r] = "done" /\ UNCHANGED <<team, project>>
    BY <1>7 DEF Resolve, Goto, ShapeInv, AttributionShape
  <2>2. tag[r].team # None => \A p \in projects : p.id = IdOf(project[r]) => p.team = IdOf(team[r])
    BY <1>1, <2>1 DEF Serves
  <2>3. tag'[r].team # None =>
          \A p \in projects' : p.id = IdOf(project'[r]) => p.team = IdOf(team'[r])
    BY <1>1, <2>1, <2>2
  <2>. QED
    BY <1>2, <2>1, <2>3 DEF Charges, Serves
<1>. QED
  BY <1>3, <1>4, <1>5, <1>6, <1>7

LEMMA FindProjectCharges ==
  ASSUME ShapeInv, ChargeInv, Deserted, NEW r \in Requests, FindProject(r)  PROVE Charges(r)
<1>. DEFINE hits == Find(projects, tag[r].org, tag[r].project)
<1>1. UNCHANGED <<teams, projects, tag, team>> /\ at[r] = "project" /\ ~Several(hits)
  BY DEF FindProject
<1>2. OneRowPerName'
  BY <1>1, TablesAsTheyWere DEF ChargeInv
<1>3. /\ project'[r] = hits
      /\ at'[r] = IF hits = {} THEN "new project" ELSE IF TakesProject(r, hits) THEN "link" ELSE "dept"
  BY DEF FindProject, Goto, ShapeInv, AttributionShape
<1>4. hits \in SUBSET projects
  BY DEF Find
<1>5. Find(projects', tag'[r].org, tag'[r].project) = hits
  BY <1>1 DEF Find, SameName
<1>. HIDE DEF hits
<1>6. Single(hits)
  <2>1. IsFiniteSet(hits)
    BY <1>4, FS_Subset DEF ShapeInv, RowsAreKeyed
  <2>. QED
    BY <1>1, <2>1, SeveralMeansTwo
<1>7. ASSUME at'[r] = "dept", tag[r].team # None, NEW p \in projects, p.id = IdOf(hits)
      PROVE  p.team = IdOf(team[r])
  <2>1. team[r] # {}
    BY <1>1, <1>7 DEF ShapeInv, StagesAgree
  <2>2. PICK q \in hits : q.team = IdOf(team[r])
    BY <1>3, <1>7, <2>1 DEF TakesProject
  <2>3. p.id = q.id
    BY <1>6, <1>7, <2>2, IdOfSingle
  <2>. QED
    BY <1>4, <2>2, <2>3 DEF ShapeInv, RowsAreKeyed
<1>8. at'[r] \in {"new project", "link", "dept"} /\ (at'[r] = "new project" => hits = {})
  BY <1>3
<1>9. at'[r] \in {"dept", "done"} /\ tag'[r].team # None =>
        \A p \in projects' : p.id = IdOf(project'[r]) => p.team = IdOf(team'[r])
  BY <1>1, <1>3, <1>7, <1>8
<1>. QED
  BY <1>2, <1>5, <1>8, <1>9 DEF Charges, Serves

\* A new row has a name that no row had: the tags name no ids.
LEMMA NotFoundIsNew ==
  ASSUME NEW table, NEW row, NEW name, name \notin Ids, row.name = name,
         Find(table, row.org, name) = {} \/ (\A t \in table : ~(t.org = row.org /\ SameName(t, name)))
  PROVE  \A x \in table : ~(x.org = row.org /\ Folded(x.name) = Folded(row.name))
BY DEF Find, SameName

LEMMA AddTeamCharges ==
  ASSUME ShapeInv, ChargeInv, Deserted, NEW r \in Requests, AddTeam(r) \/ AddDept(r)
  PROVE  Charges(r)
<1>. DEFINE name == IF at[r] = "new team" THEN tag[r].team ELSE tag[r].dept
            to == IF at[r] = "new team" THEN "project" ELSE "done"
<1>1. at[r] \in {"new team", "new dept"} /\ CreateTeam(r, name, tag[r].dept, to)
  BY DEF AddTeam, AddDept
<1>2. /\ at[r] = "new team" => tag[r].team # None
      /\ at[r] = "new dept" => tag[r].team = None /\ tag[r].dept # None
  BY DEF ShapeInv, StagesAgree
<1>3. PICK row : /\ teams' = teams \cup {row} /\ row.name = name /\ row.org = tag[r].org
                 /\ at' = [at EXCEPT ![r] = to]
                 /\ UNCHANGED <<projects, tag, calm, edits>>
  BY <1>1 DEF CreateTeam, Goto
<1>4. at[r] = "new team" => Find(teams, tag[r].org, name) = {}
  BY DEF ChargeInv, SerialCharges, Serves
<1>5. at[r] = "new dept" => \A t \in teams : ~(t.org = tag[r].org /\ SameName(t, name))
  BY DEF ChargeInv, SerialCharges, Serves
<1>6. at'[r] = "project" \/ (at'[r] = "done" /\ tag'[r].team = None)
  <2>1. at'[r] = to
    <3>1. at' = [at EXCEPT ![r] = to]
      BY <1>3
    <3>. QED
      BY <3>1 DEF ShapeInv, AttributionShape
  <2>2. tag' = tag /\ (at[r] = "new team" \/ tag[r].team = None)
    BY <1>1, <1>2, <1>3
  <2>. QED
    BY <2>1, <2>2
<1>7. OneRowPerName'
  <2>1. SUFFICES ASSUME \A s \in Requests : {tag[s].team, tag[s].project} \cap Ids = {}
                 PROVE  ~NamedTwice(teams') /\ ~NamedTwice(projects')
    BY <1>3 DEF OneRowPerName
  <2>2. ~NamedTwice(teams) /\ ~NamedTwice(projects)
    BY <2>1 DEF ChargeInv, OneRowPerName, Deserted
  <2>3. name \notin Ids
    <3>1. CASE at[r] = "new team"
      BY <2>1, <3>1
    <3>2. CASE at[r] # "new team"
      <4>1. tag[r].dept \in Names
        BY <1>1, <1>2, <3>2, TagValues
      <4>. QED
        BY <3>2, <4>1, AttributionAssumption
    <3>. QED
      BY <3>1, <3>2
  <2>. HIDE DEF name, to
  <2>4. \A x \in teams : ~(x.org = row.org /\ Folded(x.name) = Folded(row.name))
    BY <1>1, <1>3, <1>4, <1>5, <2>3, NotFoundIsNew
  <2>5. ~NamedTwice(teams \cup {row})
    BY <2>2, <2>4, OneMore
  <2>. QED
    BY <1>3, <2>2, <2>5 DEF NamedTwice
<1>. HIDE DEF name
<1>. QED
  BY <1>6, <1>7 DEF Charges, Serves

LEMMA MoveTeamCharges ==
  ASSUME ShapeInv, ChargeInv, Deserted, NEW r \in Requests, MoveTeam(r)  PROVE Charges(r)
<1>. DEFINE read == CHOOSE t \in team[r] : TRUE
            row == CHOOSE t \in teams : t.id = read.id
            new == [row EXCEPT !.dept = tag[r].dept]
<1>1. /\ \E t \in teams : t.id = read.id
      /\ teams' = (teams \ {row}) \cup {new} /\ at' = [at EXCEPT ![r] = "project"]
      /\ UNCHANGED <<projects, tag, calm, edits>>
  BY DEF MoveTeam, Goto
<1>2. row \in teams
  BY <1>1
<1>3. row \in TeamRow
  BY <1>2 DEF ShapeInv, AttributionShape
<1>4. new.id = row.id /\ new.org = row.org /\ new.name = row.name
  BY <1>3 DEF TeamRow
<1>. HIDE DEF new, row, read
<1>5. NamedTwice(teams') => NamedTwice(teams)
  <2>1. \A a, b \in teams : a.id = b.id => a = b
    BY DEF ShapeInv, RowsAreKeyed
  <2>. QED
    BY <1>1, <1>2, <1>4, <2>1, SameNames
<1>6. NamedTwice(projects') => NamedTwice(projects)
  BY <1>1 DEF NamedTwice
<1>7. OneRowPerName'
  BY <1>1, <1>5, <1>6 DEF ChargeInv, OneRowPerName, Deserted
<1>8. at'[r] = "project"
  BY <1>1 DEF ShapeInv, AttributionShape
<1>. QED
  BY <1>7, <1>8 DEF Charges, Serves

LEMMA AddProjectCharges ==
  ASSUME ShapeInv, ChargeInv, Deserted, NEW r \in Requests, AddProject(r)  PROVE Charges(r)
<1>1. PICK row : /\ projects' = projects \cup {row} /\ project' = [project EXCEPT ![r] = {row}]
                 /\ row.name = tag[r].project /\ row.org = tag[r].org
                 /\ row.team = IdOf(team[r]) /\ row.id \in Fresh(ProjectIds, projects)
                 /\ at[r] = "new project" /\ at' = [at EXCEPT ![r] = "dept"]
                 /\ UNCHANGED <<teams, tag, team, calm, edits>>
  BY DEF AddProject, Goto
<1>2. at'[r] = "dept" /\ project'[r] = {row}
  BY <1>1 DEF ShapeInv, AttributionShape
<1>3. Find(projects, tag[r].org, tag[r].project) = {}
  BY <1>1 DEF ChargeInv, SerialCharges, Serves
<1>4. OneRowPerName'
  <2>1. SUFFICES ASSUME \A s \in Requests : {tag[s].team, tag[s].project} \cap Ids = {}
                 PROVE  ~NamedTwice(teams') /\ ~NamedTwice(projects')
    BY <1>1 DEF OneRowPerName
  <2>2. ~NamedTwice(teams) /\ ~NamedTwice(projects)
    BY <2>1 DEF ChargeInv, OneRowPerName, Deserted
  <2>3. tag[r].project \notin Ids
    BY <2>1
  <2>4. \A x \in projects : ~(x.org = row.org /\ Folded(x.name) = Folded(row.name))
    <3>1. Find(projects, row.org, tag[r].project) = {}
      BY <1>1, <1>3
    <3>. QED
      BY <1>1, <2>3, <3>1, NotFoundIsNew
  <2>5. ~NamedTwice(projects \cup {row})
    BY <2>2, <2>4, OneMore
  <2>. QED
    BY <1>1, <2>2, <2>5 DEF NamedTwice
<1>5. IdOf({row}) = row.id
  BY IdOfSingle DEF Single
<1>6. \A p \in projects' : p.id = row.id => p = row
  BY <1>1, FreshId
<1>7. \A p \in projects' : p.id = IdOf(project'[r]) => p.team = IdOf(team'[r])
  BY <1>1, <1>2, <1>5, <1>6
<1>. QED
  BY <1>2, <1>4, <1>7 DEF Charges, Serves

LEMMA LinkProjectCharges ==
  ASSUME ShapeInv, ChargeInv, Deserted, NEW r \in Requests, LinkProject(r)  PROVE Charges(r)
<1>1. PICK row \in projects :
        /\ row.id = IdOf(project[r])
        /\ projects' = (projects \ {row}) \cup {[row EXCEPT !.team = IdOf(team[r])]}
        /\ at' = [at EXCEPT ![r] = "dept"]
        /\ UNCHANGED <<teams, tag, team, project, calm, edits>>
  BY DEF LinkProject, Goto
<1>. DEFINE new == [row EXCEPT !.team = IdOf(team[r])]
<1>2. row \in ProjectRow
  BY DEF ShapeInv, AttributionShape
<1>3. /\ new.id = row.id /\ new.org = row.org /\ new.name = row.name /\ new.team = IdOf(team[r])
      /\ projects' = (projects \ {row}) \cup {new}
  BY <1>1, <1>2 DEF ProjectRow
<1>. HIDE DEF new
<1>4. \A a, b \in projects : a.id = b.id => a = b
  BY DEF ShapeInv, RowsAreKeyed
<1>5. NamedTwice(projects') => NamedTwice(projects)
  BY <1>3, <1>4, SameNames
<1>6. NamedTwice(teams') => NamedTwice(teams)
  BY <1>1 DEF NamedTwice
<1>7. OneRowPerName'
  BY <1>1, <1>5, <1>6 DEF ChargeInv, OneRowPerName, Deserted
<1>8. at'[r] = "dept"
  BY <1>1 DEF ShapeInv, AttributionShape
<1>9. \A p \in projects' : p.id = IdOf(project'[r]) => p.team = IdOf(team'[r])
  BY <1>1, <1>3, <1>4
<1>. QED
  BY <1>7, <1>8, <1>9 DEF Charges, Serves

\* While nobody else is there, a step keeps the charges right.
LEMMA HandlingCharges ==
  ASSUME ShapeInv, ChargeInv, NEW r \in Requests, Resolving(r), Deserted'  PROVE ChargeInv'
<1>1. Deserted
  BY DEF Deserted, Resolving, Come, FindTeam, AddTeam, AddDept, CreateTeam, MoveTeam, FindProject,
         NoProject, AddProject, LinkProject, FindDept, Resolve, CannotResolve, Fails, LogCharge
<1>2. Charges(r)
  BY <1>1, ReadingCharges, FindProjectCharges, AddTeamCharges, MoveTeamCharges, AddProjectCharges,
     LinkProjectCharges DEF Resolving
<1>3. \E to : at' = [at EXCEPT ![r] = to]
  BY DEF Resolving, Come, FindTeam, AddTeam, AddDept, CreateTeam, MoveTeam, FindProject,
         NoProject, AddProject, LinkProject, FindDept, Resolve, CannotResolve, Fails, LogCharge, Goto
<1>4. \A s \in Requests \ {r} : at'[s] = at[s]
  BY <1>3 DEF ShapeInv, AttributionShape
<1>5. \A s \in Requests \ {r} : at[s] \in {"new", "over", "failed"}
  <2>1. CASE Come(r)
    BY <2>1 DEF Come, Deserted, Handled
  <2>2. CASE ~Come(r)
    <3>1. at[r] \notin {"new", "over", "failed"}
      BY <2>2 DEF Resolving, FindTeam, AddTeam, AddDept, MoveTeam, FindProject, NoProject,
                  AddProject, LinkProject, FindDept, Resolve, CannotResolve, LogCharge
    <3>. QED
      BY <1>1, <3>1 DEF ChargeInv, SerialCharges, Handled
  <2>. QED
    BY <2>1, <2>2
<1>6. \A s \in Requests \ {r} : Serves(s)'
  BY <1>4, <1>5 DEF Serves
<1>7. \A s, u \in Handled' : s = u
  BY <1>4, <1>5 DEF Handled
<1>. QED
  BY <1>2, <1>6, <1>7 DEF Charges, ChargeInv, SerialCharges

\* The invariants of attribution, and the theorems that follow from them.
LEMMA ChargeInvariant == AttributionSpec => []ChargeInv
<1>1. AttributionInit => ChargeInv
  <2>1. SUFFICES ASSUME AttributionInit  PROVE ChargeInv
    OBVIOUS
  <2>2. Handled = {} /\ \A r \in Requests : Serves(r)
    BY <2>1 DEF AttributionInit, Handled, Serves
  <2>3. ~NamedTwice(teams) /\ ~NamedTwice(projects)
    BY <2>1 DEF AttributionInit, NamedTwice
  <2>. QED
    BY <2>2, <2>3 DEF ChargeInv, SerialCharges, OneRowPerName
<1>2. ShapeInv /\ ChargeInv /\ [AttributionNext]_attributionVars => ChargeInv'
  <2>1. SUFFICES ASSUME ShapeInv, ChargeInv, [AttributionNext]_attributionVars  PROVE ChargeInv'
    OBVIOUS
  <2>2. ASSUME NEW r \in Requests, Resolving(r)  PROVE ChargeInv'
    <3>1. CASE Deserted'
      BY <2>1, <2>2, <3>1, HandlingCharges
    <3>2. CASE ~Deserted'
      BY <3>2 DEF ChargeInv, SerialCharges, OneRowPerName, Deserted
    <3>. QED
      BY <3>1, <3>2
  <2>3. CASE Editing
    <3>1. edits' = edits + 1 /\ edits \in Nat
      BY <2>1, <2>3 DEF Editing, CreateTeamByHand, UpdateTeam, DeleteTeam, CreateProjectByHand,
                        UpdateProject, CloseProject, Interfere, ShapeInv, AttributionShape
    <3>2. edits' # 0
      BY <3>1
    <3>. QED
      BY <3>2 DEF ChargeInv, SerialCharges, OneRowPerName, Deserted
  <2>4. CASE UNCHANGED attributionVars
    BY <2>1, <2>4 DEF attributionVars, ChargeInv, SerialCharges, OneRowPerName, Deserted, Handled,
                      Serves, Find, SameName, NamedTwice
  <2>. QED
    BY <2>1, <2>2, <2>3, <2>4 DEF AttributionNext
<1>. QED
  BY <1>1, <1>2, ShapeInvariant, PTL DEF AttributionSpec

\* The rows of teams and projects keep their shape, ids are keys, and no project
\* or charge refers to a team that is gone (resolve_attribution, the routes of
\* teams and projects, and the foreign keys).
THEOREM AttributionTypeCorrect == AttributionSpec => []AttributionTypeOK
<1>1. ShapeInv => AttributionTypeOK
  <2>1. SUFFICES ASSUME ShapeInv  PROVE AttributionTypeOK
    OBVIOUS
  <2>2. ASSUME NEW S, Single(S)  PROVE Cardinality(S) <= 1
    <3>1. CASE S = {}
      BY <3>1, FS_EmptySet
    <3>2. CASE S # {}
      <4>1. PICK x : S = {x}
        BY <2>2, <3>2 DEF Single
      <4>2. Cardinality({x}) = 1
        BY FS_Singleton
      <4>. QED
        BY <4>1, <4>2
    <3>. QED
      BY <3>1, <3>2
  <2>3. \A r \in Requests : Cardinality(team[r]) <= 1 /\ Cardinality(project[r]) <= 1
    BY <2>1, <2>2 DEF ShapeInv, RowsAreKeyed
  <2>. QED
    BY <2>1, <2>3 DEF ShapeInv, AttributionShape, RowsAreKeyed, ReferencesHold, AttributionTypeOK
<1>. QED
  BY <1>1, ShapeInvariant, PTL

\* Every request is charged within its organisation to what it names; while
\* handlers do not overlap and nobody edits, under any spelling and to the
\* team its project was last named with (resolve_attribution).
THEOREM ChargesAreRight == AttributionSpec => []ChargedRight
<1>1. ShapeInv /\ ChargeInv => ChargedRight
  BY DEF ShapeInv, ChargeInv, SerialCharges, Serves, Deserted, ChargedRight, ProjectFollowsTeam
<1>. QED
  BY <1>1, ShapeInvariant, ChargeInvariant, PTL

\* A request fails over its names, or ends without its row in the log, only
\* after a name was doubled or a row was deleted, whatever overlaps
\* (resolve_attribution, log_proxy_transaction).
THEOREM LossesAreExplained == AttributionSpec => []LostOnlyIfDoubled
<1>1. ShapeInv => LostOnlyIfDoubled
  BY DEF ShapeInv
<1>. QED
  BY <1>1, ShapeInvariant, PTL
-----------------------------------------------------------------------------
\* Listings.

\* The table whose rows are owed.
Promised == IF source = "both" THEN "semantic" ELSE source

Newer(row) == {x \in Of(row.table) : x.time > row.time}

Unread == step \in {"count", "rows", "semantic"} \/ (step = "faq" /\ source = "faq")

Totalled == page > 0 /\ (step = "turn" \/ (step \in {"faq", "faq count"} /\ source = "both"))

ListingShape ==
  /\ listed \in SUBSET [table : Tables, time : 1..MaxListed] /\ IsFiniteSet(listed)
  /\ page \in Nat /\ source \in Sources /\ total \in Nat
  /\ step \in {"turn", "count", "rows", "semantic", "semantic count", "faq", "faq count"}
  /\ page = 0 => step = "turn"
  /\ step \in {"count", "rows"} => source = "log"
  /\ step \in {"semantic", "semantic count"} => source \in {"semantic", "both"}
  /\ step \in {"faq", "faq count"} => source \in {"faq", "both"}
  /\ Unread => items = {}

\* What is owed is still there, and lies behind the pages that were read.
OwedLiesAhead ==
  /\ \A row \in owed : row \in listed /\ row.table = Promised
  /\ Unread => \A row \in owed : Cardinality(Newer(row)) >= Offset(page)
  /\ page > 0 /\ ~Unread => \A row \in owed \ items : Cardinality(Newer(row)) >= Offset(page + 1)

\* The last page shows the rest of it.
LastShowsAll ==
  /\ step = "rows" /\ page >= Pages(total) /\ owed # {} => total = Cardinality(Of("log"))
  /\ Totalled /\ page >= Pages(total) => owed \subseteq items

ListingInv == ListingShape /\ OwedLiesAhead /\ LastShowsAll /\ PagesMissNothing
-----------------------------------------------------------------------------
\* There are enough pages for n rows, and no more than that.
LEMMA PagesCover ==
  ASSUME NEW n \in Nat, NEW p \in Nat \ {0}
  PROVE  p >= Pages(n) <=> n <= Offset(p + 1)
<1>1. Limit \in Nat /\ Limit > 0
  BY ListingAssumption
<1>2. ASSUME NEW a \in Int, NEW b \in Int, a <= b  PROVE a * Limit <= b * Limit
  <2>1. (b - a) * Limit >= 0 /\ b * Limit = a * Limit + (b - a) * Limit
    BY <1>1, <1>2
  <2>2. a * Limit \in Int /\ b * Limit \in Int /\ (b - a) * Limit \in Int
    BY <1>1
  <2>. QED
    BY <2>1, <2>2
<1>3. Offset(p + 1) = p * Limit
  <2>1. (p + 1) - 1 = p
    OBVIOUS
  <2>. QED
    BY <2>1 DEF Offset
<1>4. CASE n = 0
  <2>1. 0 * Limit <= p * Limit
    BY <1>2
  <2>. QED
    BY <1>1, <1>3, <1>4, <2>1 DEF Pages
<1>5. CASE n > 0
  <2>. DEFINE q == (n + Limit - 1) \div Limit
  <2>1. q \in Int /\ q * Limit <= n + Limit - 1 /\ n + Limit - 1 < q * Limit + Limit
    BY <1>1
  <2>2. Pages(n) = q
    BY <1>5 DEF Pages
  <2>. HIDE DEF q
  <2>3. q * Limit \in Int /\ p * Limit \in Int
    BY <1>1, <2>1
  <2>4. CASE p >= q
    <3>1. q * Limit <= p * Limit
      BY <1>2, <2>1, <2>4
    <3>. QED
      BY <1>1, <1>3, <2>1, <2>2, <2>3, <2>4, <3>1
  <2>5. CASE ~(p >= q)
    <3>1. (p + 1) * Limit <= q * Limit
      BY <1>2, <2>1, <2>5
    <3>2. (p + 1) * Limit = p * Limit + Limit
      BY <1>1
    <3>. QED
      BY <1>1, <1>3, <2>1, <2>2, <2>3, <2>5, <3>1, <3>2
  <2>. QED
    BY <2>4, <2>5
<1>. QED
  BY <1>4, <1>5

\* The rows of a table that are newer than one of them are fewer than it has.
LEMMA NewerAreFewer ==
  ASSUME ListingShape, NEW row \in listed
  PROVE  /\ Cardinality(Newer(row)) \in Nat /\ Cardinality(Of(row.table)) \in Nat
         /\ Cardinality(Newer(row)) < Cardinality(Of(row.table))
<1>1. IsFiniteSet(Of(row.table))
  BY FS_Subset DEF ListingShape, Of
<1>2. Newer(row) \subseteq Of(row.table) /\ row \in Of(row.table) /\ row \notin Newer(row)
  <2>1. row.time \in 1..MaxListed
    BY DEF ListingShape
  <2>. QED
    BY <2>1, ListingAssumption DEF Newer, Of
<1>3. IsFiniteSet(Newer(row)) /\ IsFiniteSet(Newer(row) \cup {row})
  BY <1>1, <1>2, FS_Subset, FS_AddElement
<1>4. Cardinality(Newer(row) \cup {row}) = Cardinality(Newer(row)) + 1
  BY <1>2, <1>3, FS_AddElement
<1>5. Cardinality(Newer(row) \cup {row}) <= Cardinality(Of(row.table))
  <2>1. Newer(row) \cup {row} \subseteq Of(row.table)
    BY <1>2
  <2>. QED
    BY <1>1, <2>1, FS_Subset
<1>6. Cardinality(Newer(row)) \in Nat /\ Cardinality(Of(row.table)) \in Nat
  BY <1>1, <1>3, FS_CardinalityType
<1>. QED
  BY <1>4, <1>5, <1>6

\* A page has the rows of its table that so many newer ones precede.
LEMMA SelectedAre ==
  ASSUME NEW table, NEW offset, NEW limit, NEW row \in listed, row.table = table
  PROVE  row \in Select(table, offset, limit) <=>
           offset <= Cardinality(Newer(row)) /\ Cardinality(Newer(row)) < offset + limit
BY DEF Select, Newer, Of

\* Rows that are inserted push no row forward.
LEMMA InsertedPushBack ==
  ASSUME ListingShape, NEW row \in listed, listed \subseteq listed', IsFiniteSet(listed')
  PROVE  Cardinality(Newer(row)) <= Cardinality(Newer(row)')
<1>1. Newer(row) \subseteq Newer(row)'
  BY DEF Newer, Of
<1>2. IsFiniteSet(Newer(row)')
  BY FS_Subset DEF Newer, Of
<1>. QED
  BY <1>1, <1>2, FS_Subset
-----------------------------------------------------------------------------
\* A client that is not between listings reads a page of what its step is for.
LEMMA Reading ==
  ASSUME ListingShape
  PROVE  /\ page \in Nat /\ total \in Nat /\ Limit \in Nat \ {0}
         /\ Offset(page + 1) \in Int /\ Offset(page + 1) = Offset(page) + Limit
         /\ step # "turn" => page > 0 /\ page \in Nat \ {0}
         /\ step \in {"count", "rows"} => source = "log"
         /\ step \in {"semantic", "semantic count"} => source \in {"semantic", "both"}
         /\ step \in {"faq", "faq count"} => source \in {"faq", "both"}
<1>1. page \in Nat /\ total \in Nat /\ Limit \in Nat \ {0}
  BY ListingAssumption DEF ListingShape
<1>2. Offset(page + 1) \in Int /\ Offset(page + 1) = Offset(page) + Limit
  <2>1. (page + 1) - 1 = page /\ (page - 1) * Limit = page * Limit - Limit /\ page * Limit \in Int
    BY <1>1
  <2>. QED
    BY <1>1, <2>1 DEF Offset
<1>3. step # "turn" => page > 0 /\ page \in Nat \ {0}
  <2>1. step # "turn" => page # 0
    BY DEF ListingShape
  <2>. QED
    BY <1>1, <2>1
<1>4. /\ step \in {"count", "rows"} => source = "log"
      /\ step \in {"semantic", "semantic count"} => source \in {"semantic", "both"}
      /\ step \in {"faq", "faq count"} => source \in {"faq", "both"}
  BY DEF ListingShape
<1>. QED
  BY <1>1, <1>2, <1>3, <1>4

\* There are finitely many rows of a table.
LEMMA TableCount ==
  ASSUME ListingShape, NEW table  PROVE Cardinality(Of(table)) \in Nat
<1>1. IsFiniteSet(Of(table))
  BY FS_Subset DEF ListingShape, Of
<1>. QED
  BY <1>1, FS_CardinalityType

LEMMA ListingInitInv == ListingInit => ListingInv
BY FS_EmptySet DEF ListingInit, ListingInv, ListingShape, OwedLiesAhead, LastShowsAll, PagesMissNothing,
                   Sources, Unread, Totalled

\* A listing begins before the first of the rows it owes.
LEMMA BeginListingInv ==
  ASSUME ListingInv, BeginListing  PROVE ListingInv'
<1>1. PICK s \in Sources :
        /\ page = 0 /\ page' = 1 /\ source' = s /\ step' = FirstStep(s)
        /\ items' = {} /\ total' = 0
        /\ owed' = {row \in listed : Listed(row, s) /\ (s = "both" => row.table = "semantic")}
        /\ UNCHANGED listed
  BY DEF BeginListing
<1>2. /\ step' \in {"count", "semantic", "faq"} /\ source' \in Sources
      /\ step' = "count" => source' = "log"
      /\ step' = "semantic" => source' \in {"semantic", "both"}
      /\ step' = "faq" => source' = "faq"
  <2>1. step' = FirstStep(s) /\ source' = s
    BY <1>1
  <2>. QED
    BY <2>1 DEF FirstStep, Sources
<1>3. ListingShape'
  <2>1. page' = 1 /\ items' = {} /\ total' = 0 /\ listed' = listed
    BY <1>1
  <2>2. listed' \in SUBSET [table : Tables, time : 1..MaxListed] /\ IsFiniteSet(listed')
    BY <2>1 DEF ListingInv, ListingShape
  <2>3. page' \in Nat /\ page' # 0 /\ total' \in Nat
    BY <2>1
  <2>. QED
    BY <1>2, <2>1, <2>2, <2>3 DEF ListingShape
<1>4. \A row \in owed' : row \in listed' /\ row.table = Promised'
  BY <1>1 DEF Listed, Promised, Sources
<1>5. Offset(page)' = 0
  BY <1>1, ListingAssumption DEF Offset
<1>6. \A row \in owed' : Cardinality(Newer(row)') >= 0
  <2>1. \A row \in owed' : row \in listed /\ Cardinality(Newer(row)) \in Nat
    BY <1>1, NewerAreFewer DEF ListingInv
  <2>2. \A row : Newer(row)' = Newer(row)
    BY <1>1 DEF Newer, Of
  <2>. QED
    BY <2>1, <2>2
<1>7. OwedLiesAhead'
  BY <1>2, <1>4, <1>5, <1>6 DEF OwedLiesAhead, Unread
<1>8. LastShowsAll' /\ PagesMissNothing'
  <2>1. page' = 1
    BY <1>1
  <2>2. step' # "rows" /\ ~Totalled'
    BY <1>2 DEF Totalled
  <2>. QED
    BY <2>1, <2>2 DEF LastShowsAll, PagesMissNothing
<1>. QED
  BY <1>3, <1>7, <1>8 DEF ListingInv

LEMMA CountRowsInv ==
  ASSUME ListingInv, CountRows  PROVE ListingInv'
<1>1. /\ step = "count" /\ step' = "rows" /\ total' = Cardinality(Of("log"))
      /\ UNCHANGED <<listed, page, source, items, owed>>
  BY DEF CountRows
<1>2. total' \in Nat
  BY <1>1, TableCount DEF ListingInv
<1>3. ListingShape'
  BY <1>1, <1>2 DEF ListingInv, ListingShape, Unread
<1>4. OwedLiesAhead'
  BY <1>1 DEF ListingInv, OwedLiesAhead, Unread, Promised, Newer, Of, Offset
<1>5. LastShowsAll' /\ PagesMissNothing'
  BY <1>1 DEF ListingInv, LastShowsAll, PagesMissNothing, Totalled, Of
<1>. QED
  BY <1>3, <1>4, <1>5 DEF ListingInv

\* What a page does not show of its table lies behind it.
LEMMA RestIsBehind ==
  ASSUME ListingInv, Unread, page \in Nat \ {0}, NEW row \in owed,
         row \notin Select(Promised, Offset(page), Limit)
  PROVE  Cardinality(Newer(row)) >= Offset(page + 1)
<1>1. row \in listed /\ row.table = Promised /\ Cardinality(Newer(row)) >= Offset(page)
  BY DEF ListingInv, OwedLiesAhead
<1>2. Cardinality(Newer(row)) \in Nat
  BY <1>1, NewerAreFewer DEF ListingInv
<1>3. ~(Cardinality(Newer(row)) < Offset(page) + Limit)
  BY <1>1, SelectedAre
<1>4. Offset(page) + Limit = Offset(page + 1) /\ Offset(page + 1) \in Int
  BY Reading DEF ListingInv
<1>. QED
  BY <1>2, <1>3, <1>4

LEMMA SelectRowsInv ==
  ASSUME ListingInv, SelectRows  PROVE ListingInv'
<1>1. /\ step = "rows" /\ step' = "turn" /\ items' = Select("log", Offset(page), Limit)
      /\ UNCHANGED <<listed, page, source, total, owed>>
  BY DEF SelectRows
<1>2. Unread /\ page > 0 /\ page \in Nat \ {0} /\ source = "log" /\ Promised = "log"
  BY <1>1, Reading DEF ListingInv, Unread, Promised
<1>3. ListingShape'
  BY <1>1, <1>2 DEF ListingInv, ListingShape, Unread
<1>4. \A row \in owed \ items' : Cardinality(Newer(row)) >= Offset(page + 1)
  BY <1>1, <1>2, RestIsBehind
<1>5. OwedLiesAhead'
  BY <1>1, <1>2, <1>4 DEF ListingInv, OwedLiesAhead, Unread, Promised, Newer, Of
<1>6. ASSUME page >= Pages(total)  PROVE owed \subseteq items'
  <2>1. SUFFICES ASSUME NEW row \in owed, row \notin items'  PROVE FALSE
    OBVIOUS
  <2>2. row \in listed /\ row.table = "log" /\ total = Cardinality(Of("log"))
    BY <1>1, <1>2, <1>6, <2>1 DEF ListingInv, OwedLiesAhead, LastShowsAll
  <2>3. /\ Cardinality(Newer(row)) < total
        /\ Cardinality(Newer(row)) \in Nat /\ total \in Nat
    BY <2>2, NewerAreFewer DEF ListingInv
  <2>4. total <= Offset(page + 1)
    BY <1>2, <1>6, <2>3, PagesCover
  <2>5. Offset(page + 1) \in Int
    BY Reading DEF ListingInv
  <2>. QED
    BY <1>4, <2>1, <2>3, <2>4, <2>5
<1>7. LastShowsAll' /\ PagesMissNothing'
  BY <1>1, <1>2, <1>6 DEF ListingInv, LastShowsAll, PagesMissNothing, Pages
<1>. QED
  BY <1>3, <1>5, <1>7 DEF ListingInv

\* Once a table is counted behind the page, the last page has shown all of it.
LEMMA CountedIsShown ==
  ASSUME ListingInv, ~Unread, page \in Nat \ {0}, NEW n \in Nat, n >= Cardinality(Of(Promised)), page >= Pages(n)
  PROVE  owed \subseteq items
<1>1. SUFFICES ASSUME NEW row \in owed, row \notin items  PROVE FALSE
  OBVIOUS
<1>2. Offset(page + 1) \in Int
  BY Reading DEF ListingInv
<1>3. n <= Offset(page + 1)
  BY PagesCover
<1>4. row \in listed /\ row.table = Promised /\ Cardinality(Newer(row)) >= Offset(page + 1)
  BY <1>1 DEF ListingInv, OwedLiesAhead
<1>5. /\ Cardinality(Newer(row)) \in Nat /\ Cardinality(Of(Promised)) \in Nat
      /\ Cardinality(Newer(row)) < Cardinality(Of(Promised))
  BY <1>4, NewerAreFewer DEF ListingInv
<1>. QED
  BY <1>2, <1>3, <1>4, <1>5

LEMMA SelectEmbeddingsInv ==
  ASSUME ListingInv, SelectEmbeddings  PROVE ListingInv'
<1>1. /\ step = "semantic" /\ step' = "semantic count"
      /\ items' = Select("semantic", Offset(page), Limit)
      /\ UNCHANGED <<listed, page, source, total, owed>>
  BY DEF SelectEmbeddings
<1>2. Unread /\ page > 0 /\ page \in Nat \ {0} /\ source \in {"semantic", "both"} /\ Promised = "semantic"
  BY <1>1, Reading DEF ListingInv, Unread, Promised
<1>3. ListingShape'
  BY <1>1, <1>2 DEF ListingInv, ListingShape, Unread
<1>4. \A row \in owed \ items' : Cardinality(Newer(row)) >= Offset(page + 1)
  BY <1>1, <1>2, RestIsBehind
<1>5. OwedLiesAhead'
  BY <1>1, <1>2, <1>4 DEF ListingInv, OwedLiesAhead, Unread, Promised, Newer, Of
<1>6. LastShowsAll' /\ PagesMissNothing'
  BY <1>1, <1>2 DEF ListingInv, LastShowsAll, PagesMissNothing, Totalled
<1>. QED
  BY <1>3, <1>5, <1>6 DEF ListingInv

LEMMA CountEmbeddingsInv ==
  ASSUME ListingInv, CountEmbeddings  PROVE ListingInv'
<1>1. /\ step = "semantic count" /\ total' = Cardinality(Of("semantic"))
      /\ step' \in {"faq", "turn"} /\ (step' = "faq" => source = "both")
      /\ UNCHANGED <<listed, page, source, items, owed>>
  BY DEF CountEmbeddings
<1>2. ~Unread /\ page > 0 /\ page \in Nat \ {0} /\ source \in {"semantic", "both"} /\ Promised = "semantic" /\ ~Unread'
  BY <1>1, Reading DEF ListingInv, Unread, Promised
<1>3. total' \in Nat
  BY <1>1, TableCount DEF ListingInv
<1>4. ListingShape'
  BY <1>1, <1>2, <1>3 DEF ListingInv, ListingShape, Unread
<1>5. OwedLiesAhead'
  BY <1>1, <1>2 DEF ListingInv, OwedLiesAhead, Promised, Newer, Of
<1>6. page >= Pages(total') => owed \subseteq items
  <2>1. total' = Cardinality(Of(Promised))
    BY <1>1, <1>2
  <2>2. total' >= total'
    BY <1>3
  <2>. QED
    BY <1>2, <1>3, <2>1, <2>2, CountedIsShown
<1>7. LastShowsAll' /\ PagesMissNothing'
  BY <1>1, <1>2, <1>6 DEF ListingInv, LastShowsAll, PagesMissNothing, Pages
<1>. QED
  BY <1>4, <1>5, <1>7 DEF ListingInv

LEMMA SelectFaqsInv ==
  ASSUME ListingInv, SelectFaqs  PROVE ListingInv'
<1>1. /\ step = "faq" /\ step' = "faq count" /\ items \subseteq items'
      /\ UNCHANGED <<listed, page, source, total, owed>>
  BY DEF SelectFaqs
<1>2. page > 0 /\ page \in Nat \ {0} /\ source \in {"faq", "both"} /\ ~Unread'
  BY <1>1, Reading DEF ListingInv, Unread
<1>3. ListingShape'
  BY <1>1, <1>2 DEF ListingInv, ListingShape
<1>4. \A row \in owed \ items' : Cardinality(Newer(row)) >= Offset(page + 1)
  <2>1. CASE source = "both"
    <3>1. ~Unread /\ page > 0
      BY <1>1, <1>2, <2>1 DEF Unread
    <3>2. \A row \in owed \ items : Cardinality(Newer(row)) >= Offset(page + 1)
      BY <3>1 DEF ListingInv, OwedLiesAhead
    <3>. QED
      BY <1>1, <3>2
  <2>2. CASE source = "faq"
    <3>1. Unread /\ Promised = "faq" /\ items = {}
      BY <1>1, <2>2 DEF ListingInv, ListingShape, Unread, Promised
    <3>2. Rest(items) = Limit
      BY <3>1, FS_EmptySet, ListingAssumption DEF Rest
    <3>3. items' = Select("faq", Offset(page), Limit)
      BY <2>2, <3>1, <3>2 DEF SelectFaqs
    <3>. QED
      BY <1>2, <3>1, <3>3, RestIsBehind
  <2>. QED
    BY <1>2, <2>1, <2>2
<1>5. OwedLiesAhead'
  BY <1>1, <1>2, <1>4 DEF ListingInv, OwedLiesAhead, Promised, Newer, Of
<1>6. LastShowsAll' /\ PagesMissNothing'
  BY <1>1, <1>2 DEF ListingInv, LastShowsAll, PagesMissNothing, Totalled, Pages
<1>. QED
  BY <1>3, <1>5, <1>6 DEF ListingInv

LEMMA CountFaqsInv ==
  ASSUME ListingInv, CountFaqs  PROVE ListingInv'
<1>1. /\ step = "faq count" /\ step' = "turn" /\ total' = total + Cardinality(Of("faq"))
      /\ UNCHANGED <<listed, page, source, items, owed>>
  BY DEF CountFaqs
<1>2. ~Unread /\ page > 0 /\ page \in Nat \ {0} /\ source \in {"faq", "both"} /\ ~Unread'
  BY <1>1, Reading DEF ListingInv, Unread
<1>3. Cardinality(Of("faq")) \in Nat /\ total \in Nat
  BY TableCount, Reading DEF ListingInv
<1>4. /\ total \in Nat /\ total' \in Nat /\ total <= total'
      /\ Cardinality(Of("faq")) \in Nat /\ Cardinality(Of("faq")) <= total'
  <2>1. \A a, b \in Nat : a + b \in Nat /\ a <= a + b /\ b <= a + b
    OBVIOUS
  <2>2. total' = total + Cardinality(Of("faq"))
    BY <1>1
  <2>. QED
    BY <1>3, <2>1, <2>2
<1>5. ListingShape'
  BY <1>1, <1>2, <1>4 DEF ListingInv, ListingShape
<1>6. OwedLiesAhead'
  BY <1>1, <1>2 DEF ListingInv, OwedLiesAhead, Promised, Newer, Of
<1>7. ASSUME page >= Pages(total')  PROVE owed \subseteq items
  <2>1. CASE source = "faq"
    <3>1. Promised = "faq"
      BY <2>1 DEF Promised
    <3>. QED
      BY <1>2, <1>4, <1>7, <3>1, CountedIsShown
  <2>2. CASE source = "both"
    <3>1. Offset(page + 1) \in Int
      BY Reading DEF ListingInv
    <3>2. total' <= Offset(page + 1)
      BY <1>2, <1>4, <1>7, PagesCover
    <3>3. total <= Offset(page + 1)
      BY <1>4, <3>1, <3>2
    <3>4. page >= Pages(total)
      BY <1>2, <1>4, <3>3, PagesCover
    <3>5. Totalled
      BY <1>1, <1>2, <2>2 DEF Totalled
    <3>. QED
      BY <3>4, <3>5 DEF ListingInv, LastShowsAll
  <2>. QED
    BY <1>2, <2>1, <2>2
<1>8. LastShowsAll' /\ PagesMissNothing'
  BY <1>1, <1>2, <1>7 DEF ListingInv, LastShowsAll, PagesMissNothing, Pages
<1>. QED
  BY <1>5, <1>6, <1>8 DEF ListingInv

LEMMA TurnPageInv ==
  ASSUME ListingInv, TurnPage  PROVE ListingInv'
<1>1. /\ page > 0 /\ step = "turn" /\ items' = {} /\ owed' = owed \ items
      /\ UNCHANGED <<listed, source>>
  BY DEF TurnPage
<1>2. /\ Totalled /\ ~Unread
      /\ \A row \in owed' : /\ row \in listed /\ row.table = Promised
                            /\ Cardinality(Newer(row)) >= Offset(page + 1)
  BY <1>1 DEF ListingInv, OwedLiesAhead, Totalled, Unread
<1>3. page \in Nat /\ total \in Nat /\ source \in Sources
  BY Reading DEF ListingInv, ListingShape
<1>4. Promised' = Promised /\ \A row : Newer(row)' = Newer(row)
  BY <1>1 DEF Promised, Newer, Of
<1>5. CASE page >= Pages(total)
  <2>1. page' = 0 /\ step' = "turn" /\ total' = total
    BY <1>5 DEF TurnPage
  <2>2. owed' = {}
    BY <1>1, <1>2, <1>5 DEF ListingInv, LastShowsAll
  <2>3. ListingShape'
    BY <1>1, <1>3, <2>1 DEF ListingInv, ListingShape
  <2>4. OwedLiesAhead' /\ LastShowsAll' /\ PagesMissNothing'
    BY <2>2 DEF OwedLiesAhead, LastShowsAll, PagesMissNothing
  <2>. QED
    BY <2>3, <2>4 DEF ListingInv
<1>6. CASE ~(page >= Pages(total))
  <2>1. page' = page + 1 /\ step' = FirstStep(source) /\ total' = 0
    BY <1>6 DEF TurnPage
  <2>2. /\ step' \in {"count", "semantic", "faq"}
        /\ step' = "count" => source' = "log"
        /\ step' = "semantic" => source' \in {"semantic", "both"}
        /\ step' = "faq" => source' = "faq"
    BY <1>1, <1>3, <2>1 DEF FirstStep, Sources
  <2>3. page' \in Nat /\ page' # 0 /\ total' \in Nat
    BY <1>3, <2>1
  <2>4. ListingShape'
    <3>1. /\ listed' \in SUBSET [table : Tables, time : 1..MaxListed] /\ IsFiniteSet(listed')
          /\ source' \in Sources
      BY <1>1, <1>3 DEF ListingInv, ListingShape
    <3>. QED
      BY <1>1, <2>2, <2>3, <3>1 DEF ListingShape
  <2>5. Offset(page)' = Offset(page + 1)
    BY <2>1 DEF Offset
  <2>6. OwedLiesAhead'
    <3>1. Unread'
      BY <2>2 DEF Unread
    <3>. QED
      BY <1>1, <1>2, <1>4, <2>5, <3>1 DEF OwedLiesAhead
  <2>7. LastShowsAll' /\ PagesMissNothing'
    <3>1. step' # "rows" /\ ~Totalled'
      BY <2>2 DEF Totalled
    <3>. QED
      BY <2>3, <3>1 DEF LastShowsAll, PagesMissNothing
  <2>. QED
    BY <2>4, <2>6, <2>7 DEF ListingInv
<1>. QED
  BY <1>5, <1>6

LEMMA InsertListedInv ==
  ASSUME ListingInv, InsertListed  PROVE ListingInv'
<1>1. PICK table \in Tables, time \in 1..MaxListed :
        /\ listed' = listed \cup {[table |-> table, time |-> time]}
        /\ owed' = IF step = "rows" /\ page >= Pages(total) THEN {} ELSE owed
        /\ UNCHANGED <<page, source, step, items, total>>
  BY DEF InsertListed
<1>2. /\ listed' \in SUBSET [table : Tables, time : 1..MaxListed] /\ IsFiniteSet(listed')
      /\ listed \subseteq listed'
  <2>1. [table |-> table, time |-> time] \in [table : Tables, time : 1..MaxListed]
    OBVIOUS
  <2>2. IsFiniteSet(listed) /\ listed \in SUBSET [table : Tables, time : 1..MaxListed]
    BY DEF ListingInv, ListingShape
  <2>3. listed' = listed \cup {[table |-> table, time |-> time]}
    BY <1>1
  <2>. QED
    BY <2>1, <2>2, <2>3, FS_AddElement
<1>3. owed' \subseteq owed /\ UNCHANGED <<page, source, step, items, total>>
  BY <1>1
<1>4. ListingShape'
  BY <1>2, <1>3 DEF ListingInv, ListingShape, Unread
<1>5. ASSUME NEW row \in owed', NEW n \in Int, Cardinality(Newer(row)) >= n
      PROVE  Cardinality(Newer(row)') >= n
  <2>1. row \in listed
    BY <1>3 DEF ListingInv, OwedLiesAhead
  <2>2. Cardinality(Newer(row)) <= Cardinality(Newer(row)')
    BY <1>2, <2>1, InsertedPushBack DEF ListingInv
  <2>3. Cardinality(Newer(row)) \in Nat
    BY <2>1, NewerAreFewer DEF ListingInv
  <2>4. IsFiniteSet(Newer(row)')
    BY <1>2, FS_Subset DEF Newer, Of
  <2>5. Cardinality(Newer(row)') \in Nat
    BY <2>4, FS_CardinalityType
  <2>. QED
    BY <1>5, <2>2, <2>3, <2>5
<1>6. OwedLiesAhead'
  <2>1. Offset(page + 1) \in Int /\ Offset(page) \in Int
    <3>1. Offset(page + 1) \in Int /\ page \in Nat /\ Limit \in Nat
      BY Reading DEF ListingInv
    <3>. QED
      BY <3>1 DEF Offset
  <2>2. \A row \in owed' : row \in listed' /\ row.table = Promised'
    BY <1>2, <1>3 DEF ListingInv, OwedLiesAhead, Promised
  <2>3. Unread' = Unread /\ page' = page /\ Offset(page)' = Offset(page)
    BY <1>3 DEF Unread, Offset
  <2>4. Unread' => \A row \in owed' : Cardinality(Newer(row)') >= Offset(page)
    BY <1>3, <1>5, <2>1, <2>3 DEF ListingInv, OwedLiesAhead
  <2>5. page' > 0 /\ ~Unread' =>
          \A row \in owed' \ items' : Cardinality(Newer(row)') >= Offset(page + 1)
    BY <1>3, <1>5, <2>1, <2>3 DEF ListingInv, OwedLiesAhead
  <2>. QED
    BY <2>2, <2>3, <2>4, <2>5 DEF OwedLiesAhead
<1>7. LastShowsAll' /\ PagesMissNothing'
  <2>1. Totalled' = Totalled /\ Pages(total)' = Pages(total)
    BY <1>3 DEF Totalled, Pages
  <2>2. PagesMissNothing'
    BY <1>3 DEF ListingInv, PagesMissNothing
  <2>3. step' = "rows" /\ page' >= Pages(total)' => owed' = {}
    BY <1>1, <2>1
  <2>4. Totalled' /\ page' >= Pages(total)' => owed' \subseteq items'
    BY <1>3, <2>1 DEF ListingInv, LastShowsAll
  <2>. QED
    BY <2>2, <2>3, <2>4 DEF LastShowsAll
<1>. QED
  BY <1>4, <1>6, <1>7 DEF ListingInv

LEMMA DeleteListedInv ==
  ASSUME ListingInv, DeleteListed  PROVE ListingInv'
<1>1. /\ listed' \subseteq listed /\ owed' = {}
      /\ UNCHANGED <<page, source, step, items, total>>
  BY DEF DeleteListed
<1>2. ListingShape'
  <2>1. listed' \in SUBSET [table : Tables, time : 1..MaxListed] /\ IsFiniteSet(listed')
    BY <1>1, FS_Subset DEF ListingInv, ListingShape
  <2>. QED
    BY <1>1, <2>1 DEF ListingInv, ListingShape, Unread
<1>3. OwedLiesAhead' /\ LastShowsAll' /\ PagesMissNothing'
  BY <1>1 DEF OwedLiesAhead, LastShowsAll, PagesMissNothing
<1>. QED
  BY <1>2, <1>3 DEF ListingInv

ListingSpec == ListingInit /\ [][ListingNext]_listingVars

LEMMA ListingInvariant == ListingSpec => []ListingInv
<1>1. ListingInv /\ [ListingNext]_listingVars => ListingInv'
  <2>1. SUFFICES ASSUME ListingInv, [ListingNext]_listingVars  PROVE ListingInv'
    OBVIOUS
  <2>2. CASE ListingNext
    BY <2>1, <2>2, BeginListingInv, CountRowsInv, SelectRowsInv, SelectEmbeddingsInv,
       CountEmbeddingsInv, SelectFaqsInv, CountFaqsInv, TurnPageInv, InsertListedInv,
       DeleteListedInv DEF ListingNext
  <2>3. CASE UNCHANGED listingVars
    <3>1. UNCHANGED <<listed, page, source, step, items, total, owed>>
      BY <2>3 DEF listingVars
    <3>2. ListingShape'
      BY <2>1, <3>1 DEF ListingInv, ListingShape, Unread
    <3>3. OwedLiesAhead'
      BY <2>1, <3>1 DEF ListingInv, OwedLiesAhead, Unread, Promised, Newer, Of, Offset
    <3>4. LastShowsAll' /\ PagesMissNothing'
      BY <2>1, <3>1 DEF ListingInv, LastShowsAll, PagesMissNothing, Totalled, Of, Pages
    <3>. QED
      BY <3>2, <3>3, <3>4 DEF ListingInv
  <2>. QED
    BY <2>1, <2>2, <2>3
<1>. QED
  BY <1>1, ListingInitInv, PTL DEF ListingSpec

\* A client that has read the last page was shown every row there was when it
\* began, unless rows were deleted or one inserted behind the last count
\* (get_paginated_logs, list_security_violations, list_cache_entries).
THEOREM ListingsAreComplete == ListingSpec => []PagesMissNothing
<1>1. ListingInv => PagesMissNothing
  BY DEF ListingInv
<1>. QED
  BY <1>1, ListingInvariant, PTL

\* No two rows of a table have one time, so a select returns no more than it may.
LEMMA SelectFits ==
  ASSUME ListingShape, NEW table, NEW offset \in Int, NEW limit \in Nat
  PROVE  /\ IsFiniteSet(Select(table, offset, limit))
         /\ Cardinality(Select(table, offset, limit)) <= limit
<1>. DEFINE S == Select(table, offset, limit)
            T == offset..(offset + limit - 1)
            f == [row \in S |-> Cardinality(Newer(row))]
<1>1. \A row \in S : /\ row \in Of(table) /\ row.table = table /\ row.time \in Int
                     /\ IsFiniteSet(Newer(row)) /\ Cardinality(Newer(row)) \in T
  <2>1. SUFFICES ASSUME NEW row \in S
                 PROVE  /\ row \in Of(table) /\ row.table = table /\ row.time \in Int
                        /\ IsFiniteSet(Newer(row)) /\ Cardinality(Newer(row)) \in T
    OBVIOUS
  <2>2. row \in Of(table) /\ row \in listed /\ row.table = table
    BY DEF Select, Of
  <2>3. row.time \in Int
    <3>1. row.time \in 1..MaxListed
      BY <2>2 DEF ListingShape
    <3>. QED
      BY <3>1
  <2>4. IsFiniteSet(Newer(row))
    BY FS_Subset DEF ListingShape, Newer, Of
  <2>5. Cardinality(Newer(row)) \in Nat
    BY <2>4, FS_CardinalityType
  <2>6. offset <= Cardinality(Newer(row)) /\ Cardinality(Newer(row)) < offset + limit
    BY <2>2 DEF Select, Newer
  <2>. QED
    BY <2>2, <2>3, <2>4, <2>5, <2>6
<1>2. ASSUME NEW a \in S, NEW b \in S, a.time < b.time
      PROVE  Cardinality(Newer(b)) # Cardinality(Newer(a))
  <2>1. \A x \in Of(table) : x.time \in Int
    <3>1. \A x \in Of(table) : x.time \in 1..MaxListed
      BY DEF ListingShape, Of
    <3>. QED
      BY <3>1
  <2>2. Newer(b) \subseteq Newer(a)
    <3>1. a.table = table /\ b.table = table /\ a.time \in Int /\ b.time \in Int
      BY <1>1
    <3>2. \A x \in Of(table) : x.time > b.time => x.time > a.time
      BY <1>2, <2>1, <3>1
    <3>. QED
      BY <3>1, <3>2 DEF Newer
  <2>3. b \in Newer(a) /\ b \notin Newer(b)
    <3>1. a.table = table /\ b \in Of(table) /\ b.time > a.time /\ ~(b.time > b.time)
      BY <1>1, <1>2
    <3>. QED
      BY <3>1 DEF Newer
  <2>4. Cardinality(Newer(b)) < Cardinality(Newer(a))
    BY <1>1, <2>2, <2>3, FS_Subset
  <2>5. Cardinality(Newer(a)) \in Nat /\ Cardinality(Newer(b)) \in Nat
    BY <1>1, FS_CardinalityType
  <2>. QED
    BY <2>4, <2>5
<1>3. ASSUME NEW a \in S, NEW b \in S, a.time = b.time  PROVE a = b
  <2>1. /\ a \in [table : Tables, time : 1..MaxListed] /\ a.table = table
        /\ b \in [table : Tables, time : 1..MaxListed] /\ b.table = table
    BY <1>1 DEF ListingShape, Of
  <2>. QED
    BY <1>3, <2>1
<1>4. f \in Injection(S, T)
  <2>1. f \in [S -> T]
    BY <1>1
  <2>2. ASSUME NEW a \in S, NEW b \in S, Cardinality(Newer(a)) = Cardinality(Newer(b))  PROVE a = b
    <3>1. ~(a.time < b.time) /\ ~(b.time < a.time)
      BY <1>2, <2>2
    <3>2. a.time = b.time
      BY <1>1, <3>1
    <3>. QED
      BY <1>3, <3>2
  <2>. QED
    BY <2>1, <2>2 DEF Injection, IsInjective
<1>5. offset \in Int /\ offset + limit - 1 \in Int
  OBVIOUS
<1>6. IsFiniteSet(T) /\ Cardinality(T) = limit
  <2>1. /\ IsFiniteSet(T)
        /\ Cardinality(T) = IF offset > offset + limit - 1 THEN 0 ELSE (offset + limit - 1) - offset + 1
    BY <1>5, FS_Interval
  <2>. QED
    BY <2>1
<1>. HIDE DEF S, T, f
<1>7. IsFiniteSet(S) /\ Cardinality(S) <= limit
  BY <1>4, <1>6, FS_Injection
<1>. QED
  BY <1>7 DEF S

\* A page is one the client may turn to, and holds what fits of what is listed.
PageFits ==
  /\ page <= MaxPages
  /\ IsFiniteSet(items) /\ Cardinality(items) <= Limit
  /\ \A row \in items : Listed(row, source)

\* A statement of a page finds rows of its table, as many as it asks for.
LEMMA SelectsFit ==
  ASSUME ListingInv, PageFits, SelectRows \/ SelectEmbeddings \/ SelectFaqs
  PROVE  PageFits'
<1>1. /\ Limit \in Nat /\ page \in Nat \ {0} /\ Offset(page) \in Int
      /\ page' = page /\ source' = source
  <2>1. page \in Nat \ {0}
    BY Reading DEF ListingInv, SelectRows, SelectEmbeddings, SelectFaqs
  <2>2. Limit \in Nat /\ (page - 1) * Limit \in Int
    BY <2>1, ListingAssumption
  <2>. QED
    BY <2>1, <2>2 DEF Offset, SelectRows, SelectEmbeddings, SelectFaqs
<1>2. ASSUME NEW table, NEW offset \in Int, NEW limit \in Nat,
             NEW row \in Select(table, offset, limit)
      PROVE  row.table = table
  BY DEF Select, Of
<1>3. CASE SelectRows
  <2>1. items' = Select("log", Offset(page), Limit) /\ source = "log"
    BY <1>3 DEF SelectRows, ListingInv, ListingShape
  <2>2. IsFiniteSet(items') /\ Cardinality(items') <= Limit
    BY <1>1, <2>1, SelectFits DEF ListingInv
  <2>. QED
    BY <1>1, <1>2, <2>1, <2>2 DEF PageFits, Listed
<1>4. CASE SelectEmbeddings
  <2>1. items' = Select("semantic", Offset(page), Limit) /\ source \in {"semantic", "both"}
    BY <1>4 DEF SelectEmbeddings, ListingInv, ListingShape
  <2>2. IsFiniteSet(items') /\ Cardinality(items') <= Limit
    BY <1>1, <2>1, SelectFits DEF ListingInv
  <2>. QED
    BY <1>1, <1>2, <2>1, <2>2 DEF PageFits, Listed
<1>5. CASE SelectFaqs
  <2>. DEFINE offset == IF source = "faq" THEN Offset(page) ELSE 0
  <2>1. items' = items \cup Select("faq", offset, Rest(items)) /\ source \in {"faq", "both"}
    BY <1>5 DEF SelectFaqs, ListingInv, ListingShape
  <2>2. IsFiniteSet(items) /\ Cardinality(items) \in Nat /\ Cardinality(items) <= Limit
    BY FS_CardinalityType DEF PageFits
  <2>3. offset \in Int /\ Rest(items) \in Nat /\ Cardinality(items) + Rest(items) = Limit
    BY <1>1, <2>2 DEF Rest
  <2>. HIDE DEF offset
  <2>. DEFINE more == Select("faq", offset, Rest(items))
  <2>4. IsFiniteSet(more) /\ Cardinality(more) <= Rest(items)
    BY <2>3, SelectFits DEF ListingInv
  <2>5. \A row \in more : row.table = "faq"
    BY <1>2, <2>3
  <2>. HIDE DEF more
  <2>6. IsFiniteSet(items \cup more)
        /\ Cardinality(items \cup more) = Cardinality(items) + Cardinality(more) - Cardinality(items \cap more)
    BY <2>2, <2>4, FS_Union
  <2>7. Cardinality(more) \in Nat /\ Cardinality(items \cap more) \in Nat
    <3>1. IsFiniteSet(items \cap more)
      BY <2>2, FS_Subset
    <3>. QED
      BY <2>4, <3>1, FS_CardinalityType
  <2>8. Cardinality(items \cup more) <= Limit
    BY <1>1, <2>2, <2>3, <2>4, <2>6, <2>7
  <2>9. items' = items \cup more
    BY <2>1 DEF more
  <2>10. \A row \in items' : Listed(row, source)
    BY <2>1, <2>5, <2>9 DEF PageFits, Listed
  <2>. QED
    BY <1>1, <2>6, <2>8, <2>9, <2>10 DEF PageFits
<1>. QED
  BY <1>3, <1>4, <1>5

LEMMA PageStillFits ==
  ASSUME ListingInv, PageFits, [ListingNext]_listingVars
  PROVE  PageFits'
<1>1. CASE UNCHANGED <<page, source, items>>
  BY <1>1 DEF PageFits, Listed
<1>2. ASSUME items' = {}, page' \in Nat, page' <= MaxPages  PROVE PageFits'
  <2>1. IsFiniteSet({}) /\ Cardinality({}) = 0
    BY FS_EmptySet
  <2>. QED
    BY <1>2, <2>1, ListingAssumption DEF PageFits
<1>3. CASE BeginListing
  BY <1>2, <1>3, ListingAssumption DEF BeginListing
<1>4. CASE TurnPage
  <2>1. page \in Nat /\ MaxPages \in Nat
    BY ListingAssumption DEF ListingInv, ListingShape
  <2>2. items' = {} /\ (page' = 0 \/ (page' = page + 1 /\ page < MaxPages))
    BY <1>4 DEF TurnPage
  <2>. QED
    BY <1>2, <2>1, <2>2
<1>5. CASE CountRows \/ CountEmbeddings \/ CountFaqs \/ InsertListed \/ DeleteListed
           \/ UNCHANGED listingVars
  BY <1>1, <1>5 DEF CountRows, CountEmbeddings, CountFaqs, InsertListed, DeleteListed, listingVars
<1>. QED
  BY <1>3, <1>4, <1>5, SelectsFit DEF ListingNext

\* A page never holds more rows than it may, nor rows of what is not listed,
\* though the FAQs fill up what the embeddings left of it (list_cache_entries).
THEOREM ListingTypeCorrect == ListingSpec => []ListingTypeOK
<1>1. ListingInit => PageFits
  BY FS_EmptySet, ListingAssumption DEF ListingInit, PageFits
<1>2. ASSUME ListingInv, PageFits  PROVE ListingTypeOK
  <2>1. /\ page \in 0..MaxPages /\ source \in Sources
        /\ listed \subseteq [table : Tables, time : 1..MaxListed]
    <3>1. /\ page \in Nat /\ page <= MaxPages /\ source \in Sources
          /\ listed \subseteq [table : Tables, time : 1..MaxListed]
      BY <1>2 DEF ListingInv, ListingShape, PageFits
    <3>. QED
      BY <3>1, ListingAssumption
  <2>2. \A row \in owed : Listed(row, source)
    BY <1>2 DEF ListingInv, OwedLiesAhead, Promised, Listed
  <2>. QED
    BY <1>2, <2>1, <2>2 DEF PageFits, ListingTypeOK
<1>. QED
  BY <1>1, <1>2, ListingInvariant, PageStillFits, PTL DEF ListingSpec
-----------------------------------------------------------------------------
\* Reports.

LogTables == {"requests_log", "security_violations", "ab_test_results"}

TeamNames == {Teams[i] : i \in DOMAIN Teams}

LogRows == [id : Nat, day : 1..MaxDay, table : LogTables, good : BOOLEAN,
            scope : TeamNames \cup {NoTeam, "A", "B"}]

Meets(row, section) ==
  /\ row.table = section.table
  /\ section.from <= row.day /\ row.day <= section.to
  /\ section.good => row.good
  /\ section.scope = Org \/ row.scope = section.scope

\* Ids are keys, and the next one is free.
RowsAreNumbered ==
  /\ rows \in SUBSET LogRows /\ IsFiniteSet(rows) /\ today \in 1..MaxDay
  /\ \A a, b \in rows : a.id = b.id => a = b
  /\ \A a \in rows : a.id <= Cardinality(rows)
  /\ \A a \in rows : a.table = "ab_test_results" => a.scope \in {"A", "B"}

ReportShape ==
  /\ report \in SUBSET [kind : Kinds, period : {"daily", "weekly", "monthly"},
                        scope : TeamNames \cup {Org}, began : 1..MaxDay,
                        seen : Seq(SUBSET LogRows)]
  /\ \A r \in report : Len(r.seen) <= Len(Plan(r)) /\ r.began <= today
  /\ quiet \in BOOLEAN /\ deleted \in BOOLEAN

\* What a statement read is what it asked for; it is there as long as no team
\* is deleted, so a later statement reads it too; nothing else comes while it
\* is quiet.
SectionsHold ==
  \A r \in report : r.kind # "dashboard" =>
    /\ \A i \in DOMAIN r.seen : \A x \in r.seen[i] : Meets(x, Plan(r)[i])
    /\ ~deleted => /\ \A i \in DOMAIN r.seen : r.seen[i] \subseteq rows
                   /\ \A i, j \in DOMAIN r.seen : i < j =>
                        \A x \in r.seen[i] : Meets(x, Plan(r)[j]) => x \in r.seen[j]
    /\ quiet /\ ~deleted => \A i \in DOMAIN r.seen : Reads(Plan(r)[i]) \subseteq r.seen[i]

\* The teams of a dashboard share no row, even if one of them is deleted; while
\* it is quiet, the organisation's row has counted all they can count.
DashboardHolds ==
  \A r \in report : r.kind = "dashboard" =>
    /\ \A i \in DOMAIN r.seen \ {1} : \A x \in r.seen[i] :
         x.scope = Teams[i - 1] /\ \E row \in rows : row.id = x.id /\ row.scope \in {x.scope, NoTeam}
    /\ \A i, j \in DOMAIN r.seen \ {1} : i # j =>
         \A x \in r.seen[i], y \in r.seen[j] : x.id # y.id
    /\ quiet /\ r.seen # <<>> =>
         /\ \A row \in rows :
              Meets(row, Successes(PeriodStart(r.period, today), MaxDay, Org)) =>
                \E x \in r.seen[1] : x.id = row.id
         /\ \A i \in DOMAIN r.seen \ {1} : \A x \in r.seen[i] : \E y \in r.seen[1] : y.id = x.id

ReportInv == RowsAreNumbered /\ ReportShape /\ SectionsHold /\ DashboardHolds
-----------------------------------------------------------------------------
\* A statement reads the rows that meet its section.
LEMMA ReadsWhatMeets ==
  ASSUME NEW section, NEW x
  PROVE  x \in Reads(section) <=> x \in rows /\ Meets(x, section)
BY DEF Reads, Meets

\* The rows are numbered as they are logged, and keep their numbers.
LEMMA LogRowNumbers ==
  ASSUME RowsAreNumbered, LogRow
  PROVE  RowsAreNumbered' /\ rows \subseteq rows'
<1>1. PICK new \in Loggable :
        /\ rows' = rows \cup {[id |-> Cardinality(rows) + 1, day |-> today,
                               table |-> new.table, good |-> new.good, scope |-> new.scope]}
        /\ today' = today
  BY DEF LogRow
<1>. DEFINE row == [id |-> Cardinality(rows) + 1, day |-> today,
                    table |-> new.table, good |-> new.good, scope |-> new.scope]
<1>2. Cardinality(rows) \in Nat /\ today \in 1..MaxDay
  BY FS_CardinalityType DEF RowsAreNumbered
<1>3. row \in LogRows /\ row.id = Cardinality(rows) + 1
      /\ (row.table = "ab_test_results" => row.scope \in {"A", "B"})
  BY <1>2, ReportAssumption DEF LogRows, LogTables, TeamNames
<1>4. rows' = rows \cup {row} /\ today' = today
  BY <1>1
<1>. HIDE DEF row
<1>5. \A a \in rows : a.id \in Nat /\ a.id <= Cardinality(rows)
  BY DEF RowsAreNumbered, LogRows
<1>6. \A a \in rows : a.id # row.id
  BY <1>2, <1>3, <1>5
<1>7. IsFiniteSet(rows') /\ Cardinality(rows') = Cardinality(rows) + 1
  BY <1>4, <1>6, FS_AddElement DEF RowsAreNumbered
<1>8. \A a \in rows' : a.id <= Cardinality(rows')
  BY <1>2, <1>3, <1>4, <1>5, <1>7
<1>9. \A a, b \in rows' : a.id = b.id => a = b
  BY <1>4, <1>6 DEF RowsAreNumbered
<1>. QED
  BY <1>3, <1>4, <1>7, <1>8, <1>9 DEF RowsAreNumbered

\* What the foreign key leaves of a row of a deleted team.
Unscoped(row, name) == IF row.scope = name THEN [row EXCEPT !.scope = NoTeam] ELSE row

LEMMA DropTeamNumbers ==
  ASSUME RowsAreNumbered, NEW name \in TeamNames, rows' = Kept(name), today' = today
  PROVE  /\ RowsAreNumbered'
         /\ \A row \in rows : Unscoped(row, name) \in rows' /\ Unscoped(row, name).id = row.id
         /\ \A row \in rows' : \E old \in rows : row = Unscoped(old, name) /\ row.id = old.id
<1>1. name \notin {"A", "B"}
  BY ReportAssumption DEF TeamNames
<1>2. \A row \in rows :
        /\ Unscoped(row, name) \in LogRows /\ Unscoped(row, name).id = row.id
        /\ Unscoped(row, name).table = row.table
        /\ row.scope \in {"A", "B"} => Unscoped(row, name).scope = row.scope
  <2>1. SUFFICES ASSUME NEW row \in rows
                 PROVE  /\ Unscoped(row, name) \in LogRows /\ Unscoped(row, name).id = row.id
                        /\ Unscoped(row, name).table = row.table
                        /\ row.scope \in {"A", "B"} => Unscoped(row, name).scope = row.scope
    OBVIOUS
  <2>2. row \in LogRows
    BY DEF RowsAreNumbered
  <2>. QED
    BY <1>1, <2>2 DEF Unscoped, LogRows
<1>3. rows' = {Unscoped(row, name) : row \in rows}
  BY DEF Kept, Unscoped
<1>4. /\ \A row \in rows : Unscoped(row, name) \in rows' /\ Unscoped(row, name).id = row.id
      /\ \A row \in rows' : \E old \in rows : row = Unscoped(old, name) /\ row.id = old.id
  BY <1>2, <1>3
<1>5. \A a, b \in rows' : a.id = b.id => a = b
  BY <1>4 DEF RowsAreNumbered
<1>. DEFINE f == [row \in rows |-> Unscoped(row, name)]
<1>6. f \in Surjection(rows, rows') /\ f \in Injection(rows, rows')
  <2>1. f \in [rows -> rows']
    BY <1>4
  <2>2. \A t \in rows' : \E s \in rows : f[s] = t
    BY <1>4
  <2>3. \A a, b \in rows : f[a] = f[b] => a = b
    BY <1>4 DEF RowsAreNumbered
  <2>. QED
    BY <2>1, <2>2, <2>3 DEF Surjection, Injection, IsInjective
<1>. HIDE DEF f
<1>7. IsFiniteSet(rows') /\ Cardinality(rows') = Cardinality(rows)
  BY <1>6, FS_Surjection DEF RowsAreNumbered
<1>8. rows' \in SUBSET LogRows
  BY <1>2, <1>3
<1>9. \A a \in rows' : a.id <= Cardinality(rows')
  BY <1>4, <1>7 DEF RowsAreNumbered
<1>10. \A a \in rows' : a.table = "ab_test_results" => a.scope \in {"A", "B"}
  BY <1>2, <1>4 DEF RowsAreNumbered
<1>11. RowsAreNumbered'
  BY <1>5, <1>7, <1>8, <1>9, <1>10 DEF RowsAreNumbered
<1>. QED
  BY <1>4, <1>11
-----------------------------------------------------------------------------
\* The statements of a report are fixed when it begins, but for a dashboard's.
LEMMA PlanIsFixed ==
  ASSUME NEW r, r.kind \in Kinds \ {"dashboard"}
  PROVE  Plan(r)' = Plan(r)
BY DEF Plan, Kinds, Spend, Forecast, Comparison, Chargeback, Stats, Violations, Routing, Samples,
       Successes, Section, PeriodStart, MonthStart, Times

LEMMA TimesIs ==
  ASSUME NEW n \in Nat, NEW section
  PROVE  Len(Times(n, section)) = n /\ \A i \in 1..n : Times(n, section)[i] = section
BY DEF Times

\* The organisation's statement, then one for each team.
LEMMA DashboardParts ==
  ASSUME NEW from
  PROVE  LET all == <<Successes(from, MaxDay, Org)>> \o
                    [i \in 1..Len(Teams) |-> Successes(from, MaxDay, Teams[i])]
         IN  /\ Len(all) = Len(Teams) + 1 /\ all[1] = Successes(from, MaxDay, Org)
             /\ \A i \in 1..Len(Teams) : all[i + 1] = Successes(from, MaxDay, Teams[i])
<1>. DEFINE parts == [i \in 1..Len(Teams) |-> Successes(from, MaxDay, Teams[i])]
<1>1. Len(Teams) \in Nat
  BY ReportAssumption
<1>2. Len(parts) = Len(Teams) /\ \A i \in 1..Len(Teams) : parts[i] = Successes(from, MaxDay, Teams[i])
  BY <1>1
<1>. HIDE DEF parts
<1>3. LET all == <<Successes(from, MaxDay, Org)>> \o parts
      IN  /\ Len(all) = Len(Teams) + 1 /\ all[1] = Successes(from, MaxDay, Org)
          /\ \A i \in 1..Len(Teams) : all[i + 1] = Successes(from, MaxDay, Teams[i])
  BY <1>1, <1>2
<1>. QED
  BY <1>3 DEF parts

LEMMA DashboardIs ==
  ASSUME NEW r
  PROVE  /\ Len(Dashboard(r)) = Len(Teams) + 1
         /\ Dashboard(r)[1] = Successes(PeriodStart(r.period, today), MaxDay, Org)
         /\ \A i \in 1..Len(Teams) :
              Dashboard(r)[i + 1] = Successes(PeriodStart(r.period, today), MaxDay, Teams[i])
BY DashboardParts DEF Dashboard

LEMMA PlanLengthIsFixed ==
  ASSUME NEW r, r.kind \in Kinds
  PROVE  Len(Plan(r)') = Len(Plan(r))
<1>1. CASE r.kind = "dashboard"
  <2>1. Plan(r) = Dashboard(r) /\ Plan(r)' = Dashboard(r)'
    BY <1>1 DEF Plan
  <2>2. Len(Dashboard(r)) = Len(Teams) + 1 /\ Len(Dashboard(r)') = Len(Teams) + 1
    BY DashboardParts DEF Dashboard
  <2>. QED
    BY <2>1, <2>2
<1>2. CASE r.kind # "dashboard"
  BY <1>2, PlanIsFixed
<1>. QED
  BY <1>1, <1>2

LEMMA PlanLength ==
  ASSUME NEW r, r.kind \in Kinds
  PROVE  /\ Len(Plan(r)) \in Nat
         /\ r.kind \in {"spend", "comparison"} => Len(Plan(r)) = 3
         /\ r.kind \in {"chargeback", "routing"} => Len(Plan(r)) = 2
         /\ r.kind \in {"stats", "forecast"} => Len(Plan(r)) = 4
         /\ r.kind = "violations" => Len(Plan(r)) = 5
         /\ r.kind = "samples" => Len(Plan(r)) = 3
         /\ r.kind = "dashboard" => Len(Plan(r)) = Len(Teams) + 1
<1>1. Len(Teams) + 1 \in Nat
  BY ReportAssumption
<1>2. CASE r.kind = "dashboard"
  BY <1>1, <1>2, DashboardIs DEF Plan
<1>3. CASE r.kind \in {"forecast", "samples"}
  BY <1>3 DEF Plan, Forecast, Samples
<1>4. CASE r.kind \in {"spend", "comparison"}
  <2>1. \E section : Plan(r) = Times(3, section)
    BY <1>4 DEF Plan, Spend, Comparison
  <2>2. Len(Plan(r)) = 3
    <3>1. PICK section : Plan(r) = Times(3, section)
      BY <2>1
    <3>2. Len(Times(3, section)) = 3
      BY TimesIs
    <3>. QED
      BY <3>1, <3>2
  <2>. QED
    BY <1>4, <2>2
<1>5. CASE r.kind \in {"chargeback", "routing"}
  <2>1. \E section : Plan(r) = Times(2, section)
    BY <1>5 DEF Plan, Chargeback, Routing
  <2>2. Len(Plan(r)) = 2
    <3>1. PICK section : Plan(r) = Times(2, section)
      BY <2>1
    <3>2. Len(Times(2, section)) = 2
      BY TimesIs
    <3>. QED
      BY <3>1, <3>2
  <2>. QED
    BY <1>5, <2>2
<1>6. CASE r.kind = "stats"
  <2>1. \E section : Plan(r) = Times(4, section)
    BY <1>6 DEF Plan, Stats
  <2>2. Len(Plan(r)) = 4
    <3>1. PICK section : Plan(r) = Times(4, section)
      BY <2>1
    <3>2. Len(Times(4, section)) = 4
      BY TimesIs
    <3>. QED
      BY <3>1, <3>2
  <2>. QED
    BY <1>6, <2>2
<1>7. CASE r.kind = "violations"
  <2>1. \E section : Plan(r) = Times(5, section)
    BY <1>7 DEF Plan, Violations
  <2>2. Len(Plan(r)) = 5
    <3>1. PICK section : Plan(r) = Times(5, section)
      BY <2>1
    <3>2. Len(Times(5, section)) = 5
      BY TimesIs
    <3>. QED
      BY <3>1, <3>2
  <2>. QED
    BY <1>7, <2>2
<1>. QED
  BY <1>2, <1>3, <1>4, <1>5, <1>6, <1>7 DEF Kinds

\* What a report has read does not matter to what it reads.
LEMMA PlanOfNext ==
  ASSUME ReportShape, NEW r \in report, NEW s
  PROVE  /\ Plan([r EXCEPT !.seen = s]) = Plan(r) /\ [r EXCEPT !.seen = s].kind = r.kind
         /\ [r EXCEPT !.seen = s].period = r.period /\ [r EXCEPT !.seen = s].scope = r.scope
         /\ [r EXCEPT !.seen = s].began = r.began /\ [r EXCEPT !.seen = s].seen = s
<1>1. r \in [kind : Kinds, period : {"daily", "weekly", "monthly"},
             scope : TeamNames \cup {Org}, began : 1..MaxDay, seen : Seq(SUBSET LogRows)]
  BY DEF ReportShape
<1>. DEFINE next == [r EXCEPT !.seen = s]
<1>2. /\ next.kind = r.kind /\ next.period = r.period /\ next.scope = r.scope
      /\ next.began = r.began /\ next.seen = s
  BY <1>1
<1>. HIDE DEF next
<1>3. Plan(next) = Plan(r)
  BY <1>2 DEF Plan, Spend, Dashboard, Forecast, Comparison, Chargeback, Stats, Violations, Routing,
     Samples
<1>. QED
  BY <1>2, <1>3 DEF next

\* A period starts no earlier the next day.
LEMMA StartsAdvance ==
  ASSUME NEW w \in Nat \ {0}, NEW d \in Nat \ {0}
  PROVE  /\ d - ((d - 1) % w) \in Int /\ (d - 1) % w \in Nat /\ (d - 1) % w < w
         /\ d - ((d - 1) % w) <= (d + 1) - (((d + 1) - 1) % w)
<1>. DEFINE m == (d - 1) % w
            n == d % w
            p == (d - 1) \div w
            q == d \div w
<1>1. m \in Nat /\ n \in Nat /\ m < w /\ n < w /\ p \in Int /\ q \in Int
  OBVIOUS
<1>2. d - 1 = w * p + m /\ d = w * q + n
  OBVIOUS
<1>3. (d + 1) - 1 = d
  OBVIOUS
<1>. HIDE DEF m, n, p, q
<1>4. n <= m + 1
  <2>1. SUFFICES ASSUME n > m + 1  PROVE FALSE
    BY <1>1
  <2>2. w * p + m + 1 = w * q + n /\ w * p \in Int /\ w * q \in Int
    BY <1>1, <1>2
  <2>3. w * q < w * p
    BY <1>1, <2>1, <2>2
  <2>4. q < p
    <3>1. SUFFICES ASSUME p <= q  PROVE FALSE
      BY <1>1
    <3>2. w * (q - p) >= 0 /\ w * (q - p) = w * q - w * p
      BY <1>1, <3>1
    <3>. QED
      BY <2>2, <2>3, <3>2
  <2>5. w * (p - 1 - q) >= 0 /\ w * (p - 1 - q) = w * p - w - w * q
    BY <1>1, <2>4
  <2>. QED
    BY <1>1, <2>2, <2>5
<1>. QED
  BY <1>1, <1>3, <1>4 DEF m, n

LEMMA PeriodsAdvance ==
  ASSUME NEW period \in {"daily", "weekly", "monthly"}, NEW d \in Nat \ {0}
  PROVE  /\ PeriodStart(period, d) \in Int /\ PeriodStart(period, d + 1) \in Int
         /\ PeriodStart(period, d) <= PeriodStart(period, d + 1)
<1>1. WeekDays \in Nat \ {0} /\ MonthDays \in Nat \ {0} /\ d + 1 \in Nat \ {0}
  BY ReportAssumption
<1>2. CASE period = "daily"
  BY <1>2 DEF PeriodStart
<1>3. CASE period = "weekly"
  <2>1. PeriodStart(period, d) = d - ((d - 1) % WeekDays)
    BY <1>3 DEF PeriodStart
  <2>2. PeriodStart(period, d + 1) = (d + 1) - (((d + 1) - 1) % WeekDays)
    BY <1>3 DEF PeriodStart
  <2>. QED
    BY <1>1, <2>1, <2>2, StartsAdvance
<1>4. CASE period = "monthly"
  <2>1. PeriodStart(period, d) = d - ((d - 1) % MonthDays)
    BY <1>4 DEF PeriodStart, MonthStart
  <2>2. PeriodStart(period, d + 1) = (d + 1) - (((d + 1) - 1) % MonthDays)
    BY <1>4 DEF PeriodStart, MonthStart
  <2>. QED
    BY <1>1, <2>1, <2>2, StartsAdvance
<1>. QED
  BY <1>2, <1>3, <1>4
-----------------------------------------------------------------------------
LEMMA ReportFields ==
  ASSUME ReportShape, NEW r \in report
  PROVE  /\ r.kind \in Kinds /\ r.period \in {"daily", "weekly", "monthly"}
         /\ r.scope \in TeamNames \cup {Org} /\ r.began \in 1..MaxDay /\ r.began <= today
         /\ r.seen \in Seq(SUBSET LogRows) /\ Len(r.seen) <= Len(Plan(r))
         /\ Len(r.seen) \in Nat /\ DOMAIN r.seen = 1..Len(r.seen)
<1>1. r \in [kind : Kinds, period : {"daily", "weekly", "monthly"},
             scope : TeamNames \cup {Org}, began : 1..MaxDay, seen : Seq(SUBSET LogRows)]
  BY DEF ReportShape
<1>2. r.seen \in Seq(SUBSET LogRows)
  BY <1>1
<1>3. Len(r.seen) \in Nat /\ DOMAIN r.seen = 1..Len(r.seen)
  BY <1>2
<1>4. Len(r.seen) <= Len(Plan(r)) /\ r.began <= today
  BY DEF ReportShape
<1>. QED
  BY <1>1, <1>2, <1>3, <1>4

LEMMA InitReportInv ==
  ASSUME ReportInit
  PROVE  ReportInv
<1>1. IsFiniteSet({}) /\ 1 \in 1..MaxDay
  BY FS_EmptySet, ReportAssumption
<1>. QED
  BY <1>1 DEF ReportInit, ReportInv, RowsAreNumbered, ReportShape, SectionsHold, DashboardHolds

LEMMA SameRowsNumbered ==
  ASSUME RowsAreNumbered, UNCHANGED <<rows, today>>
  PROVE  RowsAreNumbered'
BY DEF RowsAreNumbered

\* A report that has read nothing promises nothing yet.
LEMMA BeginReportInv ==
  ASSUME ReportInv, BeginReport
  PROVE  ReportInv'
<1>1. PICK kind \in Kinds, period \in {"daily", "weekly", "monthly"},
           scope \in {Org} \cup {Teams[i] : i \in DOMAIN Teams} :
        report' = {[kind |-> kind, period |-> period, scope |-> scope,
                    began |-> today, seen |-> <<>>]}
  BY DEF BeginReport
<1>a. PICK new : new = [kind |-> kind, period |-> period, scope |-> scope,
                        began |-> today, seen |-> <<>>]
  OBVIOUS
<1>2. rows' = rows /\ today' = today /\ quiet' = quiet /\ deleted' = deleted
  BY DEF BeginReport
<1>3. RowsAreNumbered'
  BY <1>2, SameRowsNumbered DEF ReportInv
<1>4. new \in [kind : Kinds, period : {"daily", "weekly", "monthly"},
               scope : TeamNames \cup {Org}, began : 1..MaxDay, seen : Seq(SUBSET LogRows)]
  <2>1. today \in 1..MaxDay /\ <<>> \in Seq(SUBSET LogRows)
    BY DEF ReportInv, RowsAreNumbered
  <2>. QED
    BY <1>a, <2>1 DEF TeamNames
<1>5. report' = {new} /\ new.seen = <<>> /\ new.began = today /\ new.kind \in Kinds
  BY <1>1, <1>a
<1>6. Len(Plan(new)') \in Nat
  BY <1>5, PlanLength, PlanLengthIsFixed
<1>7. ReportShape'
  <2>1. Len(new.seen) = 0 /\ today \in Int
    BY <1>5 DEF ReportInv, RowsAreNumbered
  <2>2. \A r \in report' : Len(r.seen) <= Len(Plan(r)') /\ r.began <= today
    BY <1>5, <1>6, <2>1
  <2>. QED
    BY <1>2, <1>4, <1>5, <2>2 DEF ReportInv, ReportShape
<1>8. SectionsHold' /\ DashboardHolds'
  <2>1. DOMAIN new.seen = {}
    BY <1>5
  <2>. QED
    BY <1>5, <2>1 DEF SectionsHold, DashboardHolds
<1>. QED
  BY <1>3, <1>7, <1>8 DEF ReportInv

LEMMA ReportAnswerInv ==
  ASSUME ReportInv, Answer
  PROVE  ReportInv'
<1>1. RowsAreNumbered'
  BY SameRowsNumbered DEF ReportInv, Answer
<1>. QED
  BY <1>1 DEF ReportInv, Answer, ReportShape, SectionsHold, DashboardHolds

\* The sections of a report after one more statement.
LEMMA OneMoreSection ==
  ASSUME NEW S, NEW seen \in Seq(S), NEW s \in S
  PROVE  /\ Append(seen, s) \in Seq(S) /\ Len(Append(seen, s)) = Len(seen) + 1
         /\ DOMAIN Append(seen, s) = 1..(Len(seen) + 1)
         /\ \A i \in 1..Len(seen) : Append(seen, s)[i] = seen[i]
         /\ Append(seen, s)[Len(seen) + 1] = s
OBVIOUS

LEMMA ReadSectionInv ==
  ASSUME ReportInv, ReadSection
  PROVE  ReportInv'
<1>1. PICK r \in report :
        /\ Len(r.seen) < Len(Plan(r))
        /\ report' = {[r EXCEPT !.seen = Append(@, Reads(Plan(r)[Len(r.seen) + 1]))]}
  BY DEF ReadSection
<1>2. rows' = rows /\ today' = today /\ quiet' = quiet /\ deleted' = deleted
  BY DEF ReadSection
<1>. DEFINE n == Len(r.seen)
<1>a. PICK s : s = Reads(Plan(r)[n + 1])
  OBVIOUS
<1>b. PICK more : more = Append(r.seen, s)
  OBVIOUS
<1>c. PICK next : next = [r EXCEPT !.seen = more]
  OBVIOUS
<1>3. /\ r.kind \in Kinds /\ r.period \in {"daily", "weekly", "monthly"}
      /\ r.seen \in Seq(SUBSET LogRows) /\ n \in Nat /\ DOMAIN r.seen = 1..n
      /\ r.began <= today
  BY ReportFields DEF ReportInv
<1>4. s \in SUBSET LogRows /\ s \subseteq rows
  BY <1>a DEF ReportInv, RowsAreNumbered, Reads
<1>5. /\ Plan(next) = Plan(r) /\ next.kind = r.kind /\ next.period = r.period
      /\ next.began = r.began /\ next.seen = more
  BY <1>c, PlanOfNext DEF ReportInv
<1>6. report' = {next}
  BY <1>1, <1>a, <1>b, <1>c
<1>7. /\ more \in Seq(SUBSET LogRows) /\ Len(more) = n + 1 /\ DOMAIN more = 1..(n + 1)
      /\ \A i \in 1..n : more[i] = r.seen[i]
      /\ more[n + 1] = s
  BY <1>3, <1>4, <1>b, OneMoreSection
<1>8. next \in [kind : Kinds, period : {"daily", "weekly", "monthly"},
                scope : TeamNames \cup {Org}, began : 1..MaxDay, seen : Seq(SUBSET LogRows)]
  <2>1. r \in [kind : Kinds, period : {"daily", "weekly", "monthly"},
               scope : TeamNames \cup {Org}, began : 1..MaxDay, seen : Seq(SUBSET LogRows)]
    BY DEF ReportInv, ReportShape
  <2>2. more \in Seq(SUBSET LogRows)
    BY <1>7
  <2>. QED
    BY <1>c, <2>1, <2>2
<1>9. \A x : x \in s <=> x \in rows /\ Meets(x, Plan(r)[n + 1])
  BY <1>a, ReadsWhatMeets
<1>10. n < Len(Plan(r))
  BY <1>1
<1>. HIDE DEF n
<1>11. RowsAreNumbered'
  BY <1>2, SameRowsNumbered DEF ReportInv
<1>12. ReportShape'
  <2>1. Len(next.seen) = n + 1 /\ Len(Plan(next)') = Len(Plan(r)) /\ Len(Plan(r)) \in Nat
    BY <1>3, <1>5, <1>7, PlanLength, PlanLengthIsFixed
  <2>2. Len(next.seen) <= Len(Plan(next)') /\ next.began <= today
    BY <1>3, <1>5, <1>10, <2>1
  <2>. QED
    BY <1>2, <1>6, <1>8, <2>2 DEF ReportInv, ReportShape
<1>13. SectionsHold'
  <2>1. SUFFICES ASSUME next.kind # "dashboard"
                 PROVE  /\ \A i \in DOMAIN more : \A x \in more[i] : Meets(x, Plan(r)[i])
                        /\ ~deleted => /\ \A i \in DOMAIN more : more[i] \subseteq rows
                                       /\ \A i, j \in DOMAIN more : i < j =>
                                            \A x \in more[i] : Meets(x, Plan(r)[j]) => x \in more[j]
                        /\ quiet /\ ~deleted => \A i \in DOMAIN more : Reads(Plan(r)[i]) \subseteq more[i]
    <3>1. next.kind # "dashboard" => Plan(next)' = Plan(r)
      BY <1>3, <1>5, PlanIsFixed
    <3>3. next.kind # "dashboard" => \A i : Reads(Plan(next)[i])' = Reads(Plan(r)[i])
      BY <1>2, <3>1 DEF Reads
    <3>. QED
      BY <1>2, <1>5, <1>6, <3>1, <3>3 DEF SectionsHold
  <2>2. /\ \A i \in 1..n : \A x \in r.seen[i] : Meets(x, Plan(r)[i])
        /\ ~deleted => /\ \A i \in 1..n : r.seen[i] \subseteq rows
                       /\ \A i, j \in 1..n : i < j =>
                            \A x \in r.seen[i] : Meets(x, Plan(r)[j]) => x \in r.seen[j]
        /\ quiet /\ ~deleted => \A i \in 1..n : Reads(Plan(r)[i]) \subseteq r.seen[i]
    BY <1>3, <1>5, <2>1 DEF ReportInv, SectionsHold
  <2>3. \A i \in DOMAIN more : i \in 1..n \/ i = n + 1
    BY <1>3, <1>7
  <2>4. \A i \in DOMAIN more : \A x \in more[i] : Meets(x, Plan(r)[i])
    BY <1>7, <1>9, <2>2, <2>3
  <2>5. ~deleted => \A i \in DOMAIN more : more[i] \subseteq rows
    BY <1>4, <1>7, <2>2, <2>3
  <2>6. ASSUME ~deleted, NEW i \in DOMAIN more, NEW j \in DOMAIN more, i < j,
               NEW x \in more[i], Meets(x, Plan(r)[j])
        PROVE  x \in more[j]
    <3>1. i \in 1..n
      BY <1>3, <1>7, <2>6
    <3>2. CASE j \in 1..n
      BY <1>7, <2>2, <2>6, <3>1, <3>2
    <3>3. CASE j = n + 1
      BY <1>7, <1>9, <2>5, <2>6, <3>3
    <3>. QED
      BY <2>3, <3>2, <3>3
  <2>7. quiet /\ ~deleted => \A i \in DOMAIN more : Reads(Plan(r)[i]) \subseteq more[i]
    BY <1>7, <1>9, <2>2, <2>3, ReadsWhatMeets
  <2>. QED
    BY <2>4, <2>5, <2>6, <2>7
<1>14. DashboardHolds'
  <2>. DEFINE from == PeriodStart(r.period, today)
  <2>1. SUFFICES ASSUME next.kind = "dashboard"
                 PROVE  /\ \A i \in DOMAIN more \ {1} : \A x \in more[i] :
                             x.scope = Teams[i - 1] /\ \E row \in rows :
                               row.id = x.id /\ row.scope \in {x.scope, NoTeam}
                        /\ \A i, j \in DOMAIN more \ {1} : i # j =>
                             \A x \in more[i], y \in more[j] : x.id # y.id
                        /\ quiet => /\ \A row \in rows : Meets(row, Successes(from, MaxDay, Org)) =>
                                         \E x \in more[1] : x.id = row.id
                                    /\ \A i \in DOMAIN more \ {1} : \A x \in more[i] :
                                         \E y \in more[1] : y.id = x.id
    <3>1. from' = from
      BY <1>2 DEF PeriodStart
    <3>. HIDE DEF from
    <3>2. PeriodStart(next.period, today)' = from
      BY <1>2, <1>5, <3>1 DEF from, PeriodStart
    <3>. QED
      BY <1>2, <1>5, <1>6, <3>2 DEF DashboardHolds
  <2>. HIDE DEF from
  <2>2. /\ \A i \in 1..n \ {1} : \A x \in r.seen[i] :
             x.scope = Teams[i - 1] /\ \E row \in rows : row.id = x.id /\ row.scope \in {x.scope, NoTeam}
        /\ \A i, j \in 1..n \ {1} : i # j => \A x \in r.seen[i], y \in r.seen[j] : x.id # y.id
        /\ quiet /\ r.seen # <<>> =>
             /\ \A row \in rows : Meets(row, Successes(from, MaxDay, Org)) =>
                  \E x \in r.seen[1] : x.id = row.id
             /\ \A i \in 1..n \ {1} : \A x \in r.seen[i] : \E y \in r.seen[1] : y.id = x.id
    BY <1>3, <1>5, <2>1 DEF ReportInv, DashboardHolds, from
  <2>3. /\ Plan(r)[1] = Successes(from, MaxDay, Org)
        /\ \A i \in 1..Len(Teams) : Plan(r)[i + 1] = Successes(from, MaxDay, Teams[i])
        /\ n <= Len(Teams) /\ Len(Teams) \in Nat
    <3>1. Plan(r) = Dashboard(r)
      BY <1>5, <2>1 DEF Plan
    <3>. QED
      BY <1>3, <1>10, <3>1, DashboardIs, ReportAssumption DEF from
  <2>4. CASE n = 0
    <3>1. DOMAIN more \ {1} = {} /\ more[1] = s
      BY <1>7, <2>4
    <3>2. \A row \in rows : Meets(row, Successes(from, MaxDay, Org)) => row \in s
      BY <1>9, <2>3, <2>4
    <3>. QED
      BY <3>1, <3>2
  <2>5. CASE n # 0
    <3>1. n \in 1..Len(Teams) /\ r.seen # <<>> /\ 1 \in 1..n
      BY <1>3, <2>3, <2>5 DEF n
    <3>2. Plan(r)[n + 1] = Successes(from, MaxDay, Teams[n]) /\ (n + 1) - 1 = n
      BY <2>3, <3>1
    <3>3. \A i \in DOMAIN more \ {1} : i \in 1..n \ {1} \/ i = n + 1
      BY <1>3, <1>7
    <3>4. Teams[n] \in STRING \ {Org, NoTeam} /\ n \in DOMAIN Teams
      BY <3>1, ReportAssumption
    <3>5. \A x \in s : x.scope = Teams[n] /\ x \in rows /\ Meets(x, Successes(from, MaxDay, Org))
      BY <1>9, <3>2, <3>4 DEF Meets, Successes, Section
    <3>6. more[1] = r.seen[1]
      BY <1>7, <3>1
    <3>7. \A i \in DOMAIN more \ {1} : \A x \in more[i] :
            x.scope = Teams[i - 1] /\ \E row \in rows : row.id = x.id /\ row.scope \in {x.scope, NoTeam}
      BY <1>7, <2>2, <3>2, <3>3, <3>5
    <3>8. \A i \in 1..n \ {1} : \A x \in r.seen[i], y \in s : x.id # y.id
      <4>1. SUFFICES ASSUME NEW i \in 1..n \ {1}, NEW x \in r.seen[i], NEW y \in s, x.id = y.id
                     PROVE  FALSE
        OBVIOUS
      <4>2. PICK row \in rows : row.id = x.id /\ row.scope \in {Teams[i - 1], NoTeam}
        BY <2>2
      <4>3. row = y
        BY <3>5, <4>1, <4>2 DEF ReportInv, RowsAreNumbered
      <4>4. Teams[i - 1] = Teams[n]
        BY <3>4, <3>5, <4>2, <4>3
      <4>5. i - 1 \in DOMAIN Teams /\ i - 1 # n
        BY <3>1, ReportAssumption
      <4>. QED
        BY <3>4, <4>4, <4>5, ReportAssumption
    <3>9. \A i, j \in DOMAIN more \ {1} : i # j => \A x \in more[i], y \in more[j] : x.id # y.id
      BY <1>7, <2>2, <3>3, <3>8
    <3>10. ASSUME quiet
           PROVE  /\ \A row \in rows : Meets(row, Successes(from, MaxDay, Org)) =>
                       \E x \in more[1] : x.id = row.id
                  /\ \A i \in DOMAIN more \ {1} : \A x \in more[i] : \E y \in more[1] : y.id = x.id
      BY <1>7, <2>2, <3>1, <3>3, <3>5, <3>6, <3>10
    <3>. QED
      BY <3>7, <3>9, <3>10
  <2>. QED
    BY <2>4, <2>5
<1>. QED
  BY <1>11, <1>12, <1>13, <1>14 DEF ReportInv

\* A row logged while a report is made ends the quiet; what was read stays.
LEMMA LogRowInv ==
  ASSUME ReportInv, LogRow
  PROVE  ReportInv'
<1>1. RowsAreNumbered' /\ rows \subseteq rows'
  BY LogRowNumbers DEF ReportInv
<1>2. /\ today' = today /\ report' = report /\ deleted' = deleted
      /\ quiet' = (report = {})
  BY DEF LogRow
<1>3. \A r \in report : /\ r.kind \in Kinds /\ r.began <= today
                        /\ Len(r.seen) <= Len(Plan(r)')
                        /\ r.kind # "dashboard" => Plan(r)' = Plan(r)
  BY ReportFields, PlanIsFixed, PlanLengthIsFixed DEF ReportInv
<1>4. ReportShape'
  <2>1. quiet' \in BOOLEAN
    BY <1>2
  <2>. QED
    BY <1>2, <1>3, <2>1 DEF ReportInv, ReportShape
<1>5. \A r \in report : ~quiet'
  BY <1>2
<1>6. SectionsHold'
  <2>1. SUFFICES ASSUME NEW r \in report, r.kind # "dashboard"
                 PROVE  /\ \A i \in DOMAIN r.seen : \A x \in r.seen[i] : Meets(x, Plan(r)[i])
                        /\ ~deleted => /\ \A i \in DOMAIN r.seen : r.seen[i] \subseteq rows'
                                       /\ \A i, j \in DOMAIN r.seen : i < j =>
                                            \A x \in r.seen[i] : Meets(x, Plan(r)[j]) => x \in r.seen[j]
    BY <1>2, <1>3, <1>5 DEF SectionsHold
  <2>. QED
    BY <1>1, <2>1 DEF ReportInv, SectionsHold
<1>7. DashboardHolds'
  <2>1. SUFFICES ASSUME NEW r \in report, r.kind = "dashboard"
                 PROVE  /\ \A i \in DOMAIN r.seen \ {1} : \A x \in r.seen[i] :
                             x.scope = Teams[i - 1] /\ \E row \in rows' :
                               row.id = x.id /\ row.scope \in {x.scope, NoTeam}
                        /\ \A i, j \in DOMAIN r.seen \ {1} : i # j =>
                             \A x \in r.seen[i], y \in r.seen[j] : x.id # y.id
    BY <1>2, <1>5 DEF DashboardHolds
  <2>. QED
    BY <1>1, <2>1 DEF ReportInv, DashboardHolds
<1>. QED
  BY <1>1, <1>4, <1>6, <1>7 DEF ReportInv

\* Rows of a deleted team keep their number, day and table: a dashboard's
\* counts stay apart.
LEMMA DropTeamInv ==
  ASSUME ReportInv, DropTeam
  PROVE  ReportInv'
<1>1. PICK name \in TeamNames : rows' = Kept(name)
  BY DEF DropTeam, TeamNames
<1>2. /\ today' = today /\ report' = report /\ quiet' = quiet
      /\ deleted' = (report # {})
  BY DEF DropTeam
<1>3. /\ RowsAreNumbered'
      /\ \A row \in rows : Unscoped(row, name) \in rows' /\ Unscoped(row, name).id = row.id
      /\ \A row \in rows' : \E old \in rows : row = Unscoped(old, name) /\ row.id = old.id
  BY <1>1, <1>2, DropTeamNumbers DEF ReportInv
<1>4. \A r \in report : /\ r.kind \in Kinds /\ r.began <= today
                        /\ Len(r.seen) <= Len(Plan(r)')
                        /\ r.kind # "dashboard" => Plan(r)' = Plan(r)
  BY ReportFields, PlanIsFixed, PlanLengthIsFixed DEF ReportInv
<1>5. ReportShape'
  <2>1. deleted' \in BOOLEAN
    BY <1>2
  <2>. QED
    BY <1>2, <1>4, <2>1 DEF ReportInv, ReportShape
<1>6. \A r \in report : deleted'
  BY <1>2
<1>7. SectionsHold'
  <2>1. SUFFICES ASSUME NEW r \in report, r.kind # "dashboard"
                 PROVE  \A i \in DOMAIN r.seen : \A x \in r.seen[i] : Meets(x, Plan(r)[i])
    BY <1>2, <1>4, <1>6 DEF SectionsHold
  <2>. QED
    BY <2>1 DEF ReportInv, SectionsHold
<1>8. \A row \in rows : /\ Unscoped(row, name).table = row.table
                        /\ Unscoped(row, name).day = row.day
                        /\ Unscoped(row, name).good = row.good
                        /\ Unscoped(row, name).scope \in {row.scope, NoTeam}
  <2>1. SUFFICES ASSUME NEW row \in rows
                 PROVE  /\ Unscoped(row, name).table = row.table
                        /\ Unscoped(row, name).day = row.day
                        /\ Unscoped(row, name).good = row.good
                        /\ Unscoped(row, name).scope \in {row.scope, NoTeam}
    OBVIOUS
  <2>2. row \in LogRows
    BY DEF ReportInv, RowsAreNumbered
  <2>. QED
    BY <2>2 DEF Unscoped, LogRows
<1>9. DashboardHolds'
  <2>1. \A r \in report : PeriodStart(r.period, today)' = PeriodStart(r.period, today)
    BY <1>2 DEF PeriodStart
  <2>2. SUFFICES ASSUME NEW r \in report, r.kind = "dashboard"
                 PROVE  /\ \A i \in DOMAIN r.seen \ {1} : \A x \in r.seen[i] :
                             x.scope = Teams[i - 1] /\ \E row \in rows' :
                               row.id = x.id /\ row.scope \in {x.scope, NoTeam}
                        /\ \A i, j \in DOMAIN r.seen \ {1} : i # j =>
                             \A x \in r.seen[i], y \in r.seen[j] : x.id # y.id
                        /\ quiet /\ r.seen # <<>> =>
                             /\ \A row \in rows' :
                                  Meets(row, Successes(PeriodStart(r.period, today), MaxDay, Org)) =>
                                    \E x \in r.seen[1] : x.id = row.id
                             /\ \A i \in DOMAIN r.seen \ {1} : \A x \in r.seen[i] :
                                  \E y \in r.seen[1] : y.id = x.id
    BY <1>2, <2>1 DEF DashboardHolds
  <2>. DEFINE all == Successes(PeriodStart(r.period, today), MaxDay, Org)
  <2>3. \A row \in rows : Meets(Unscoped(row, name), all) => Meets(row, all)
    BY <1>8 DEF Meets, Successes, Section
  <2>. HIDE DEF all
  <2>4. /\ \A i \in DOMAIN r.seen \ {1} : \A x \in r.seen[i] :
             x.scope = Teams[i - 1] /\ \E row \in rows : row.id = x.id /\ row.scope \in {x.scope, NoTeam}
        /\ \A i, j \in DOMAIN r.seen \ {1} : i # j =>
             \A x \in r.seen[i], y \in r.seen[j] : x.id # y.id
        /\ quiet /\ r.seen # <<>> =>
             /\ \A row \in rows : Meets(row, all) => \E x \in r.seen[1] : x.id = row.id
             /\ \A i \in DOMAIN r.seen \ {1} : \A x \in r.seen[i] : \E y \in r.seen[1] : y.id = x.id
    BY <2>2 DEF ReportInv, DashboardHolds, all
  <2>5. \A x, row : row \in rows /\ row.id = x.id /\ row.scope \in {x.scope, NoTeam} =>
          /\ Unscoped(row, name) \in rows' /\ Unscoped(row, name).id = x.id
          /\ Unscoped(row, name).scope \in {x.scope, NoTeam}
    BY <1>3, <1>8
  <2>6. \A i \in DOMAIN r.seen \ {1} : \A x \in r.seen[i] :
          x.scope = Teams[i - 1] /\ \E row \in rows' : row.id = x.id /\ row.scope \in {x.scope, NoTeam}
    BY <2>4, <2>5
  <2>7. quiet /\ r.seen # <<>> =>
          \A row \in rows' : Meets(row, all) => \E x \in r.seen[1] : x.id = row.id
    BY <1>3, <2>3, <2>4
  <2>. QED
    BY <2>4, <2>6, <2>7 DEF all
<1>. QED
  BY <1>3, <1>5, <1>7, <1>9 DEF ReportInv

\* The period of a dashboard may start later the next day: less is counted,
\* never more.
LEMMA PassDayInv ==
  ASSUME ReportInv, PassDay
  PROVE  ReportInv'
<1>1. /\ rows' = rows /\ report' = report /\ quiet' = quiet /\ deleted' = deleted
      /\ today' = today + 1 /\ today < MaxDay /\ today \in 1..MaxDay /\ MaxDay \in Nat
  BY ReportAssumption DEF PassDay, ReportInv, RowsAreNumbered
<1>2. today' \in 1..MaxDay
  BY <1>1
<1>3. RowsAreNumbered'
  BY <1>1, <1>2 DEF ReportInv, RowsAreNumbered
<1>4. \A r \in report : /\ r.kind \in Kinds /\ r.began <= today /\ r.began \in Int
                        /\ r.period \in {"daily", "weekly", "monthly"}
                        /\ Len(r.seen) <= Len(Plan(r)')
                        /\ r.kind # "dashboard" => Plan(r)' = Plan(r)
  BY ReportFields, PlanIsFixed, PlanLengthIsFixed DEF ReportInv
<1>5. ReportShape'
  <2>1. \A r \in report : r.began <= today'
    BY <1>1, <1>4
  <2>. QED
    BY <1>1, <1>4, <2>1 DEF ReportInv, ReportShape
<1>6. SectionsHold'
  <2>1. SUFFICES ASSUME NEW r \in report, r.kind # "dashboard"
                 PROVE  /\ \A i \in DOMAIN r.seen : \A x \in r.seen[i] : Meets(x, Plan(r)[i])
                        /\ ~deleted => /\ \A i \in DOMAIN r.seen : r.seen[i] \subseteq rows
                                       /\ \A i, j \in DOMAIN r.seen : i < j =>
                                            \A x \in r.seen[i] : Meets(x, Plan(r)[j]) => x \in r.seen[j]
                        /\ quiet /\ ~deleted => \A i \in DOMAIN r.seen :
                                                  Reads(Plan(r)[i]) \subseteq r.seen[i]
    <3>1. \A r \in report : r.kind # "dashboard" => \A i : Reads(Plan(r)[i])' = Reads(Plan(r)[i])
      BY <1>1, <1>4 DEF Reads
    <3>. QED
      BY <1>1, <1>4, <3>1 DEF SectionsHold
  <2>. QED
    BY <2>1 DEF ReportInv, SectionsHold
<1>7. DashboardHolds'
  <2>1. \A r \in report : PeriodStart(r.period, today)' = PeriodStart(r.period, today + 1)
    BY <1>1 DEF PeriodStart
  <2>2. SUFFICES ASSUME NEW r \in report, r.kind = "dashboard"
                 PROVE  /\ \A i \in DOMAIN r.seen \ {1} : \A x \in r.seen[i] :
                             x.scope = Teams[i - 1] /\ \E row \in rows :
                               row.id = x.id /\ row.scope \in {x.scope, NoTeam}
                        /\ \A i, j \in DOMAIN r.seen \ {1} : i # j =>
                             \A x \in r.seen[i], y \in r.seen[j] : x.id # y.id
                        /\ quiet /\ r.seen # <<>> =>
                             /\ \A row \in rows :
                                  Meets(row, Successes(PeriodStart(r.period, today + 1), MaxDay, Org)) =>
                                    \E x \in r.seen[1] : x.id = row.id
                             /\ \A i \in DOMAIN r.seen \ {1} : \A x \in r.seen[i] :
                                  \E y \in r.seen[1] : y.id = x.id
    BY <1>1, <2>1 DEF DashboardHolds
  <2>3. ASSUME NEW row \in rows,
               Meets(row, Successes(PeriodStart(r.period, today + 1), MaxDay, Org))
        PROVE  Meets(row, Successes(PeriodStart(r.period, today), MaxDay, Org))
    <3>1. today \in Nat \ {0} /\ r.period \in {"daily", "weekly", "monthly"}
      BY <1>1, <1>4
    <3>2. /\ PeriodStart(r.period, today) \in Int /\ PeriodStart(r.period, today + 1) \in Int
          /\ PeriodStart(r.period, today) <= PeriodStart(r.period, today + 1)
      BY <3>1, PeriodsAdvance
    <3>3. row.day \in Int
      BY DEF ReportInv, RowsAreNumbered, LogRows
    <3>. QED
      BY <2>3, <3>2, <3>3 DEF Meets, Successes, Section
  <2>. QED
    BY <2>2, <2>3 DEF ReportInv, DashboardHolds
<1>. QED
  BY <1>3, <1>5, <1>6, <1>7 DEF ReportInv

LEMMA ReportInvHolds ==
  ASSUME ReportInv, [ReportNext]_reportVars
  PROVE  ReportInv'
<1>1. CASE ReportNext
  BY <1>1, BeginReportInv, ReadSectionInv, ReportAnswerInv, LogRowInv, DropTeamInv, PassDayInv
     DEF ReportNext
<1>2. CASE UNCHANGED reportVars
  <2>1. \A r : r.kind \in Kinds => Plan(r)' = Plan(r) /\ \A i : Reads(Plan(r)[i])' = Reads(Plan(r)[i])
    BY <1>2 DEF reportVars, Plan, Kinds, Spend, Dashboard, Forecast, Comparison, Chargeback, Stats,
       Violations, Routing, Samples, Successes, Section, PeriodStart, MonthStart, Times, Reads
  <2>2. \A r \in report : PeriodStart(r.period, today)' = PeriodStart(r.period, today)
    BY <1>2 DEF reportVars, PeriodStart
  <2>3. \A r \in report : r.kind \in Kinds
    BY ReportFields DEF ReportInv
  <2>4. RowsAreNumbered' /\ ReportShape'
    BY <1>2, <2>1, <2>3 DEF reportVars, ReportInv, RowsAreNumbered, ReportShape
  <2>5. SectionsHold'
    BY <1>2, <2>1, <2>3 DEF reportVars, ReportInv, SectionsHold
  <2>6. DashboardHolds'
    BY <1>2, <2>2 DEF reportVars, ReportInv, DashboardHolds
  <2>. QED
    BY <2>4, <2>5, <2>6 DEF ReportInv
<1>. QED
  BY <1>1, <1>2
-----------------------------------------------------------------------------
LEMMA SeenIs ==
  ASSUME NEW r, NEW sections, NEW n
  PROVE  n \in Seen(r, sections) <=> \E i \in sections : \E x \in r.seen[i] : n = x.id
BY DEF Seen

\* The kinds of report that put one question several times over.
LEMMA OneQuestion ==
  ASSUME NEW r, r.kind \in Kinds \ {"dashboard", "forecast", "samples"}
  PROVE  /\ \A i, j \in 1..Len(Plan(r)) : Plan(r)[i] = Plan(r)[j]
         /\ DOMAIN Parts(r.kind) = 1..Len(Plan(r))
         /\ \A i \in DOMAIN Parts(r.kind) : Parts(r.kind)[i] = {i}
<1>1. \E n \in {2, 3, 4, 5} : \E section : Plan(r) = Times(n, section)
  BY DEF Kinds, Plan, Spend, Comparison, Chargeback, Stats, Violations, Routing
<1>a. PICK n \in {2, 3, 4, 5} : \E section : Plan(r) = Times(n, section)
  BY <1>1
<1>2. PICK section : Plan(r) = Times(n, section)
  BY <1>a
<1>3. n \in Nat
  OBVIOUS
<1>4. Len(Times(n, section)) = n /\ \A i \in 1..n : Times(n, section)[i] = section
  BY <1>3, TimesIs
<1>5. \A i, j \in 1..Len(Plan(r)) : Plan(r)[i] = Plan(r)[j]
  BY <1>2, <1>4
<1>6. CASE r.kind \in {"spend", "comparison"}
  <2>1. Len(Plan(r)) = 3
    BY <1>6, PlanLength DEF Kinds
  <2>2. Parts(r.kind) = <<{1}, {2}, {3}>>
    BY <1>6 DEF Parts
  <2>. QED
    BY <1>5, <2>1, <2>2
<1>7. CASE r.kind \in {"chargeback", "routing"}
  <2>1. Len(Plan(r)) = 2
    BY <1>7, PlanLength DEF Kinds
  <2>2. Parts(r.kind) = <<{1}, {2}>>
    BY <1>7 DEF Parts
  <2>. QED
    BY <1>5, <2>1, <2>2
<1>8. CASE r.kind = "stats"
  <2>1. Len(Plan(r)) = 4
    BY <1>8, PlanLength DEF Kinds
  <2>2. Parts(r.kind) = <<{1}, {2}, {3}, {4}>>
    BY <1>8 DEF Parts
  <2>. QED
    BY <1>5, <2>1, <2>2
<1>9. CASE r.kind = "violations"
  <2>1. Len(Plan(r)) = 5
    BY <1>9, PlanLength DEF Kinds
  <2>2. Parts(r.kind) = <<{1}, {2}, {3}, {4}, {5}>>
    BY <1>9 DEF Parts
  <2>. QED
    BY <1>5, <2>1, <2>2
<1>. QED
  BY <1>6, <1>7, <1>8, <1>9 DEF Kinds

LEMMA SamplesAre ==
  ASSUME NEW r, r.kind = "samples"
  PROVE  /\ Len(Plan(r)) = 3 /\ DOMAIN Parts(r.kind) = {1, 2}
         /\ Parts(r.kind)[1] = {1} /\ Parts(r.kind)[2] = {2, 3}
         /\ Plan(r)[1] = Section("ab_test_results", 1, MaxDay, FALSE, Org)
         /\ Plan(r)[2] = Section("ab_test_results", 1, MaxDay, FALSE, "A")
         /\ Plan(r)[3] = Section("ab_test_results", 1, MaxDay, FALSE, "B")
<1>1. Plan(r) = <<Section("ab_test_results", 1, MaxDay, FALSE, Org),
                  Section("ab_test_results", 1, MaxDay, FALSE, "A"),
                  Section("ab_test_results", 1, MaxDay, FALSE, "B")>>
  BY DEF Plan, Samples
<1>2. Parts(r.kind) = <<{1}, {2, 3}>>
  BY DEF Parts
<1>. QED
  BY <1>1, <1>2

LEMMA NoParts ==
  ASSUME NEW r, r.kind \in {"forecast", "dashboard"}
  PROVE  DOMAIN Parts(r.kind) = {}
BY DEF Parts

\* What is read undisturbed is what the statement asks for.
LEMMA QuietIsRead ==
  ASSUME ReportInv, NEW r \in report, r.kind # "dashboard", quiet, ~deleted, NEW i \in DOMAIN r.seen
  PROVE  r.seen[i] = Reads(Plan(r)[i])
<1>1. \A x \in r.seen[i] : x \in rows /\ Meets(x, Plan(r)[i])
  BY DEF ReportInv, SectionsHold
<1>2. Reads(Plan(r)[i]) \subseteq r.seen[i]
  BY DEF ReportInv, SectionsHold
<1>. QED
  BY <1>1, <1>2, ReadsWhatMeets

LEMMA LaterIsMore ==
  ASSUME ReportInv
  PROVE  LaterSeesMore
<1>1. SUFFICES ASSUME ~deleted, NEW r \in report, Complete(r),
                      NEW i \in DOMAIN Parts(r.kind), NEW j \in DOMAIN Parts(r.kind), i < j,
                      NEW n \in Seen(r, Parts(r.kind)[i])
               PROVE  n \in Seen(r, Parts(r.kind)[j])
  BY DEF LaterSeesMore
<1>2. r.kind \in Kinds /\ DOMAIN r.seen = 1..Len(Plan(r)) /\ r.kind \notin {"forecast", "dashboard"}
  BY <1>1, ReportFields, NoParts DEF ReportInv, Complete
<1>3. \A k, l \in DOMAIN r.seen : k < l =>
        \A x \in r.seen[k] : Meets(x, Plan(r)[l]) => x \in r.seen[l]
  BY <1>1, <1>2 DEF ReportInv, SectionsHold
<1>4. \A k \in DOMAIN r.seen : \A x \in r.seen[k] : x \in rows /\ Meets(x, Plan(r)[k])
  BY <1>1, <1>2 DEF ReportInv, SectionsHold
<1>5. CASE r.kind # "samples"
  <2>1. /\ i \in DOMAIN r.seen /\ j \in DOMAIN r.seen /\ Plan(r)[i] = Plan(r)[j]
        /\ Parts(r.kind)[i] = {i} /\ Parts(r.kind)[j] = {j}
    BY <1>2, <1>5, OneQuestion
  <2>2. PICK x \in r.seen[i] : n = x.id
    BY <1>1, <2>1, SeenIs
  <2>3. x \in r.seen[j]
    BY <1>1, <1>3, <1>4, <2>1
  <2>. QED
    BY <2>1, <2>2, <2>3, SeenIs
<1>6. CASE r.kind = "samples"
  <2>1. /\ i = 1 /\ j = 2 /\ 1 \in DOMAIN r.seen /\ 2 \in DOMAIN r.seen /\ 3 \in DOMAIN r.seen
        /\ Parts(r.kind)[i] = {1} /\ Parts(r.kind)[j] = {2, 3}
    <3>1. i \in {1, 2} /\ j \in {1, 2}
      BY <1>6, SamplesAre
    <3>2. i = 1 /\ j = 2
      BY <1>1, <3>1
    <3>3. DOMAIN r.seen = 1..3
      BY <1>2, <1>6, SamplesAre
    <3>4. Parts(r.kind)[1] = {1} /\ Parts(r.kind)[2] = {2, 3}
      BY <1>6, SamplesAre
    <3>5. 1 \in 1..3 /\ 2 \in 1..3 /\ 3 \in 1..3
      OBVIOUS
    <3>. QED
      BY <3>2, <3>3, <3>4, <3>5
  <2>2. PICK x \in r.seen[1] : n = x.id
    BY <1>1, <2>1, SeenIs
  <2>3. x \in rows /\ Meets(x, Plan(r)[1])
    BY <1>4, <2>1
  <2>4. x.scope \in {"A", "B"}
    BY <1>6, <2>3, SamplesAre DEF ReportInv, RowsAreNumbered, Meets, Section
  <2>5. \E k \in {2, 3} : Meets(x, Plan(r)[k])
    BY <1>6, <2>3, <2>4, SamplesAre DEF Meets, Section
  <2>6. PICK k \in {2, 3} : Meets(x, Plan(r)[k])
    BY <2>5
  <2>7. x \in r.seen[k]
    BY <1>3, <2>1, <2>6
  <2>. QED
    BY <2>1, <2>2, <2>6, <2>7, SeenIs
<1>. QED
  BY <1>5, <1>6

LEMMA QuietAgrees ==
  ASSUME ReportInv
  PROVE  QuietReportAgrees
<1>1. SUFFICES ASSUME quiet, ~deleted, NEW r \in report, Complete(r),
                      NEW i \in DOMAIN Parts(r.kind), NEW j \in DOMAIN Parts(r.kind),
                      NEW n \in Seen(r, Parts(r.kind)[i])
               PROVE  n \in Seen(r, Parts(r.kind)[j])
  BY DEF QuietReportAgrees
<1>2. r.kind \in Kinds /\ DOMAIN r.seen = 1..Len(Plan(r)) /\ r.kind \notin {"forecast", "dashboard"}
  BY <1>1, ReportFields, NoParts DEF ReportInv, Complete
<1>3. \A k \in DOMAIN r.seen : r.seen[k] = Reads(Plan(r)[k])
  BY <1>1, <1>2, QuietIsRead
<1>4. CASE r.kind # "samples"
  <2>1. /\ i \in DOMAIN r.seen /\ j \in DOMAIN r.seen /\ Plan(r)[i] = Plan(r)[j]
        /\ Parts(r.kind)[i] = {i} /\ Parts(r.kind)[j] = {j}
    BY <1>2, <1>4, OneQuestion
  <2>2. r.seen[i] = r.seen[j]
    BY <1>3, <2>1
  <2>. QED
    BY <1>1, <2>1, <2>2, SeenIs
<1>5. CASE r.kind = "samples"
  <2>1. /\ 1 \in DOMAIN r.seen /\ 2 \in DOMAIN r.seen /\ 3 \in DOMAIN r.seen
        /\ i \in {1, 2} /\ j \in {1, 2}
        /\ Parts(r.kind)[1] = {1} /\ Parts(r.kind)[2] = {2, 3}
    <3>1. DOMAIN r.seen = 1..3
      BY <1>2, <1>5, SamplesAre
    <3>2. 1 \in 1..3 /\ 2 \in 1..3 /\ 3 \in 1..3
      OBVIOUS
    <3>3. DOMAIN Parts(r.kind) = {1, 2} /\ Parts(r.kind)[1] = {1} /\ Parts(r.kind)[2] = {2, 3}
      BY <1>5, SamplesAre
    <3>. QED
      BY <3>1, <3>2, <3>3
  <2>2. \A x : x \in r.seen[1] <=> x \in r.seen[2] \/ x \in r.seen[3]
    <3>1. SUFFICES ASSUME NEW x \in rows
                   PROVE  Meets(x, Plan(r)[1]) <=> Meets(x, Plan(r)[2]) \/ Meets(x, Plan(r)[3])
      BY <1>3, <2>1, ReadsWhatMeets
    <3>2. x.table = "ab_test_results" => x.scope \in {"A", "B"}
      BY DEF ReportInv, RowsAreNumbered
    <3>. QED
      BY <1>5, <3>2, SamplesAre DEF Meets, Section
  <2>3. \A k \in {1, 2} : n \in Seen(r, Parts(r.kind)[k]) <=> \E x \in r.seen[1] : n = x.id
    <3>1. n \in Seen(r, {1}) <=> \E x \in r.seen[1] : n = x.id
      BY SeenIs
    <3>2. n \in Seen(r, {2, 3}) <=> \E x \in r.seen[1] : n = x.id
      BY <2>2, SeenIs
    <3>. QED
      BY <2>1, <3>1, <3>2
  <2>. QED
    BY <1>1, <2>1, <2>3
<1>. QED
  BY <1>4, <1>5

\* This month lies within the window, and every row since the first day.
LEMMA ForecastAgrees ==
  ASSUME ReportInv
  PROVE  ForecastSumsAgree
<1>1. SUFFICES ASSUME quiet, ~deleted, NEW r \in report, r.kind = "forecast", Complete(r)
               PROVE  /\ Seen(r, {2}) = {row.id : row \in {x \in r.seen[1] : x.day >= MonthStart(r.began)}}
                      /\ Seen(r, {1, 2, 3}) \subseteq Seen(r, {4})
  BY DEF ForecastSumsAgree
<1>. DEFINE month == MonthStart(r.began)
<1>2. /\ Plan(r)[1] = Successes(r.began - Window, MaxDay, r.scope)
      /\ Plan(r)[2] = Successes(month, MaxDay, r.scope)
      /\ Plan(r)[3] = Successes(MonthStart(month - 1), month - 1, r.scope)
      /\ Plan(r)[4] = Successes(1, MaxDay, r.scope)
      /\ Len(Plan(r)) = 4
  <2>1. Plan(r) = Forecast(r)
    BY <1>1 DEF Plan
  <2>. QED
    BY <2>1 DEF Forecast
<1>3. DOMAIN r.seen = 1..4 /\ r.began \in 1..MaxDay
  BY <1>1, <1>2, ReportFields DEF ReportInv, Complete
<1>4. \A k \in 1..4 : r.seen[k] = Reads(Plan(r)[k])
  BY <1>1, <1>3, QuietIsRead
<1>5. month \in Int /\ r.began - Window <= month /\ r.began - Window \in Int
  <2>1. MonthDays \in Nat \ {0} /\ Window \in Nat /\ Window >= MonthDays /\ r.began \in Nat \ {0}
    BY <1>3, ReportAssumption
  <2>2. (r.began - 1) % MonthDays \in Nat /\ (r.began - 1) % MonthDays < MonthDays
    BY <2>1, StartsAdvance
  <2>. QED
    BY <2>1, <2>2 DEF MonthStart
<1>. HIDE DEF month
<1>6. \A x \in rows : x.day \in 1..MaxDay /\ MaxDay \in Nat
  BY ReportAssumption DEF ReportInv, RowsAreNumbered, LogRows
<1>7. \A x \in rows : Meets(x, Plan(r)[2]) <=> Meets(x, Plan(r)[1]) /\ x.day >= month
  BY <1>2, <1>5, <1>6 DEF Meets, Successes, Section
<1>8. \A x : x \in r.seen[2] <=> x \in r.seen[1] /\ x.day >= month
  BY <1>4, <1>7, ReadsWhatMeets
<1>9. Seen(r, {2}) = {row.id : row \in {x \in r.seen[1] : x.day >= month}}
  BY <1>8 DEF Seen
<1>10. \A x \in rows : \A k \in {1, 2, 3} : Meets(x, Plan(r)[k]) => Meets(x, Plan(r)[4])
  BY <1>2, <1>6 DEF Meets, Successes, Section
<1>11. \A k \in {1, 2, 3} : r.seen[k] \subseteq r.seen[4]
  BY <1>4, <1>10, ReadsWhatMeets
<1>12. Seen(r, {1, 2, 3}) \subseteq Seen(r, {4})
  BY <1>11, SeenIs
<1>. QED
  BY <1>9, <1>12 DEF month

LEMMA TeamsAreWithin ==
  ASSUME ReportInv
  PROVE  TeamsWithinOrg
<1>1. SUFFICES ASSUME quiet, NEW r \in report, r.kind = "dashboard", Complete(r)
               PROVE  /\ Seen(r, DOMAIN r.seen \ {1}) \subseteq Seen(r, {1})
                      /\ \A i, j \in DOMAIN r.seen \ {1} :
                           i # j => Seen(r, {i}) \cap Seen(r, {j}) = {}
  BY DEF TeamsWithinOrg
<1>2. r.seen # <<>>
  <2>1. Len(r.seen) = Len(Teams) + 1 /\ Len(Teams) \in Nat
    BY <1>1, PlanLength, ReportAssumption DEF Complete, Kinds
  <2>. QED
    BY <2>1
<1>3. \A i \in DOMAIN r.seen \ {1} : \A x \in r.seen[i] : \E y \in r.seen[1] : y.id = x.id
  BY <1>1, <1>2 DEF ReportInv, DashboardHolds
<1>4. \A i, j \in DOMAIN r.seen \ {1} : i # j => \A x \in r.seen[i], y \in r.seen[j] : x.id # y.id
  BY <1>1 DEF ReportInv, DashboardHolds
<1>5. Seen(r, DOMAIN r.seen \ {1}) \subseteq Seen(r, {1})
  BY <1>3, SeenIs
<1>6. ASSUME NEW i \in DOMAIN r.seen \ {1}, NEW j \in DOMAIN r.seen \ {1}, i # j,
             NEW n \in Seen(r, {i}) \cap Seen(r, {j})
      PROVE  FALSE
  BY <1>4, <1>6, SeenIs
<1>. QED
  BY <1>5, <1>6

ReportSpec == ReportInit /\ [][ReportNext]_reportVars

\* The sections of a report agree with each other as SectionsAgree says,
\* whatever is logged or deleted and whatever day comes between its statements
\* (get_spend, get_all_budgets, forecast_spend, get_chargeback_report and the
\* other reports).
THEOREM ReportsAgree == ReportSpec => []SectionsAgree
<1>1. ReportInv => SectionsAgree
  BY LaterIsMore, QuietAgrees, ForecastAgrees, TeamsAreWithin DEF SectionsAgree
<1>. QED
  BY <1>1, InitReportInv, ReportInvHolds, PTL DEF ReportSpec

\* Rows are numbered from one, no more are logged than may be, and what a report
\* has counted is still there under its number.
CountedStays ==
  /\ Cardinality(rows) <= MaxRows /\ \A row \in rows : row.id >= 1
  /\ \A r \in report : \A i \in DOMAIN r.seen : \A x \in r.seen[i] :
       \E row \in rows : row.id = x.id

\* It is while every number stays in use.
LEMMA NumbersStay ==
  ASSUME CountedStays, report' = report, \A row \in rows : \E new \in rows' : new.id = row.id,
         Cardinality(rows') <= MaxRows, \A row \in rows' : row.id >= 1
  PROVE  CountedStays'
BY DEF CountedStays

LEMMA CountedStaysSo ==
  ASSUME ReportInv, CountedStays, [ReportNext]_reportVars
  PROVE  CountedStays'
<1>1. CASE BeginReport
  <2>1. PICK kind, period, scope :
          report' = {[kind |-> kind, period |-> period, scope |-> scope,
                      began |-> today, seen |-> <<>>]}
    BY <1>1 DEF BeginReport
  <2>2. \A r \in report' : DOMAIN r.seen = {}
    BY <2>1
  <2>3. rows' = rows
    BY <1>1 DEF BeginReport
  <2>. QED
    BY <2>2, <2>3 DEF CountedStays
<1>2. CASE ReadSection
  <2>1. PICK r \in report :
          report' = {[r EXCEPT !.seen = Append(@, Reads(Plan(r)[Len(r.seen) + 1]))]}
    BY <1>2 DEF ReadSection
  <2>2. PICK s : s = Reads(Plan(r)[Len(r.seen) + 1])
    OBVIOUS
  <2>3. PICK more : more = Append(r.seen, s)
    OBVIOUS
  <2>4. s \in SUBSET LogRows /\ s \subseteq rows
    BY <2>2 DEF ReportInv, RowsAreNumbered, Reads
  <2>5. r.seen \in Seq(SUBSET LogRows) /\ DOMAIN r.seen = 1..Len(r.seen) /\ Len(r.seen) \in Nat
    BY ReportFields DEF ReportInv
  <2>6. /\ DOMAIN more = 1..(Len(r.seen) + 1) /\ more[Len(r.seen) + 1] = s
        /\ \A i \in 1..Len(r.seen) : more[i] = r.seen[i]
    BY <2>3, <2>4, <2>5, OneMoreSection
  <2>7. \A i \in DOMAIN more : \A x \in more[i] : \E row \in rows : row.id = x.id
    <3>1. SUFFICES ASSUME NEW i \in DOMAIN more, NEW x \in more[i]
                   PROVE  \E row \in rows : row.id = x.id
      OBVIOUS
    <3>2. i \in 1..Len(r.seen) \/ i = Len(r.seen) + 1
      BY <2>5, <2>6, <3>1
    <3>3. CASE i \in 1..Len(r.seen)
      BY <2>5, <2>6, <3>1, <3>3 DEF CountedStays
    <3>4. CASE i = Len(r.seen) + 1
      BY <2>4, <2>6, <3>1, <3>4
    <3>. QED
      BY <3>2, <3>3, <3>4
  <2>8. r \in [kind : Kinds, period : {"daily", "weekly", "monthly"},
               scope : TeamNames \cup {Org}, began : 1..MaxDay, seen : Seq(SUBSET LogRows)]
    BY DEF ReportInv, ReportShape
  <2>9. \A q \in report' : q.seen = more
    BY <2>1, <2>2, <2>3, <2>8
  <2>10. rows' = rows
    BY <1>2 DEF ReadSection
  <2>. QED
    BY <2>7, <2>9, <2>10 DEF CountedStays
<1>3. CASE Answer
  BY <1>3 DEF Answer, CountedStays
<1>4. CASE LogRow
  <2>1. rows \subseteq rows' /\ report' = report /\ Cardinality(rows) < MaxRows
    BY <1>4, LogRowNumbers DEF LogRow, ReportInv
  <2>2. PICK row : rows' = rows \cup {row} /\ row.id = Cardinality(rows) + 1
    <3>1. PICK new \in Loggable :
            rows' = rows \cup {[id |-> Cardinality(rows) + 1, day |-> today,
                                table |-> new.table, good |-> new.good, scope |-> new.scope]}
      BY <1>4 DEF LogRow
    <3>2. [id |-> Cardinality(rows) + 1, day |-> today, table |-> new.table,
           good |-> new.good, scope |-> new.scope].id = Cardinality(rows) + 1
      OBVIOUS
    <3>. QED
      BY <3>1, <3>2
  <2>3. IsFiniteSet(rows) /\ Cardinality(rows) \in Nat /\ MaxRows \in Nat
    BY FS_CardinalityType, ReportAssumption DEF ReportInv, RowsAreNumbered
  <2>4. Cardinality(rows') \in {Cardinality(rows), Cardinality(rows) + 1}
    BY <2>2, <2>3, FS_AddElement
  <2>5. Cardinality(rows') <= MaxRows
    BY <2>1, <2>3, <2>4
  <2>6. \A new \in rows' : new.id >= 1
    BY <2>2, <2>3 DEF CountedStays
  <2>. QED
    BY <2>1, <2>5, <2>6, NumbersStay
<1>5. CASE DropTeam
  <2>1. PICK i \in DOMAIN Teams : rows' = Kept(Teams[i])
    BY <1>5 DEF DropTeam
  <2>2. /\ \A row \in rows : Unscoped(row, Teams[i]) \in rows' /\ Unscoped(row, Teams[i]).id = row.id
        /\ \A row \in rows' : \E old \in rows : row = Unscoped(old, Teams[i]) /\ row.id = old.id
    <3>1. Teams[i] \in TeamNames /\ today' = today
      BY <1>5, <2>1 DEF TeamNames, DropTeam
    <3>. QED
      BY <2>1, <3>1, DropTeamNumbers DEF ReportInv
  <2>3. Cardinality(rows') <= MaxRows
    <3>1. rows' = {Unscoped(row, Teams[i]) : row \in rows}
      BY <2>1 DEF Kept, Unscoped
    <3>2. IsFiniteSet(rows') /\ Cardinality(rows') <= Cardinality(rows)
      <4>. DEFINE f == [row \in rows |-> Unscoped(row, Teams[i])]
      <4>1. f \in Surjection(rows, rows')
        BY <3>1 DEF Surjection
      <4>. HIDE DEF f
      <4>. QED
        BY <4>1, FS_Surjection DEF ReportInv, RowsAreNumbered
    <3>3. Cardinality(rows) \in Nat /\ Cardinality(rows') \in Nat /\ MaxRows \in Nat
      BY <3>2, FS_CardinalityType, ReportAssumption DEF ReportInv, RowsAreNumbered
    <3>. QED
      BY <3>2, <3>3 DEF CountedStays
  <2>4. report' = report
    BY <1>5 DEF DropTeam
  <2>5. \A row \in rows' : row.id >= 1
    BY <2>2 DEF CountedStays
  <2>. QED
    BY <2>2, <2>3, <2>4, <2>5, NumbersStay
<1>6. CASE PassDay \/ UNCHANGED reportVars
  BY <1>6 DEF PassDay, reportVars, CountedStays
<1>. QED
  BY <1>1, <1>2, <1>3, <1>4, <1>5, <1>6 DEF ReportNext

\* Rows keep their numbers and columns, and every section holds committed rows
\* that are there still, though teams are deleted while a report is made.
THEOREM ReportTypeCorrect == ReportSpec => []ReportTypeOK
<1>1. ReportInit => CountedStays
  BY FS_EmptySet, ReportAssumption DEF ReportInit, CountedStays
<1>2. ASSUME ReportInv, CountedStays  PROVE ReportTypeOK
  <2>1. Cardinality(rows) \in Nat /\ MaxRows \in Nat /\ Cardinality(rows) <= MaxRows
    BY <1>2, FS_CardinalityType, ReportAssumption DEF ReportInv, RowsAreNumbered, CountedStays
  <2>2. ASSUME NEW row \in rows
        PROVE  row \in [id : 1..MaxRows, day : 1..MaxDay, table : LogTables,
                        good : BOOLEAN, scope : TeamNames \cup {NoTeam, "A", "B"}]
    <3>1. row \in LogRows /\ row.id >= 1 /\ row.id <= Cardinality(rows)
      BY <1>2 DEF ReportInv, RowsAreNumbered, CountedStays
    <3>2. row.id \in 1..MaxRows
      BY <2>1, <3>1 DEF LogRows
    <3>. QED
      BY <3>1, <3>2 DEF LogRows
  <2>3. today \in 1..MaxDay /\ \A a, b \in rows : a.id = b.id => a = b
    BY <1>2 DEF ReportInv, RowsAreNumbered
  <2>4. ASSUME NEW r \in report
        PROVE  /\ r.kind \in Kinds /\ r.began <= today /\ Len(r.seen) <= Len(Plan(r))
               /\ Seen(r, DOMAIN r.seen) \subseteq {row.id : row \in rows}
    <3>1. Seen(r, DOMAIN r.seen) \subseteq {row.id : row \in rows}
      BY <1>2, SeenIs DEF CountedStays
    <3>. QED
      BY <1>2, <3>1, ReportFields DEF ReportInv
  <2>. QED
    BY <2>2, <2>3, <2>4 DEF ReportTypeOK, LogTables, TeamNames
<1>. QED
  BY <1>1, <1>2, InitReportInv, ReportInvHolds, CountedStaysSo, PTL DEF ReportSpec
-----------------------------------------------------------------------------
\* The six parts together.  A behaviour of them is a behaviour of each, so what
\* is proved of each part holds of them interleaved.

LEMMA TenantsAreKeys == TenantsSpec => KeySpec
<1>1. TenantsInit => KeyInit
  BY DEF TenantsInit
<1>2. [TenantsNext]_tenantsVars => [KeyNext]_keyVars
  BY DEF TenantsNext, KeysAlone, RateAlone, AttributionAlone, BudgetsAlone, ReportsAlone,
         ListingsAlone, tenantsVars
<1>. QED
  BY <1>1, <1>2, PTL DEF TenantsSpec, KeySpec

LEMMA TenantsAreLimited == TenantsSpec => RateSpec
<1>1. TenantsInit => RateInit
  BY DEF TenantsInit
<1>2. [TenantsNext]_tenantsVars => [RateNext]_rateVars
  BY DEF TenantsNext, KeysAlone, RateAlone, AttributionAlone, BudgetsAlone, ReportsAlone,
         ListingsAlone, tenantsVars
<1>. QED
  BY <1>1, <1>2, PTL DEF TenantsSpec, RateSpec

LEMMA TenantsAreCharged == TenantsSpec => AttributionSpec
<1>1. TenantsInit => AttributionInit
  BY DEF TenantsInit
<1>2. [TenantsNext]_tenantsVars => [AttributionNext]_attributionVars
  BY DEF TenantsNext, KeysAlone, RateAlone, AttributionAlone, BudgetsAlone, ReportsAlone,
         ListingsAlone, tenantsVars
<1>. QED
  BY <1>1, <1>2, PTL DEF TenantsSpec, AttributionSpec

LEMMA TenantsAreBudgeted == TenantsSpec => BudgetSpec
<1>1. TenantsInit => BudgetInit
  BY DEF TenantsInit
<1>2. [TenantsNext]_tenantsVars => [BudgetNext]_budgetVars
  BY DEF TenantsNext, KeysAlone, RateAlone, AttributionAlone, BudgetsAlone, ReportsAlone,
         ListingsAlone, tenantsVars
<1>. QED
  BY <1>1, <1>2, PTL DEF TenantsSpec, BudgetSpec

LEMMA TenantsAreReported == TenantsSpec => ReportSpec
<1>1. TenantsInit => ReportInit
  BY DEF TenantsInit
<1>2. [TenantsNext]_tenantsVars => [ReportNext]_reportVars
  BY DEF TenantsNext, KeysAlone, RateAlone, AttributionAlone, BudgetsAlone, ReportsAlone,
         ListingsAlone, tenantsVars
<1>. QED
  BY <1>1, <1>2, PTL DEF TenantsSpec, ReportSpec

LEMMA TenantsAreListed == TenantsSpec => ListingSpec
<1>1. TenantsInit => ListingInit
  BY DEF TenantsInit
<1>2. [TenantsNext]_tenantsVars => [ListingNext]_listingVars
  BY DEF TenantsNext, KeysAlone, RateAlone, AttributionAlone, BudgetsAlone, ReportsAlone,
         ListingsAlone, tenantsVars
<1>. QED
  BY <1>1, <1>2, PTL DEF TenantsSpec, ListingSpec

\* Rows, keys, references and handlers of every part keep their types, whatever
\* overlaps (the routers of keys, finops, logs, cache and security, and
\* resolve_attribution).
THEOREM TenantsTypeCorrect == TenantsSpec => []TypeOK
<1>1. KeyTypeOK /\ RateTypeOK /\ AttributionTypeOK /\ BudgetTypeOK /\ ReportTypeOK
      /\ ListingTypeOK => TypeOK
  BY DEF TypeOK
<1>. QED
  BY <1>1, TenantsAreKeys, TenantsAreLimited, TenantsAreCharged, TenantsAreBudgeted,
     TenantsAreReported, TenantsAreListed, KeyTypeCorrect, RateTypeCorrect,
     AttributionTypeCorrect, BudgetTypeCorrect, ReportTypeCorrect, ListingTypeCorrect, PTL
=============================================================================
