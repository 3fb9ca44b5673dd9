----------------------------- MODULE RouteStore -----------------------------
(***************************************************************************)
(* The routing rules of one organisation: administrators create, change,    *)
(* delete and reorder them while requests read them through a Redis copy    *)
(* with a TTL of 300 seconds.  Editors delete the copy before they commit;  *)
(* a reorder sends the priority of one rule with the SELECT of the next and *)
(* holds the rows it has written until it commits.                          *)
(***************************************************************************)
EXTENDS Integers, Sequences, FiniteSets

CONSTANTS
  Rules,        \* ids of rules
  Bodies,       \* what rules say: conditions and a target
  Priorities,
  NewRules,     \* payloads of POST /rules: a priority and a body
  Patches,      \* payloads of PATCH /rules/{id}: some columns and their values
  Reorders,     \* payloads of POST /rules/reorder: rules, each once, with priorities
  Routed,       \* requests to route, each once
  RuleEditors,  \* requests that edit the rules, each once
  MaxRuleBusy,  \* bound: how many handlers run at the same time
  CopyFails     \* may a call to Redis fail?

ASSUME RouteAssumption ==
  /\ Priorities \subseteq Int
  /\ NewRules \subseteq [priority : Priorities, body : Bodies]
  /\ MaxRuleBusy \in Nat /\ CopyFails \in BOOLEAN

\* What RoutingRuleUpdate lets each column be.
RuleColumn == [priority |-> Priorities, active |-> BOOLEAN, body |-> Bodies]

ASSUME RuleEditAssumption ==
  /\ \A patch \in Patches : DOMAIN patch \subseteq DOMAIN RuleColumn
                          /\ \A c \in DOMAIN patch : patch[c] \in RuleColumn[c]
  /\ Reorders \subseteq Seq([id : Rules, columns : [priority : Priorities]])
  /\ \A items \in Reorders : \A i, j \in DOMAIN items :
       items[i].id = items[j].id => i = j

VARIABLES
  table,    \* routing_rules rows
  kept,     \* the live Redis copy, as a set of at most one list
  route,    \* each request: where it is and the list it goes by
  job,      \* each editor: where it is, what it has to do and has done
  tables,   \* history: every state of the table
  smooth    \* history: no handlers overlapped and no call to Redis failed

routeVars == <<table, kept, route, job, tables, smooth>>

RuleRow == [id : Rules, priority : Priorities, active : BOOLEAN, body : Bodies]

Routing == {r \in Routed : route[r].at \notin {"new", "done"}}

Ruling == {a \in RuleEditors : job[a].at \notin {"new", "done", "failed"}}

CanRoute == Cardinality(Routing) + Cardinality(Ruling) < MaxRuleBusy

Begins == smooth' = (smooth /\ Routing \cup Ruling = {})

\* The active rules by priority; the order of equal priorities is the database's.
Orders(rows) ==
  LET active == {row \in rows : row.active}
      sorted == {s \in [1 .. Cardinality(active) -> active] :
                   \A i, j \in DOMAIN s : i < j =>
                     s[i] # s[j] /\ s[i].priority <= s[j].priority}
  IN  {[i \in DOMAIN s |-> s[i].body] : s \in sorted}

-----------------------------------------------------------------------------
RouteInit ==
  /\ table \in SUBSET {row \in RuleRow : row.active}
  /\ \A x, y \in table :
       x.id = y.id \/ x.priority = y.priority \/ x.body = y.body => x = y
  /\ kept = {}
  /\ route = [r \in Routed |-> [at |-> "new", rules |-> <<>>]]
  /\ job = [a \in RuleEditors |-> [at |-> "new", kind |-> "none", todo |-> <<>>,
                                   pending |-> {}, sent |-> {}]]
  /\ tables = {table}
  /\ smooth = TRUE

RoutesTo(r, at, rules) == route' = [route EXCEPT ![r] = [at |-> at, rules |-> rules]]

\* SmartRouter.route, redis.get.
RulesHit(r) ==
  /\ route[r].at = "new" /\ CanRoute
  /\ \E list \in kept : RoutesTo(r, "done", list)
  /\ Begins
  /\ UNCHANGED <<table, kept, job, tables>>

RulesMiss(r) ==
  /\ route[r].at = "new" /\ CanRoute
  /\ kept = {} \/ CopyFails
  /\ RoutesTo(r, "select", <<>>)
  /\ smooth' = (smooth /\ Routing \cup Ruling = {} /\ kept = {})
  /\ UNCHANGED <<table, kept, job, tables>>

SelectRules(r) ==
  /\ route[r].at = "select"
  /\ \E list \in Orders(table) : RoutesTo(r, "cache", list)
  /\ UNCHANGED <<table, kept, job, tables, smooth>>

\* setex(key, 300, rules): an empty list is cached as well.
CacheRules(r) ==
  /\ route[r].at = "cache"
  /\ kept' = {route[r].rules} \/ (CopyFails /\ kept' = kept)
  /\ smooth' = (smooth /\ kept' = {route[r].rules})
  /\ RoutesTo(r, "done", route[r].rules)
  /\ UNCHANGED <<table, job, tables>>

-----------------------------------------------------------------------------
\* What an item of a request asks of a rule: columns and their values.
Write(rule, columns) == [id |-> rule, columns |-> columns]

Starts(a, at, kind, todo) ==
  /\ job[a].at = "new" /\ CanRoute
  /\ job' = [job EXCEPT ![a] = [at |-> at, kind |-> kind, todo |-> todo,
                                pending |-> {}, sent |-> {}]]
  /\ Begins
  /\ UNCHANGED <<table, kept, route, tables>>

\* Bound: a behaviour creates at most one rule.
BeginCreate(a) ==
  \E r \in {x \in Rules : \A row \in table : row.id # x}, new \in NewRules :
    /\ \A b \in RuleEditors : job[b].kind # "create"
    /\ Starts(a, "delete", "create", <<Write(r, new)>>)

\* update_routing_rule selects the rule (404 if there is none) first.
BeginUpdate(a) ==
  \E r \in Rules, patch \in Patches : Starts(a, "select", "update", <<Write(r, patch)>>)

BeginDelete(a) ==
  \E r \in Rules : Starts(a, "select", "delete", <<Write(r, [gone |-> TRUE])>>)

BeginReorder(a) == \E items \in Reorders : Starts(a, "delete", "reorder", items)

Proceeds(a, o) == job' = [job EXCEPT ![a] = o]

Ends(a, how) == Proceeds(a, [job[a] EXCEPT !.at = how, !.todo = <<>>,
                                           !.pending = {}, !.sent = {}])

\* All four delete the copy before they change a row, a failure swallowed.
DropCopy(a) ==
  /\ job[a].at = "delete"
  /\ kept' = {} \/ (CopyFails /\ kept' = kept)
  /\ smooth' = (smooth /\ kept' = {})
  /\ Proceeds(a, [job[a] EXCEPT !.at =
                    IF job[a].kind = "reorder" /\ job[a].todo # <<>>
                    THEN "select" ELSE "commit"])
  /\ UNCHANGED <<table, route, tables>>

\* The columns that differ from the row as it was loaded.
Changes(row, columns) ==
  {c \in DOMAIN columns : c = "gone" \/ row[c] # columns[c]}

\* Rows another transaction has written and not committed are locked.
Locked(a) ==
  {b \in RuleEditors \ {a} :
     \E w \in job[a].pending, v \in job[b].sent : w.id = v.id}

\* The pending UPDATE finds its row.
CanSend(a) == \A w \in job[a].pending : \E row \in table : row.id = w.id

\* The next item: what is pending is sent with the SELECT of its rule.
SelectRule(a) ==
  /\ job[a].at = "select" /\ Locked(a) = {} /\ CanSend(a)
  /\ LET item == Head(job[a].todo)
         found == {row \in table : row.id = item.id}
         rest == Tail(job[a].todo)
     IN  IF found = {} /\ job[a].kind # "reorder"
         THEN Ends(a, "failed")
         ELSE Proceeds(a,
                [job[a] EXCEPT
                   !.at = IF job[a].kind # "reorder" THEN "delete"
                          ELSE IF rest = <<>> THEN "commit" ELSE "select",
                   !.todo = rest,
                   !.pending = {w \in {item} : \E row \in found :
                                                 Changes(row, w.columns) # {}},
                   !.sent = @ \cup job[a].pending])
  /\ UNCHANGED <<table, kept, route, tables, smooth>>

After(row, writes) ==
  LET Of(c) == {w \in writes : w.id = row.id /\ c \in DOMAIN w.columns}
      Value(c, old) == IF Of(c) = {} THEN old ELSE (CHOOSE w \in Of(c) : TRUE).columns[c]
  IN  [row EXCEPT !.priority = Value("priority", @), !.active = Value("active", @),
                  !.body = Value("body", @)]

\* Mutant: the changed row is added to the old one.
WrittenBeside(rows, writes) == rows \cup {After(row, writes) : row \in rows}

\* The rows after the UPDATEs, and without the deleted ones.
WrittenTo(rows, writes) ==
  {After(row, writes) :
     row \in {x \in rows : [id |-> x.id, columns |-> [gone |-> TRUE]] \notin writes}}

\* Mutant: each row is committed by itself.
CommitSingly(a) ==
  /\ job[a].at = "commit" /\ job[a].kind # "create" /\ Locked(a) = {} /\ CanSend(a)
  /\ \E w \in job[a].sent \cup job[a].pending :
       /\ table' = WrittenTo(table, {w})
       /\ IF job[a].sent \cup job[a].pending = {w}
          THEN Ends(a, "done") /\ tables' = tables \cup {table'}
          ELSE /\ Proceeds(a, [job[a] EXCEPT !.pending = {},
                             !.sent = (job[a].sent \cup job[a].pending) \ {w}])
               /\ UNCHANGED tables
  /\ UNCHANGED <<kept, route, smooth>>

\* The commit makes everything the request wrote visible at once.
CommitRules(a) ==
  /\ job[a].at = "commit" /\ job[a].kind # "create" /\ Locked(a) = {} /\ CanSend(a)
  /\ LET writes == job[a].sent \cup job[a].pending
     IN  table' = IF writes = {} THEN table ELSE WrittenTo(table, writes)
  /\ tables' = tables \cup {table'}
  /\ Ends(a, "done")
  /\ UNCHANGED <<kept, route, smooth>>

InsertRule(a) ==
  /\ job[a].at = "commit" /\ job[a].kind = "create"
  /\ LET new == Head(job[a].todo)
     IN  table' = table \cup {[id |-> new.id, priority |-> new.columns.priority,
                               active |-> TRUE, body |-> new.columns.body]}
  /\ tables' = tables \cup {table'}
  /\ Ends(a, "done")
  /\ UNCHANGED <<kept, route, smooth>>

\* The row is gone: an UPDATE of no row raises, a DELETE of none does not.
SendFails(a) ==
  /\ job[a].at \in {"select", "commit"} /\ Locked(a) = {} /\ ~CanSend(a)
  /\ Ends(a, IF job[a].kind = "delete" THEN "done" ELSE "failed")
  /\ UNCHANGED <<table, kept, route, tables, smooth>>

\* Two reorders wait for each other's rows: the database aborts one.
Deadlock(a) ==
  /\ job[a].at \in {"select", "commit"}
  /\ \E b \in Locked(a) : a \in Locked(b)
  /\ Ends(a, "failed")
  /\ UNCHANGED <<table, kept, route, tables, smooth>>

\* Mutant: SET without a TTL.
ExpireNever == FALSE

\* The 300 seconds of the copy are over.
ExpireRules ==
  /\ kept # {}
  /\ kept' = {}
  /\ UNCHANGED <<table, route, job, tables, smooth>>

-----------------------------------------------------------------------------
HandleRoute(r) == SelectRules(r) \/ CacheRules(r)

HandleRules(a) ==
  \/ DropCopy(a) \/ SelectRule(a) \/ CommitRules(a) \/ InsertRule(a)
  \/ SendFails(a) \/ Deadlock(a)

RouteNext ==
  \/ \E r \in Routed : RulesHit(r) \/ RulesMiss(r) \/ HandleRoute(r)
  \/ \E a \in RuleEditors :
       BeginCreate(a) \/ BeginUpdate(a) \/ BeginDelete(a) \/ BeginReorder(a) \/ HandleRules(a)
  \/ ExpireRules

RouteSpec == RouteInit /\ [][RouteNext]_routeVars

\* Awaited calls return and Redis expires the copy.
RouteFairness ==
  /\ \A r \in Routed : WF_routeVars(HandleRoute(r))
  /\ \A a \in RuleEditors : WF_routeVars(HandleRules(a))
  /\ WF_routeVars(ExpireRules)

-----------------------------------------------------------------------------
\* Rules keep their ids and types, and handlers their stages.
RouteTypeOK ==
  /\ table \subseteq RuleRow
  /\ \A x, y \in table : x.id = y.id => x = y
  /\ Cardinality(kept) <= 1
  /\ \A r \in Routed : route[r].at \in {"new", "select", "cache", "done"}
  /\ \A a \in RuleEditors :
       job[a].at \in {"new", "delete", "select", "commit", "done", "failed"}
  /\ smooth \in BOOLEAN

\* Every request goes by the rules as they were after some commit: never by
\* half of a reorder, whatever overlapped and wherever the copy came from.
NoHalfReorder ==
  \A r \in Routed : route[r].at = "done" =>
    \E rows \in tables : route[r].rules \in Orders(rows)

\* Between handlers that did not overlap or fail, the copy is the table.
CopyFollowsRules ==
  smooth /\ Routing \cup Ruling = {} => kept \subseteq Orders(table)

\* Requests go by whole committed sets of rules, and by the last one when edits
\* and requests do not overlap.
RoutesByRules == NoHalfReorder /\ CopyFollowsRules

\* Whatever raced, the copy settles on the table once the edits are over.
RulesSettle ==
  (<>[](Ruling = {})) => <>[](kept \subseteq Orders(table))
=============================================================================
