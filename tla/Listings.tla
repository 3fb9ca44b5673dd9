------------------------------ MODULE Listings ------------------------------
(***************************************************************************)
(* The paginated listings: request logs, security violations, cache         *)
(* entries.  A client reads page after page while rows are inserted and     *)
(* cache entries deleted; each page is answered by a count and a select     *)
(* with OFFSET and LIMIT, in two statements.                                *)
(***************************************************************************)
EXTENDS Integers, FiniteSets

CONSTANTS
  Limit,       \* rows on a page
  MaxListed,   \* bound: rows there are at a time
  MaxPages     \* bound: pages a client turns

ASSUME ListingAssumption ==
  Limit \in Nat \ {0} /\ MaxListed \in Nat /\ MaxPages \in Nat \ {0}

VARIABLES
  listed,      \* rows: table and time of creation
  page,        \* the page being read, 0 before the first and after the last
  source,      \* what is listed
  step,        \* the statement the page is at
  items,       \* what it has found for the page
  total,       \* what it has counted
  owed         \* history: the rows there were when it began, and that the client
               \* has yet to be shown

listingVars == <<listed, page, source, step, items, total, owed>>

-----------------------------------------------------------------------------
Tables == {"log", "semantic", "faq"}

Sources == {"log", "semantic", "faq", "both"}

\* A listing of both kinds of cache entries names no source.
Listed(row, s) == IF s = "both" THEN row.table # "log" ELSE row.table = s

Of(table) == {row \in listed : row.table = table}

Offset(p) == (p - 1) * Limit

\* ORDER BY created_at DESC OFFSET offset LIMIT limit.
Select(table, offset, limit) ==
  {row \in Of(table) :
     LET newer == Cardinality({x \in Of(table) : x.time > row.time})
     IN  offset <= newer /\ newer < offset + limit}

\* Mutant: the last page is left off unless it is full.
PagesFull(n) == IF n > 0 THEN n \div Limit ELSE 1

Pages(n) == IF n > 0 THEN (n + Limit - 1) \div Limit ELSE 1

FirstStep(s) == CASE s = "log" -> "count"
                  [] s \in {"semantic", "both"} -> "semantic"
                  [] s = "faq" -> "faq"

ListingInit ==
  /\ listed = {} /\ page = 0 /\ source = "log" /\ step = "turn"
  /\ items = {} /\ total = 0 /\ owed = {}

BeginListing ==
  \E s \in Sources :
    /\ page = 0 /\ page' = 1 /\ source' = s /\ step' = FirstStep(s)
    /\ items' = {} /\ total' = 0
    /\ owed' = {row \in listed : Listed(row, s) /\ (s = "both" => row.table = "semantic")}
    /\ UNCHANGED listed

\* get_paginated_logs, list_security_violations: the count comes first.
CountRows ==
  /\ step = "count" /\ step' = "rows"
  /\ total' = Cardinality(Of("log"))
  /\ UNCHANGED <<listed, page, source, items, owed>>

SelectRows ==
  /\ step = "rows" /\ step' = "turn"
  /\ items' = Select("log", Offset(page), Limit)
  /\ UNCHANGED <<listed, page, source, total, owed>>

\* list_cache_entries: the embeddings of the page, then their count.
SelectEmbeddings ==
  /\ step = "semantic" /\ step' = "semantic count"
  /\ items' = Select("semantic", Offset(page), Limit)
  /\ UNCHANGED <<listed, page, source, total, owed>>

CountEmbeddings ==
  /\ step = "semantic count"
  /\ total' = Cardinality(Of("semantic"))
  /\ step' = IF source = "both" /\ Cardinality(items) < Limit THEN "faq" ELSE "turn"
  /\ UNCHANGED <<listed, page, source, items, owed>>

Rest(found) == Limit - Cardinality(found)

\* What is left of the page is filled with FAQs; if both are listed, with the
\* first FAQs on every page.
SelectFaqs ==
  /\ step = "faq" /\ step' = "faq count"
  /\ items' = items \cup Select("faq", IF source = "faq" THEN Offset(page) ELSE 0,
                                Rest(items))
  /\ UNCHANGED <<listed, page, source, total, owed>>

CountFaqs ==
  /\ step = "faq count" /\ step' = "turn"
  /\ total' = total + Cardinality(Of("faq"))
  /\ UNCHANGED <<listed, page, source, items, owed>>

\* The client has the page and asks for the next one if there is one.
TurnPage ==
  LET last == page >= Pages(total)
  IN  /\ page > 0 /\ step = "turn" /\ (last \/ page < MaxPages)
      /\ owed' = owed \ items
      /\ page' = IF last THEN 0 ELSE page + 1
      /\ step' = IF last THEN "turn" ELSE FirstStep(source)
      /\ items' = {} /\ total' = IF last THEN total ELSE 0
      /\ UNCHANGED <<listed, source>>

\* Rows may become visible in another order than their times.  Nothing is owed
\* any more if one does between the statements of the last page ...
InsertListed ==
  \E table \in Tables, time \in 1..MaxListed :
    /\ Cardinality(listed) < MaxListed
    /\ [table |-> table, time |-> time] \notin listed
    /\ listed' = listed \cup {[table |-> table, time |-> time]}
    /\ owed' = IF step = "rows" /\ page >= Pages(total) THEN {} ELSE owed
    /\ UNCHANGED <<page, source, step, items, total>>

\* ... or if one is deleted: cache entries and FAQs are, the log is not.
DeleteListed ==
  \E row \in listed :
    /\ row.table # "log"
    /\ listed' = listed \ {row} /\ owed' = {}
    /\ UNCHANGED <<page, source, step, items, total>>

ListingNext ==
  \/ BeginListing \/ CountRows \/ SelectRows \/ SelectEmbeddings \/ CountEmbeddings
  \/ SelectFaqs \/ CountFaqs \/ TurnPage \/ InsertListed \/ DeleteListed

-----------------------------------------------------------------------------
\* A page holds at most Limit rows, each of what is listed.
ListingTypeOK ==
  /\ listed \subseteq [table : Tables, time : 1..MaxListed]
  /\ page \in 0..MaxPages /\ source \in Sources
  /\ Cardinality(items) <= Limit
  /\ \A row \in items \cup owed : Listed(row, source)

\* A client that has read the last page was shown every row there was when it
\* began, unless rows were deleted meanwhile or one was inserted between the
\* count and the select of its last page.  Of a listing of both kinds of cache
\* entries that holds for the embeddings only.
PagesMissNothing == page = 0 => owed = {}
=============================================================================
