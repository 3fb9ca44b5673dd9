----------------------------- MODULE Detectors -----------------------------
(***************************************************************************)
(* The three detectors of a prompt's text, from their matches on: which     *)
(* spans of personal data are kept and hidden, and how severe each finding  *)
(* is.  What a regular expression or the language model matches is part of  *)
(* the text.                                                                *)
(***************************************************************************)
EXTENDS Integers, Sequences, FiniteSets, Folds, SequencesExt

\* A match: the positions from start up to end, and what it is taken for.
Span == {s \in [start : Nat, end : Nat, type : STRING] : s.start <= s.end}

\* A text: its length, the spans Presidio finds, the spans each custom pattern
\* would match, its lines and the ones that look like code, whether one of
\* them drops, deletes or truncates, the words found per category as pairs of
\* different words and matches, and whether it is marked confidential.
Spans(text, custom) ==
  text.spans \cup
    UNION {{[s EXCEPT !.type = name] : s \in text.matches[name]} : name \in custom}

-----------------------------------------------------------------------------
\* Mutant: of one start, the shortest first.
PrecedesShort(a, b) ==
  a.start < b.start \/ (a.start = b.start /\ a.end < b.end)

\* By start, the longest of one start first.
Precedes(a, b) ==
  a.start < b.start \/ (a.start = b.start /\ a.end > b.end)

\* A span is kept when it starts at or after the end of the last kept one.
Keep(kept, span) ==
  IF kept = <<>> \/ span.start >= Last(kept).end THEN Append(kept, span) ELSE kept

\* The spans as they are sorted.  Two with the same start and end stay as they
\* were found: a text with such a pair is not given to TLC, and what is proved
\* holds in either order.
Sorted(found) ==
  CHOOSE q \in Bijection(1 .. Cardinality(found), found) :
    \A i, j \in DOMAIN q : i < j => ~Precedes(q[j], q[i])

\* _resolve_overlaps.
Kept(text, custom) ==
  LET found == Sorted(Spans(text, custom))
      kept[i \in 0 .. Len(found)] ==
        IF i = 0 THEN <<>> ELSE Keep(kept[i - 1], found[i])
  IN  kept[Len(found)]

\* _redact_text replaces the characters of the kept spans: these stay.
Shown(text, custom) ==
  LET kept == Kept(text, custom)
      Hidden == UNION {kept[k].start .. kept[k].end - 1 : k \in DOMAIN kept}
  IN  (0 .. text.length - 1) \ Hidden

Critical == {"PRIVATE_KEY", "AWS_KEY", "GENERIC_KEY", "AADHAAR", "IN_AADHAAR",
             "PAN", "IN_PAN", "CREDIT_CARD", "US_SSN"}

Medium == {"EMAIL", "EMAIL_ADDRESS", "PHONE_NUMBER", "IP_ADDRESS", "UPI_ID", "IFSC"}

\* The highest severity of a kept span; a custom pattern is low.
PiiSeverity(text, custom) ==
  LET kept == Kept(text, custom)
      types == {kept[k].type : k \in DOMAIN kept}
  IN  CASE types = {} -> "none"
        [] types \cap Critical # {} -> "critical"
        [] types \cap Critical = {} /\ types \cap Medium # {} -> "medium"
        [] OTHER -> "low"

-----------------------------------------------------------------------------
\* The share of lines that look like code: over 30, or from 10 percent on.
CodeSeverity(text) ==
  CASE text.code = 0 -> "none"
    [] text.code > 0 /\ (text.dangerous \/ 10 * text.code > 3 * text.lines) -> "high"
    [] text.code > 0 /\ ~text.dangerous /\ 10 * text.code \in text.lines .. 3 * text.lines ->
         "medium"
    [] OTHER -> "low"

-----------------------------------------------------------------------------
AtMost(limit, n) == IF n < limit THEN n ELSE limit

AtLeast(limit, n) == IF n > limit THEN n ELSE limit

\* In hundredths, from the different words and the matches of a category.
Confidence(category, words, boost) ==
  IF category = "auth_credentials"
  THEN AtLeast(80, AtMost(100, 30 * words[1] + 5 * words[2]))
  ELSE AtMost(100, AtMost(100, 25 * words[1] + 5 * words[2])
                     + (IF boost THEN 10 ELSE 0))

Rank(category, confidence) ==
  CASE category = "auth_credentials" -> 4
    [] category # "auth_credentials" /\ confidence >= 70 -> 3
    [] category # "auth_credentials" /\ confidence \in 30 .. 69 -> 2
    [] OTHER -> 1

\* The categories with a word in the text; a custom pattern ranks 3.
Ranks(text, custom) ==
  {Rank(c, Confidence(c, text.words[c], text.boost)) :
     c \in {d \in DOMAIN text.words : text.words[d][1] > 0}}
  \cup (IF \E name \in custom : text.matches[name] # {} THEN {3} ELSE {})

SensitiveSeverity(text, custom) ==
  IF Ranks(text, custom) = {} THEN "none"
  ELSE <<"low", "medium", "high", "critical">>[
         CHOOSE r \in Ranks(text, custom) : \A s \in Ranks(text, custom) : s <= r]

\* What PolicyEngine.evaluate gathers from the three.
FindingsOf(text, custom) ==
  [pii |-> PiiSeverity(text, custom), code |-> CodeSeverity(text),
   sensitive |-> SensitiveSeverity(text, custom)]
=============================================================================
