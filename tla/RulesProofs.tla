----------------------------- MODULE RulesProofs -----------------------------
(***************************************************************************)
(* Theorems about the rules the components decide by, which keep no state:  *)
(* the comparisons of a budget, the verdict of a security policy, the chain *)
(* of targets of a routed request, the spans of a text that are hidden.     *)
(* They hold for all inputs.                                                *)
(***************************************************************************)
EXTENDS BudgetRules, PolicyRules, RouteRules, Detectors, FiniteSetTheorems, TLAPS

-----------------------------------------------------------------------------
(* Budgets. *)

\* The dashboard shows "exceeded" exactly where the gate answers 429, and "ok"
\* exactly where check_budget warns of nothing, for the same row and spend.
THEOREM DashboardAgreesWithGate ==
  ASSUME NEW row \in BudgetRow, NEW spend \in Nat
  PROVE  /\ Status(row, spend) = "exceeded" <=> HardBlocked(row, spend)
         /\ Status(row, spend) = "ok" <=> ~Warned(row, spend)
<1>1. row.limit \in Nat /\ row.alertPct \in Nat /\ row.hard \in BOOLEAN
  BY DEF BudgetRow
<1>2. 100 * spend >= 100 * row.limit <=> spend >= row.limit
  BY <1>1
<1>3. row.alertPct * row.limit = row.limit * row.alertPct
  BY <1>1
<1>4. CASE spend >= row.limit
  BY <1>1, <1>2, <1>4 DEF Status, HardBlocked, Warned
<1>5. CASE ~(spend >= row.limit)
  BY <1>1, <1>2, <1>3, <1>5 DEF Status, HardBlocked, Warned
<1> QED BY <1>4, <1>5

-----------------------------------------------------------------------------
(* The verdict of a policy. *)

Strictness == [allow |-> 0, warn |-> 1, redact |-> 2, block |-> 3]

\* Combining a finding never makes the verdict more lenient.
LEMMA CombineIsStricter ==
  ASSUME NEW a \in PiiActions, NEW b \in PiiActions
  PROVE  /\ Combine(a, b) \in {a, b}
         /\ Strictness[a] <= Strictness[Combine(a, b)]
         /\ Strictness[b] <= Strictness[Combine(a, b)]
<1>1. CASE b = "block"
  BY <1>1 DEF PiiActions, Combine, Strictness
<1>2. CASE b = "redact"
  BY <1>2 DEF PiiActions, Combine, Strictness
<1>3. CASE b = "warn"
  BY <1>3 DEF PiiActions, Combine, Strictness
<1>4. CASE b = "allow"
  BY <1>4 DEF PiiActions, Combine, Strictness
<1>. QED
  BY <1>1, <1>2, <1>3, <1>4 DEF PiiActions

\* A policy, and any row that has its three actions among other columns.
Decides(policy) ==
  /\ policy.pii \in PiiActions
  /\ policy.code \in PolicyActions
  /\ policy.sensitive \in PolicyActions

\* The action taken for a finding is one of the policy actions.
LEMMA ActIsAction ==
  ASSUME NEW policy, Decides(policy), NEW findings, NEW resides, NEW kind \in Kinds
  PROVE  Act(kind, policy, findings, resides) \in PiiActions
BY DEF Act, Kinds, Decides, PiiActions, PolicyActions

\* What evaluate decides is what one of its checks asked for, and no check
\* asked for anything stricter.
THEOREM StrictestDecides ==
  ASSUME NEW policy, Decides(policy), NEW findings, NEW resides
  PROVE  LET decided == Decide(policy, findings, resides)
         IN  /\ \E kind \in Kinds : decided = Act(kind, policy, findings, resides)
             /\ \A kind \in Kinds :
                  Strictness[Act(kind, policy, findings, resides)] <= Strictness[decided]
<1>. DEFINE A(kind) == Act(kind, policy, findings, resides)
            a == A("data_residency")
            b == Combine(a, A("pii"))
            c == Combine(b, A("source_code"))
            d == Combine(c, A("sensitive_content"))
<1>1. A("data_residency") \in PiiActions /\ A("pii") \in PiiActions
      /\ A("source_code") \in PiiActions /\ A("sensitive_content") \in PiiActions
  BY ActIsAction DEF Kinds
<1>. HIDE DEF A
<1>2. b \in {a, A("pii")} /\ Strictness[a] <= Strictness[b]
      /\ Strictness[A("pii")] <= Strictness[b]
  BY <1>1, CombineIsStricter
<1>. HIDE DEF b
<1>3. b \in PiiActions
  BY <1>1, <1>2
<1>4. c \in {b, A("source_code")} /\ Strictness[b] <= Strictness[c]
      /\ Strictness[A("source_code")] <= Strictness[c]
  BY <1>1, <1>3, CombineIsStricter
<1>. HIDE DEF c
<1>5. c \in PiiActions
  BY <1>1, <1>3, <1>4
<1>6. d \in {c, A("sensitive_content")} /\ Strictness[c] <= Strictness[d]
      /\ Strictness[A("sensitive_content")] <= Strictness[d]
  BY <1>1, <1>5, CombineIsStricter
<1>7. Decide(policy, findings, resides) = d
  BY DEF Decide, A, b, c
<1>. HIDE DEF d
<1>8. \A x \in PiiActions : Strictness[x] \in Int
  BY DEF PiiActions, Strictness
<1>9. d \in PiiActions
  BY <1>1, <1>5, <1>6
<1>10. \E kind \in Kinds : d = A(kind)
  BY <1>2, <1>4, <1>6 DEF Kinds
<1>11. \A kind \in Kinds : Strictness[A(kind)] <= Strictness[d]
  BY <1>1, <1>2, <1>3, <1>4, <1>5, <1>6, <1>8, <1>9 DEF Kinds
<1>. QED
  BY <1>7, <1>10, <1>11 DEF A

\* A finding that cannot ask for redaction does not bring it about.
LEMMA OnlyPiiRedacts ==
  ASSUME NEW sofar, NEW act \in PolicyActions, Combine(sofar, act) = "redact"
  PROVE  sofar = "redact"
BY DEF Combine, PolicyActions

\* A verdict of "redact" comes with the redacted text.
LEMMA RedactionIsDone ==
  ASSUME NEW policy, Decides(policy), NEW origin, NEW provider, NEW findings,
         Evaluate(policy, origin, provider, findings).action = "redact"
  PROVE  Evaluate(policy, origin, provider, findings).redacted = TRUE
<1>. DEFINE resides == Resides(policy, origin, provider)
<1>1. resides \in BOOLEAN
  BY DEF Resides
<1>2. policy.active /\ Decide(policy, findings, resides) = "redact"
  BY DEF Evaluate
<1>. HIDE DEF resides
<1>. DEFINE A(kind) == Act(kind, policy, findings, resides)
<1>3. A("data_residency") = "block" <=> ~resides
  BY <1>1 DEF Act
<1>4. A("data_residency") \in {"allow", "block"} /\ A("pii") \in PiiActions
      /\ A("source_code") \in PolicyActions /\ A("sensitive_content") \in PolicyActions
  BY DEF Act, Decides, PiiActions, PolicyActions
<1>. HIDE DEF A
<1>5. A("data_residency") # "block" /\ A("pii") = "redact"
  <2>. DEFINE b == Combine(A("data_residency"), A("pii"))
              c == Combine(b, A("source_code"))
  <2>1. Combine(c, A("sensitive_content")) = "redact"
    BY <1>2 DEF Decide, A
  <2>2. c = "redact"
    BY <1>4, <2>1, OnlyPiiRedacts
  <2>3. b = "redact"
    BY <1>4, <2>2, OnlyPiiRedacts
  <2>4. A("data_residency") # "redact"
    BY <1>4
  <2>. QED
    BY <1>4, <2>3, <2>4 DEF Combine, PiiActions
<1>. USE DEF A
<1>6. Redacts(policy, findings, resides) = TRUE
  BY <1>3, <1>5 DEF Redacts
<1>. HIDE DEF A
<1>. QED
  BY <1>2, <1>6 DEF Evaluate, resides

-----------------------------------------------------------------------------
(* The chain of targets. *)

NoRepeats(s) == \A i, j \in DOMAIN s : s[i] = s[j] => i = j

\* Chains of one, three and four different targets have no repeats.
LEMMA ThreeOrFour ==
  ASSUME NEW t, NEW x, NEW y, NEW z, t # x, t # y, x # y
  PROVE  /\ NoRepeats(<<t>>) /\ NoRepeats(<<t>> \o <<x, y>> \o <<>>)
         /\ z \notin {t, x, y} => NoRepeats(<<t>> \o <<x, y>> \o <<z>>)
<1>1. NoRepeats(<<t>>)
  BY DEF NoRepeats
<1>2. NoRepeats(<<t>> \o <<x, y>> \o <<>>)
  <2>1. PICK s : s = <<t>> \o <<x, y>> \o <<>>
    OBVIOUS
  <2>2. DOMAIN s = 1..3 /\ s[1] = t /\ s[2] = x /\ s[3] = y
    BY <2>1
  <2>. QED
    BY <2>1, <2>2 DEF NoRepeats
<1>3. z \notin {t, x, y} => NoRepeats(<<t>> \o <<x, y>> \o <<z>>)
  <2>1. PICK s : s = <<t>> \o <<x, y>> \o <<z>>
    OBVIOUS
  <2>2. DOMAIN s = 1..4 /\ s[1] = t /\ s[2] = x /\ s[3] = y /\ s[4] = z
    BY <2>1
  <2>. QED
    BY <2>1, <2>2 DEF NoRepeats
<1>. QED
  BY <1>1, <1>2, <1>3

\* A target has two fallbacks, which differ from it and from each other.
LEMMA TwoFallbacks ==
  ASSUME NEW t
  PROVE  \E x, y : /\ Fallbacks(t) = <<x, y>> /\ t # x /\ t # y /\ x # y
<1>. USE DEF Fallbacks, Haiku, Sonnet, Opus, Gpt4o, Gpt4oMini, Gpt4Turbo, Flash, GeminiPro
<1>1. CASE t = Haiku
  BY <1>1
<1>2. CASE t = Sonnet
  BY <1>2
<1>3. CASE t[1] = "anthropic" /\ t \notin {Haiku, Sonnet}
  <2>1. Fallbacks(t) = <<Gpt4o, Gpt4Turbo>>
    BY <1>3
  <2>. QED
    BY <1>3, <2>1
<1>4. CASE t = Gpt4oMini
  BY <1>4
<1>5. CASE t = Gpt4o
  BY <1>5
<1>6. CASE t[1] = "openai" /\ t \notin {Gpt4oMini, Gpt4o}
  <2>1. Fallbacks(t) = <<Gpt4o, Sonnet>>
    BY <1>6
  <2>. QED
    BY <1>6, <2>1
<1>7. CASE t = Flash
  BY <1>7
<1>8. CASE t[1] = "gemini" /\ t # Flash
  <2>1. Fallbacks(t) = <<Gpt4o, Opus>>
    BY <1>8
  <2>. QED
    BY <1>8, <2>1
<1>9. CASE t[1] \notin {"anthropic", "openai", "gemini"}
  <2>1. Fallbacks(t) = <<Gpt4oMini, Gpt4o>>
    BY <1>9
  <2>. QED
    BY <1>9, <2>1
<1>. QED
  BY <1>1, <1>2, <1>3, <1>4, <1>5, <1>6, <1>7, <1>8, <1>9

\* The chain of SmartRouter, whatever the rules route to.
LEMMA ChainRepeatsNothing ==
  ASSUME NEW t, NEW active
  PROVE  NoRepeats(Chain(t, active))
<1>1. PICK x, y : Fallbacks(t) = <<x, y>> /\ t # x /\ t # y /\ x # y
  BY TwoFallbacks
<1>2. CASE LastResort(t, active) = <<>>
  <2>1. Chain(t, active) = <<t>> \o <<x, y>> \o <<>>
    BY <1>1, <1>2 DEF Chain
  <2>. QED
    BY <1>1, <2>1, ThreeOrFour
<1>3. CASE LastResort(t, active) # <<>>
  <2>1. PICK z : LastResort(t, active) = <<z>> /\ z[1] # t[1]
    BY <1>3 DEF LastResort, Gpt4o, Sonnet
  <2>2. CASE z \in {x, y}
    <3>1. Occurs(z, <<x, y>>)
      BY <2>2 DEF Occurs
    <3>2. Chain(t, active) = <<t>> \o <<x, y>> \o <<>>
      BY <1>1, <2>1, <3>1 DEF Chain
    <3>. QED
      BY <1>1, <3>2, ThreeOrFour
  <2>3. CASE z \notin {x, y}
    <3>1. ~Occurs(z, <<x, y>>)
      BY <2>3 DEF Occurs
    <3>2. Chain(t, active) = <<t>> \o <<x, y>> \o <<z>>
      BY <1>1, <2>1, <3>1 DEF Chain
    <3>3. z \notin {t, x, y}
      BY <2>1, <2>3
    <3>. QED
      BY <1>1, <3>2, <3>3, ThreeOrFour
  <2>. QED
    BY <2>2, <2>3
<1>. QED
  BY <1>2, <1>3

-----------------------------------------------------------------------------
(* The spans of a text that redaction hides. *)

\* A non-empty set of natural numbers has a least one.
LEMMA LeastNatural ==
  ASSUME NEW T, T \subseteq Nat, T # {}
  PROVE  \E n \in T : \A m \in T : n <= m
<1>1. \E n \in T : \A m \in T : ~ (<<m, n>> \in OpToRel(<, Nat))
  BY NatLessThanWellFounded, WFMin, Zenon
<1>2. PICK n \in T : \A m \in T : ~ (<<m, n>> \in OpToRel(<, Nat))
  BY <1>1
<1>3. ASSUME NEW m \in T PROVE n <= m
  <2>1. <<m, n>> \notin OpToRel(<, Nat)
    BY <1>2
  <2>2. ~ (m < n)
    BY <2>1 DEF OpToRel
  <2> QED BY <2>2
<1> QED BY <1>3

\* The enumerations Sorted chooses from.
Sortings(found, n) ==
  {q \in Bijection(1 .. n, found) :
     \A i, j \in DOMAIN q : i < j => ~Precedes(q[j], q[i])}

\* A span takes its place in the order of the others: before the first it precedes.
LEMMA PlaceInOrder ==
  ASSUME NEW found, found \subseteq Span, NEW n \in Nat, NEW x \in Span \ found,
         NEW q \in Sortings(found, n)
  PROVE  \E h : h \in Sortings(found \cup {x}, n + 1)
<1>1. /\ q \in [1..n -> found]
      /\ \A i, j \in 1..n : q[i] = q[j] => i = j
      /\ \A s \in found : \E i \in 1..n : q[i] = s
      /\ \A i, j \in 1..n : i < j => ~Precedes(q[j], q[i])
  BY DEF Sortings, Bijection, Injection, Surjection, IsInjective
<1>. DEFINE After == {i \in 1..(n + 1) : i = n + 1 \/ Precedes(x, q[i])}
<1>2. PICK p \in After : \A i \in After : p <= i
  <2>1. After \subseteq Nat /\ n + 1 \in After
    OBVIOUS
  <2> QED BY <2>1, LeastNatural
<1>3. /\ p \in 1..(n + 1) /\ (p = n + 1 \/ Precedes(x, q[p]))
      /\ \A i \in 1..n : i < p => ~Precedes(x, q[i])
  BY <1>2
<1>. HIDE DEF After
<1>. DEFINE h == [i \in 1..(n + 1) |->
                    IF i < p THEN q[i] ELSE IF i = p THEN x ELSE q[i - 1]]
<1>4. /\ \A i \in 1..(n + 1) : i < p => i \in 1..n /\ h[i] = q[i]
      /\ h[p] = x
      /\ \A i \in 1..(n + 1) : i > p => i - 1 \in 1..n /\ h[i] = q[i - 1]
  BY <1>3
<1>5. h \in [1..(n + 1) -> found \cup {x}]
  BY <1>1, <1>3
<1>6. ASSUME NEW i \in 1..(n + 1), NEW j \in 1..(n + 1), i < j
      PROVE  h[i] # h[j]
  BY <1>1, <1>3, <1>4, <1>6
<1>7. ASSUME NEW s \in found \cup {x} PROVE \E i \in 1..(n + 1) : h[i] = s
  <2>1. CASE s = x
    BY <1>3, <1>4, <2>1
  <2>2. CASE s \in found
    <3>1. PICK i \in 1..n : q[i] = s
      BY <1>1, <2>2
    <3>2. CASE i < p
      BY <1>3, <1>4, <3>1, <3>2
    <3>3. CASE ~(i < p)
      <4>1. i + 1 \in 1..(n + 1) /\ i + 1 > p /\ (i + 1) - 1 = i
        BY <1>3, <3>3
      <4> QED BY <1>4, <3>1, <4>1
    <3> QED BY <3>2, <3>3
  <2> QED BY <2>1, <2>2
<1>8. ASSUME NEW i \in 1..(n + 1), NEW j \in 1..(n + 1), i < j
      PROVE  ~Precedes(h[j], h[i])
  <2>1. \A k \in 1..n : q[k] \in Span
    BY <1>1
  <2>2. CASE j < p
    BY <1>1, <1>3, <1>4, <1>8, <2>2
  <2>3. CASE j = p
    BY <1>3, <1>4, <1>8, <2>3
  <2>4. CASE j > p /\ i < p
    BY <1>1, <1>3, <1>4, <1>8, <2>4
  <2>5. CASE j > p /\ i > p
    BY <1>1, <1>3, <1>4, <1>8, <2>5
  <2>6. CASE j > p /\ i = p
    <3>1. p \in 1..n /\ j - 1 \in 1..n /\ p <= j - 1 /\ Precedes(x, q[p])
      BY <1>3, <2>6
    <3>2. q[p] = q[j - 1] \/ ~Precedes(q[j - 1], q[p])
      BY <1>1, <3>1
    <3>3. ~Precedes(q[j - 1], x)
      BY <2>1, <3>1, <3>2 DEF Precedes, Span
    <3> QED BY <1>4, <2>6, <3>3
  <2> QED BY <1>3, <2>2, <2>3, <2>4, <2>5, <2>6
<1>9. h \in Bijection(1..(n + 1), found \cup {x})
  <2>1. \A i, j \in 1..(n + 1) : h[i] = h[j] => i = j
    BY <1>6
  <2> HIDE DEF h
  <2>2. h \in Injection(1..(n + 1), found \cup {x})
    BY <1>5, <2>1 DEF Injection, IsInjective
  <2>3. h \in Surjection(1..(n + 1), found \cup {x})
    BY <1>5, <1>7 DEF Surjection
  <2> QED BY <2>2, <2>3 DEF Bijection
<1>10. \A i, j \in DOMAIN h : i < j => ~Precedes(h[j], h[i])
  BY <1>8
<1>11. h \in Sortings(found \cup {x}, n + 1)
  <2> HIDE DEF h
  <2> QED BY <1>9, <1>10 DEF Sortings
<1> QED BY <1>11

\* Finitely many spans can be sorted.
LEMMA SortedExists ==
  ASSUME NEW found, found \subseteq Span, IsFiniteSet(found)
  PROVE  Sorted(found) \in Sortings(found, Cardinality(found))
<1>. DEFINE Sortable(n) == \A S \in SUBSET Span :
                IsFiniteSet(S) /\ Cardinality(S) = n => \E q : q \in Sortings(S, n)
            Fails == {n \in Nat : ~Sortable(n)}
<1>1. Sortable(0)
  <2>. SUFFICES ASSUME NEW S \in SUBSET Span, IsFiniteSet(S), Cardinality(S) = 0
                PROVE  \E q : q \in Sortings(S, 0)
    OBVIOUS
  <2>1. S = {}
    BY FS_EmptySet
  <2>2. <<>> \in Sortings(S, 0)
    BY <2>1 DEF Sortings, Bijection, Injection, Surjection, IsInjective
  <2> QED BY <2>2
<1>2. ASSUME NEW n \in Nat, Sortable(n) PROVE Sortable(n + 1)
  <2>. SUFFICES ASSUME NEW S \in SUBSET Span, IsFiniteSet(S), Cardinality(S) = n + 1
                PROVE  \E q : q \in Sortings(S, n + 1)
    OBVIOUS
  <2>0. S # {}
    BY FS_EmptySet
  <2>1. PICK x \in S : TRUE
    BY <2>0
  <2>2. IsFiniteSet(S \ {x}) /\ Cardinality(S \ {x}) = n /\ S = (S \ {x}) \cup {x}
    <3>1. IsFiniteSet(S \ {x}) /\ Cardinality(S \ {x}) = Cardinality(S) - 1
      BY <2>1, FS_RemoveElement
    <3>2. (n + 1) - 1 = n
      OBVIOUS
    <3>3. S = (S \ {x}) \cup {x}
      BY <2>1
    <3> QED BY <3>1, <3>2, <3>3
  <2>3. PICK q : q \in Sortings(S \ {x}, n)
    BY <1>2, <2>2
  <2>4. S \ {x} \subseteq Span /\ x \in Span \ (S \ {x})
    BY <2>1
  <2>5. \E h : h \in Sortings((S \ {x}) \cup {x}, n + 1)
    BY <2>3, <2>4, PlaceInOrder
  <2> QED BY <2>2, <2>5
<1>3. \A n \in Nat : Sortable(n)
  <2>. SUFFICES ASSUME Fails # {} PROVE FALSE
    OBVIOUS
  <2>1. PICK n \in Fails : \A m \in Fails : n <= m
    BY LeastNatural
  <2>2. n # 0
    BY <1>1, <2>1
  <2>3. n - 1 \in Nat /\ n - 1 \notin Fails
    BY <2>1, <2>2
  <2>4. Sortable(n - 1)
    BY <2>3
  <2>5. Sortable((n - 1) + 1)
    <3> HIDE DEF Sortable
    <3> QED BY <1>2, <2>3, <2>4
  <2>6. (n - 1) + 1 = n
    BY <2>1
  <2>. HIDE DEF Sortable
  <2> QED BY <2>1, <2>5, <2>6
<1>4. Cardinality(found) \in Nat
  BY FS_CardinalityType
<1>5. \E q : q \in Sortings(found, Cardinality(found))
  BY <1>3, <1>4
<1>6. Sorted(found) = CHOOSE q : q \in Sortings(found, Cardinality(found))
  BY DEF Sorted, Sortings
<1> QED BY <1>5, <1>6

\* The function that resolves overlaps: what is kept of the first i spans.
KeptOf(found) ==
  CHOOSE kept : kept = [i \in 0 .. Len(found) |->
                          IF i = 0 THEN <<>> ELSE Keep(kept[i - 1], found[i])]

\* It is well defined.
LEMMA KeptStepByStep ==
  ASSUME NEW S, NEW found \in Seq(S)
  PROVE  /\ KeptOf(found)[0] = <<>>
         /\ \A i \in 1 .. Len(found) :
              KeptOf(found)[i] = Keep(KeptOf(found)[i - 1], found[i])
<1>. DEFINE Is(kept, n) == kept = [i \in 0 .. n |->
                              IF i = 0 THEN <<>> ELSE Keep(kept[i - 1], found[i])]
            Fails == {n \in Nat : ~ \E kept : Is(kept, n)}
<1>1. \E kept : Is(kept, 0)
  <2>1. Is([i \in 0..0 |-> <<>>], 0)
    OBVIOUS
  <2> QED BY <2>1
<1>2. ASSUME NEW n \in Nat, \E kept : Is(kept, n) PROVE \E kept : Is(kept, n + 1)
  <2>1. PICK kept : Is(kept, n)
    BY <1>2
  <2>. DEFINE next == [i \in 0 .. (n + 1) |->
                         IF i = n + 1 THEN Keep(kept[n], found[n + 1]) ELSE kept[i]]
  <2>2. \A i \in 0 .. (n + 1) :
          next[i] = IF i = 0 THEN <<>> ELSE Keep(next[i - 1], found[i])
    <3>. TAKE i \in 0 .. (n + 1)
    <3>1. CASE i = 0
      BY <2>1, <3>1
    <3>2. CASE i = n + 1
      BY <3>2
    <3>3. CASE i \in 1 .. n
      <4>1. next[i] = kept[i] /\ next[i - 1] = kept[i - 1]
        BY <3>3
      <4>2. kept[i] = Keep(kept[i - 1], found[i])
        BY <2>1, <3>3
      <4> QED BY <3>3, <4>1, <4>2
    <3> QED BY <3>1, <3>2, <3>3
  <2>3. Is(next, n + 1)
    BY <2>2
  <2> QED BY <2>3
<1>3. \A n \in Nat : \E kept : Is(kept, n)
  <2>. SUFFICES ASSUME Fails # {} PROVE FALSE
    OBVIOUS
  <2>1. PICK n \in Fails : \A m \in Fails : n <= m
    BY LeastNatural
  <2>2. n # 0
    BY <1>1, <2>1
  <2>3. n - 1 \in Nat /\ n - 1 \notin Fails
    <3>1. n \in Nat /\ n - 1 \in Nat /\ ~(n <= n - 1)
      BY <2>1, <2>2
    <3>. HIDE DEF Fails
    <3> QED BY <2>1, <3>1
  <2>4. \E kept : Is(kept, n - 1)
    BY <2>3
  <2>5. \E kept : Is(kept, (n - 1) + 1)
    <3> HIDE DEF Is
    <3> QED BY <1>2, <2>3, <2>4
  <2>6. (n - 1) + 1 = n
    BY <2>1
  <2>. HIDE DEF Is
  <2> QED BY <2>1, <2>5, <2>6
<1>4. Len(found) \in Nat
  OBVIOUS
<1>5. \E kept : Is(kept, Len(found))
  BY <1>3, <1>4
<1>6. Is(KeptOf(found), Len(found))
  BY <1>5 DEF KeptOf
<1>. HIDE DEF KeptOf
<1> QED BY <1>4, <1>6

\* What is kept of the first i spans does not overlap, and every one of them is
\* hidden by it, or straddles the end of a kept one.
Within(s, k) == k.start <= s.start /\ s.end <= k.end

Straddles(s, k) == k.start < s.start /\ s.start < k.end /\ k.end < s.end

Resolves(kept, spans) ==
  /\ kept \in Seq(Span)
  /\ \A k \in DOMAIN kept : \E s \in spans : kept[k] = s
  /\ \A k, l \in DOMAIN kept : k < l => kept[k].end <= kept[l].start
  /\ \A s \in spans : \E k \in DOMAIN kept : Within(s, kept[k]) \/ Straddles(s, kept[k])

LEMMA KeepResolves ==
  ASSUME NEW spans, spans \subseteq Span, NEW kept, Resolves(kept, spans),
         NEW x \in Span, \A s \in spans : ~Precedes(x, s)
  PROVE  Resolves(Keep(kept, x), spans \cup {x})
<1>1. /\ kept \in Seq(Span)
      /\ \A k \in DOMAIN kept : \E s \in spans : kept[k] = s
      /\ \A k, l \in DOMAIN kept : k < l => kept[k].end <= kept[l].start
      /\ \A s \in spans : \E k \in DOMAIN kept :
           Within(s, kept[k]) \/ Straddles(s, kept[k])
  BY DEF Resolves
<1>2. /\ Len(kept) \in Nat /\ DOMAIN kept = 1 .. Len(kept)
      /\ \A k \in 1 .. Len(kept) : kept[k] \in Span
      /\ \A k, l \in 1 .. Len(kept) : k < l => kept[k].end <= kept[l].start
  BY <1>1
<1>3. x.start \in Nat /\ x.end \in Nat /\ x.start <= x.end
  BY DEF Span
<1>4. CASE kept = <<>> \/ x.start >= Last(kept).end
  <2>. DEFINE next == Append(kept, x)
              n == Len(kept)
  <2>1. /\ next \in Seq(Span) /\ DOMAIN next = 1 .. (n + 1) /\ next[n + 1] = x
        /\ \A k \in 1 .. n : next[k] = kept[k]
    BY <1>2, <1>1
  <2>2. ASSUME NEW k \in 1 .. n PROVE kept[k].end <= x.start
    <3>2. n # 0 /\ n \in 1 .. n /\ Last(kept) = kept[n] /\ kept # <<>>
      BY <1>2 DEF Last
    <3>3. kept[n].end <= x.start /\ kept[n].start <= kept[n].end
          /\ kept[n].start \in Nat /\ kept[n].end \in Nat /\ kept[k].end \in Nat
      BY <1>2, <1>3, <1>4, <3>2 DEF Span
    <3>4. k = n \/ kept[k].end <= kept[n].start
      <4>0. n \in Nat
        BY <1>2
      <4>1. k # n => k < n
        BY <4>0
      <4>2. \A i, j \in 1 .. n : i < j => kept[i].end <= kept[j].start
        BY <1>2
      <4> HIDE DEF n
      <4> QED BY <3>2, <4>1, <4>2
    <3>5. ASSUME kept[k].end <= kept[n].start PROVE kept[k].end <= x.start
      BY <1>3, <3>3, <3>5
    <3> QED BY <3>3, <3>4, <3>5
  <2>3. \A k, l \in 1 .. (n + 1) : k < l => next[k].end <= next[l].start
    <3>. SUFFICES ASSUME NEW k \in 1 .. (n + 1), NEW l \in 1 .. (n + 1), k < l
                  PROVE  next[k].end <= next[l].start
      OBVIOUS
    <3>1. k \in 1 .. n
      BY <1>2
    <3>2. CASE l = n + 1
      BY <2>1, <2>2, <3>1, <3>2
    <3>3. CASE l \in 1 .. n
      BY <1>2, <2>1, <3>1, <3>3
    <3> QED BY <1>2, <3>2, <3>3
  <2>4. \A k \in 1 .. (n + 1) : \E s \in spans \cup {x} : next[k] = s
    BY <1>1, <1>2, <2>1
  <2>5. Within(x, x)
    BY <1>3 DEF Within
  <2>6. \A s \in spans \cup {x} : \E k \in 1 .. (n + 1) :
           Within(s, next[k]) \/ Straddles(s, next[k])
    <3>1. n + 1 \in 1 .. (n + 1) /\ 1 .. n \subseteq 1 .. (n + 1)
      BY <1>2
    <3>2. \A s \in spans : \E k \in 1 .. n : Within(s, kept[k]) \/ Straddles(s, kept[k])
      BY <1>1, <1>2
    <3> QED BY <2>1, <2>5, <3>1, <3>2
  <2>7. Keep(kept, x) = next
    BY <1>4 DEF Keep
  <2>. HIDE DEF next, n
  <2> QED BY <2>1, <2>3, <2>4, <2>6, <2>7 DEF Resolves
<1>5. CASE ~(kept = <<>> \/ x.start >= Last(kept).end)
  <2>. DEFINE n == Len(kept)
  <2>1. n \in 1 .. n /\ Last(kept) = kept[n] /\ n \in DOMAIN kept
    BY <1>1, <1>2, <1>5 DEF Last
  <2>2. PICK s \in spans : kept[n] = s
    BY <1>1, <2>1
  <2>3. kept[n].start \in Nat /\ kept[n].end \in Nat
    BY <1>2, <2>1 DEF Span
  <2>4. x.start < kept[n].end /\ ~Precedes(x, kept[n])
    BY <1>3, <1>5, <2>1, <2>2, <2>3
  <2>5. Within(x, kept[n]) \/ Straddles(x, kept[n])
    BY <1>3, <2>3, <2>4 DEF Within, Straddles, Precedes
  <2>6. Keep(kept, x) = kept
    BY <1>5 DEF Keep
  <2> HIDE DEF n
  <2> QED BY <1>1, <2>1, <2>5, <2>6 DEF Resolves
<1> QED BY <1>4, <1>5

\* _resolve_overlaps: of any finite set of spans, the kept ones do not overlap, and
\* every found one lies within a kept one or straddles the end of a kept one.
THEOREM OverlapsResolve ==
  ASSUME NEW text, NEW custom, Spans(text, custom) \subseteq Span,
         IsFiniteSet(Spans(text, custom))
  PROVE  Resolves(Kept(text, custom), Spans(text, custom))
<1>. DEFINE spans == Spans(text, custom)
            n == Cardinality(spans)
            found == Sorted(spans)
            kept == KeptOf(found)
            First(i) == {found[j] : j \in 1 .. i}
            Resolved(i) == i <= n => Resolves(kept[i], First(i))
            Fails == {i \in Nat : ~Resolved(i)}
<1>1. n \in Nat /\ found \in Sortings(spans, n)
  BY FS_CardinalityType, SortedExists
<1>2. /\ found \in [1 .. n -> spans]
      /\ \A s \in spans : \E i \in 1 .. n : found[i] = s
      /\ \A i, j \in 1 .. n : i < j => ~Precedes(found[j], found[i])
  <2> HIDE DEF n, found, spans
  <2> QED BY <1>1 DEF Sortings, Bijection, Surjection
<1>3. found \in Seq(spans) /\ Len(found) = n
  <2> HIDE DEF n, found, spans
  <2> QED BY <1>1, <1>2
<1>. HIDE DEF n, found
<1>4. /\ kept[0] = <<>>
      /\ \A i \in 1 .. n : kept[i] = Keep(kept[i - 1], found[i])
  <2> HIDE DEF spans
  <2> QED BY <1>3, KeptStepByStep
<1>5. Kept(text, custom) = kept[n]
  BY <1>3 DEF Kept, KeptOf, found
<1>. HIDE DEF kept, spans
<1>6. Resolved(0)
  BY <1>4 DEF Resolves
<1>7. ASSUME NEW i \in Nat, Resolved(i) PROVE Resolved(i + 1)
  <2>. SUFFICES ASSUME i + 1 <= n PROVE Resolves(kept[i + 1], First(i + 1))
    OBVIOUS
  <2>1. i + 1 \in 1 .. n /\ (i + 1) - 1 = i /\ 1 .. i \subseteq 1 .. n
    BY <1>1
  <2>2. Resolves(kept[i], First(i))
    BY <1>1, <1>7
  <2>3. First(i) \subseteq Span /\ found[i + 1] \in Span
    BY <1>2, <2>1 DEF spans
  <2>4. \A s \in First(i) : ~Precedes(found[i + 1], s)
    BY <1>2, <2>1
  <2>5. First(i + 1) = First(i) \cup {found[i + 1]}
    <3>1. 1 .. (i + 1) = (1 .. i) \cup {i + 1}
      OBVIOUS
    <3> QED BY <3>1
  <2>6. kept[i + 1] = Keep(kept[i], found[i + 1])
    BY <1>4, <2>1
  <2>. HIDE DEF First
  <2>7. Resolves(Keep(kept[i], found[i + 1]), First(i) \cup {found[i + 1]})
    BY <2>2, <2>3, <2>4, KeepResolves
  <2> QED BY <2>5, <2>6, <2>7
<1>8. \A i \in Nat : Resolved(i)
  <2>. HIDE DEF Resolved
  <2>. SUFFICES ASSUME Fails # {} PROVE FALSE
    OBVIOUS
  <2>1. PICK i \in Fails : \A m \in Fails : i <= m
    BY LeastNatural
  <2>2. i # 0
    BY <1>6, <2>1
  <2>3. i - 1 \in Nat /\ i - 1 \notin Fails /\ (i - 1) + 1 = i
    BY <2>1, <2>2
  <2>4. Resolved((i - 1) + 1)
    BY <1>7, <2>3
  <2> QED BY <2>1, <2>3, <2>4
<1>9. Resolves(kept[n], First(n))
  <2>1. Resolved(n)
    <3> HIDE DEF Resolved
    <3> QED BY <1>1, <1>8
  <2>2. n <= n
    BY <1>1
  <2> HIDE DEF First
  <2> QED BY <2>1, <2>2
<1>10. First(n) = spans
  BY <1>2
<1> QED BY <1>5, <1>9, <1>10 DEF spans

-----------------------------------------------------------------------------
(* What decides where several rules match or several words are found. *)

\* Of the rules that match a prompt the first decides, and the others have no
\* say; if none does, the complexity of the prompt decides (SmartRouter.route).
THEOREM FirstMatchDecides ==
  ASSUME NEW Rule, NEW rules \in Seq(Rule), NEW p
  PROVE  \/ /\ \A i \in DOMAIN rules : ~Matches(rules[i], p)
            /\ Primary(rules, p) = DefaultTarget(Complexity(p))
         \/ \E i \in DOMAIN rules :
              /\ Matches(rules[i], p) /\ Primary(rules, p) = rules[i].target
              /\ \A j \in DOMAIN rules : j < i => ~Matches(rules[j], p)
<1>1. DOMAIN rules \subseteq Nat
  OBVIOUS
<1>2. \A i : i \in Matching(rules, p) <=> i \in DOMAIN rules /\ Matches(rules[i], p)
  BY DEF Matching
<1>3. CASE Matching(rules, p) = {}
  BY <1>2, <1>3 DEF Primary
<1>4. CASE Matching(rules, p) # {}
  <2>. DEFINE first == CHOOSE i \in Matching(rules, p) : \A j \in Matching(rules, p) : i <= j
  <2>1. \E i \in Matching(rules, p) : \A j \in Matching(rules, p) : i <= j
    <3>1. Matching(rules, p) \subseteq Nat
      BY <1>1, <1>2
    <3>. QED
      BY <1>4, <3>1, LeastNatural
  <2>2. first \in Matching(rules, p) /\ \A j \in Matching(rules, p) : first <= j
    BY <2>1
  <2>3. Primary(rules, p) = rules[first].target
    BY <1>4 DEF Primary
  <2>. HIDE DEF first
  <2>4. ASSUME NEW j \in DOMAIN rules, j < first  PROVE ~Matches(rules[j], p)
    <3>1. j \in Nat /\ first \in Nat
      BY <1>1, <1>2, <2>2
    <3>2. ~(first <= j)
      BY <2>4, <3>1
    <3>. QED
      BY <1>2, <2>2, <3>2
  <2>. QED
    BY <1>2, <2>2, <2>3, <2>4
<1>. QED
  BY <1>3, <1>4

=============================================================================
