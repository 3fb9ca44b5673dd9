----------------------------- MODULE RouteRules -----------------------------
(***************************************************************************)
(* The arithmetic-free part of routing: how a prompt is classified, which   *)
(* rule matches it, and the chain of targets SmartRouter.route returns.  A  *)
(* target is a pair of a provider and a model.  A prompt is what the        *)
(* classifier measures of it: its category, its length and its marks.       *)
(***************************************************************************)
EXTENDS Integers, Sequences

Haiku     == <<"anthropic", "claude-haiku-4-5">>
Sonnet    == <<"anthropic", "claude-sonnet-4-6">>
Opus      == <<"anthropic", "claude-opus-4-6">>
Gpt4o     == <<"openai", "gpt-4o">>
Gpt4oMini == <<"openai", "gpt-4o-mini">>
Gpt4Turbo == <<"openai", "gpt-4-turbo">>
Flash     == <<"gemini", "gemini-3-5-flash">>
GeminiPro == <<"gemini", "gemini-3-pro">>

-----------------------------------------------------------------------------
\* A prompt as the classifier sees it: the first category with a keyword in it
\* ("qa" if none), its tokens, and which marks occur: a phrase that asks for
\* research, a sign of an equation, three question marks, technical jargon.
Prompt(categories, lengths) ==
  [category : categories, tokens : lengths,
   marks : SUBSET {"research", "equation", "questions", "jargon"}]

Complex(p) ==
  \/ p.tokens > 3000
  \/ "research" \in p.marks
  \/ p.category = "math" /\ "equation" \in p.marks
  \/ "questions" \in p.marks

Simple(p) ==
  /\ p.tokens < 200
  /\ \/ p.category \in {"chat", "translation"}
     \/ p.category = "qa" /\ "jargon" \notin p.marks

Complexity(p) ==
  IF Complex(p) THEN "complex" ELSE IF Simple(p) THEN "simple" ELSE "medium"

DefaultTarget(complexity) ==
  [simple |-> Haiku, medium |-> Sonnet, complex |-> Opus][complexity]

-----------------------------------------------------------------------------
\* The conditions of a rule are a set of <<key, value>>; the proxy and the
\* routing test pass no metadata, so a condition on any other key holds only if
\* it asks for null.
Holds(condition, p) ==
  LET key == condition[1]  value == condition[2]
  IN  \/ key = "complexity" /\ Complexity(p) = value
      \/ key = "category" /\ p.category = value
      \/ key = "max_tokens" /\ p.tokens <= value
      \/ key \notin {"complexity", "category", "max_tokens"} /\ value = "null"

Matches(rule, p) == \A c \in rule.conditions : Holds(c, p)

Matching(rules, p) == {i \in DOMAIN rules : Matches(rules[i], p)}

\* The rules are in the order of their priorities: the first match wins.
Primary(rules, p) ==
  IF Matching(rules, p) = {}
  THEN DefaultTarget(Complexity(p))
  ELSE rules[CHOOSE i \in Matching(rules, p) :
               \A j \in Matching(rules, p) : i <= j].target

-----------------------------------------------------------------------------
Fallbacks(t) ==
  CASE t = Haiku  -> <<Sonnet, Opus>>
    [] t = Sonnet -> <<Opus, Gpt4o>>
    [] t[1] = "anthropic" /\ t \notin {Haiku, Sonnet} -> <<Gpt4o, Gpt4Turbo>>
    [] t = Gpt4oMini -> <<Gpt4o, Gpt4Turbo>>
    [] t = Gpt4o     -> <<Gpt4Turbo, Opus>>
    [] t[1] = "openai" /\ t \notin {Gpt4oMini, Gpt4o} -> <<Gpt4o, Sonnet>>
    [] t = Flash -> <<GeminiPro, Gpt4o>>
    [] t[1] = "gemini" /\ t # Flash -> <<Gpt4o, Opus>>
    [] t[1] \notin {"anthropic", "openai", "gemini"} -> <<Gpt4oMini, Gpt4o>>

\* Mutant: only OpenAI is a last resort.
LastResortOpenAI(t, active) ==
  IF "openai" \in active /\ t[1] # "openai" THEN <<Gpt4o>> ELSE <<>>

\* The last resort: OpenAI if the organisation has it, else Anthropic.
LastResort(t, active) ==
  IF "openai" \in active /\ t[1] # "openai" THEN <<Gpt4o>>
  ELSE IF "anthropic" \in active /\ t[1] # "anthropic" THEN <<Sonnet>>
  ELSE <<>>

Occurs(t, s) == \E i \in DOMAIN s : s[i] = t

\* The primary target, its fallbacks, and the last resort unless it is there.
Chain(t, active) ==
  LET last == LastResort(t, active)
  IN  <<t>> \o Fallbacks(t) \o
        (IF \E i \in DOMAIN last : Occurs(last[i], Fallbacks(t)) THEN <<>> ELSE last)
=============================================================================
