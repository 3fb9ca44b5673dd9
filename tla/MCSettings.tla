----------------------------- MODULE MCSettings -----------------------------
(***************************************************************************)
(* The settings of an organisation on a small instance.  The three parts    *)
(* share no state, so each behaviour here exercises one of them.            *)
(***************************************************************************)
EXTENDS Settings

CONSTANTS e1, e2, a1, a2, r1, r2, b1, b2, q1, q2, s1, s2, s3

VARIABLE area

\* An address that straddles a phone number and lies in a longer match of the
\* custom pattern; code in a text of ten lines; words of two categories.
MCTexts ==
  {[length |-> 9,
    spans |-> {[start |-> 1, end |-> 3, type |-> "PERSON"],
               [start |-> 2, end |-> 6, type |-> "PHONE_NUMBER"]},
    matches |-> [badge |-> {[start |-> 1, end |-> 5, type |-> "x"]}],
    lines |-> 10, code |-> 3, dangerous |-> FALSE, boost |-> TRUE,
    words |-> [auth_credentials |-> <<0, 0>>, hr |-> <<2, 2>>]]}

MCOrigin == [e \in Evaluations |-> [local |-> FALSE, country |-> "DE", region |-> "EU"]]

MCProvider == [e \in Evaluations |-> "openai"]

MCUpdates ==
  {[pii |-> "block", code |-> "allow"],
   [allowed |-> [r \in Countries \cup Regions |-> IF r = "EU" THEN <<"gemini">> ELSE <<>>]],
   [sensitive |-> "block", active |-> FALSE]}

MCNewRules == {[priority |-> 1, body |-> b2]}

MCPatches == {[priority |-> 2], [active |-> FALSE, body |-> b2]}

\* Two reorders that swap the rules, and take them in opposite orders; one of none.
MCReorders ==
  {<<>>, <<Write(r1, [priority |-> 2]), Write(r2, [priority |-> 1])>>,
   <<Write(r2, [priority |-> 1]), Write(r1, [priority |-> 2])>>}

\* What is not exercised starts in one of its initial states.
MCInit ==
  /\ SettingsInit
  /\ area \in {"policy", "rules", "providers"}
  /\ area # "rules" => table = {}
  /\ \A row \in table : row.id = r1 <=> row.priority = 1 /\ row.body = b1
  /\ area # "providers" => \A s \in Savers : save[s].vendor = "openai"

\* Evaluations are alike and so are editors: each kind begins in one order.
InOrder ==
  /\ eval[e2].at # "new" => eval[e1].at # "new"
  /\ edit[a2].at # "new" => edit[a1].at # "new"

MCNext ==
  /\ \/ area = "policy" /\ PolicyAlone /\ InOrder'
     \/ area = "rules" /\ RoutesAlone
     \/ area = "providers" /\ ProvidersAlone
  /\ UNCHANGED area

MCSpec == MCInit /\ [][MCNext]_<<settingsVars, area>> /\ RouteFairness
=============================================================================
