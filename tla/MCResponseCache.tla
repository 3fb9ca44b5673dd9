-------------------------- MODULE MCResponseCache --------------------------
(***************************************************************************)
(* A small instance of ResponseCache: two prompts that are near each other, *)
(* three requests of acme, one of them with PII, and one of zeta.  Either   *)
(* an administrator removes and flushes entries, or a FAQ of acme is        *)
(* created, edited and deleted.                                             *)
(***************************************************************************)
EXTENDS ResponseCache

CONSTANTS acme, zeta, hello, hi, q1, q2, q3, q4, faq1, a1

MCOrg == [r \in Requests |-> IF r = q3 THEN zeta ELSE acme]

MCPrompt == [r \in Requests |-> IF r = q1 THEN hello ELSE hi]

\* Similar enough for a soft hit, not for an FAQ.
MCNear == [p \in Prompts |-> Prompts]

MCVeryNear == [p \in Prompts |-> {p}]

MCFaqOrg == [f \in Faqs |-> acme]

VARIABLE removing

MCInit ==
  /\ Init /\ removing \in BOOLEAN
  /\ removing => \A f \in Faqs : faqs[f].status = "none"

MCNext ==
  /\ Next
  /\ IF removing THEN UNCHANGED faqs ELSE UNCHANGED op
  /\ UNCHANGED removing

MCSpec == MCInit /\ [][MCNext]_<<vars, removing>> /\ Fairness

=============================================================================
