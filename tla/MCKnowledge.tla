---------------------------- MODULE MCKnowledge ----------------------------
(***************************************************************************)
(* A small instance of KnowledgeReview: two mentions and a property or a   *)
(* relationship in the one version of a document.  The splits of mentions  *)
(* add identities to the one that is named.                                *)
(***************************************************************************)
EXTENDS KnowledgeReview

CONSTANTS m1, m2, f1, f2, acme, doc, v1

Two == {m1, m2}
TwoFacts == {f1, f2}
OneName == {acme}
OneDoc == {doc}
OneVersion == {v1}
InDoc == [v \in Versions |-> doc]
InV1 == [r \in Mentions \cup Facts |-> v1]

\* f1 is a property, f2 a relationship.
MCSlots == [f \in Facts |-> IF f = f1 THEN {"subject"} ELSE {"subject", "object"}]

\* How many revisions each record may have.
Uneven == [r \in Mentions \cup Facts |-> IF r = m2 THEN 2 ELSE 3]

\* Two scenarios in one run: a property with imports under one T-Box, or a
\* relationship without imports under two, so that facts may be hidden.
Imported(chain) == \E i \in DOMAIN chain : chain[i].origin = "EXPERT_IMPORT"
OneScenario ==
    \/ facts[f2] = <<>> /\ tbox = 1
    \/ /\ facts[f1] = <<>> /\ Len(mentions[m1]) <= 2
       /\ ~\E m \in Mentions : Imported(mentions[m])
       /\ Len(facts[f2]) <= 2 /\ ~Imported(facts[f2])
=============================================================================
