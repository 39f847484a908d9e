--------------------------- MODULE MCPublication ---------------------------
(***************************************************************************)
(* Small instances of KnowledgePublication.                                *)
(***************************************************************************)
EXTENDS KnowledgePublication, TLC

CONSTANTS m1, m2, m3, f1, acme, doc, v1, v2

OneMention == {m1}
Three == {m1, m2, m3}
OneFact == {f1}
OneName == {acme}
OneDoc == {doc}
OneVersion == {v1}
TwoVersions == {v1, v2}
InDoc == [v \in Versions |-> doc]
InV1 == [r \in Mentions \cup Facts |-> v1]
M3InV2 == [r \in Mentions \cup Facts |-> IF r = m3 THEN v2 ELSE v1]
Property == [f \in Facts |-> {"subject"}]

\* How many revisions each record may have.
Uneven == (m1 :> 3) @@ (m2 :> 2) @@ (m3 :> 1) @@ (f1 :> 3)
Five == [r \in Mentions \cup Facts |-> 5]

\* Two scenarios in one run.  Two mentions in two versions of a document, two
\* T-Boxes and four activations, or two access policies and two activations; or
\* two mentions and a property in one version, without imports.
Silent(R) == \A r \in R : ChainOf(r) = <<>>
OneScenario ==
    \/ Silent({m2, f1}) /\ Len(log) <= (IF policy[doc] = 1 THEN 4 ELSE 2)
    \/ /\ Silent({m3}) /\ chunkPolicy[v2] = 0 /\ tbox = 1 /\ Len(log) <= 2 /\ policy[doc] = 1
       /\ \A v \in Versions : chunkPolicy[v] < 2
       /\ \A r \in {m1, m2, f1} : \A i \in DOMAIN ChainOf(r) :
             ChainOf(r)[i].origin # "EXPERT_IMPORT"
=============================================================================
