--------------------------- MODULE MCConstruction ---------------------------
(* Instances of Construction: j1, j4 and j5 construct, the others upload.  *)
EXTENDS Construction, FiniteSetsExt, TLC

CONSTANTS j1, j2, j3, j4, j5, d1, d2, t1, t2, v1, v2, x1, w1, w2

MCDocumentOf == (j1 :> d1) @@ (j2 :> d2) @@ (j3 :> d1) @@ (j4 :> d2) @@ (j5 :> d2)
MCTextsOf == (j1 :> <<t1>>) @@ (j2 :> <<t1>>) @@ (j3 :> <<t1>>) @@ (j4 :> <<t2, t1>>)
             @@ (j5 :> <<t2>>)
MCOutputs == ("EXTRACTION" :> {x1}) @@ ("EMBEDDING" :> {v1, v2})
MCMode == (j1 :> "FEEDBACK") @@ (j4 :> "SOURCE_ONLY") @@ (j5 :> "SINGLE")

Workforce == Permutations(Workers)

\* The jobs of a behaviour, and the claims of all their preparations.
Used == {j \in Jobs : status[j] # "ABSENT"} \cup {j \in Constructions : job[j] # "ABSENT"}
        \cup ({doing[w] : w \in Workers} \ {NoJob})
Claims == MapThenSumSet(LAMBDA j : attempts[j], Jobs)
OneAtATime == \E w \in Workers : phase[w] = "idle"

(* What a behaviour is about: two calls of one construction, which crash  *)
(* and resume; two uploads that share what they derive while their         *)
(* documents are deleted; or, with one call at a time, a construction on a *)
(* document with a history, one beside a document that is deleted, or one  *)
(* of the other modes.                                                     *)
OneScenario ==
    \/ Used \subseteq {j1}
    \/ Used \subseteq {j2, j3} /\ Claims <= 2
    \/ OneAtATime /\ \/ Used \subseteq {j1, j3} /\ Claims <= 2 /\ lastRun <= 1
                     \/ Used \subseteq {j1, j2} /\ Claims <= 2
                     \/ Used \subseteq {j4}
                     \/ Used \subseteq {j5}

\* A construction, and the deletion of another document with the same text.
TwoDocuments == OneAtATime /\ Used \subseteq {j1, j2} /\ Claims <= 2 /\ lastRun <= 1

=============================================================================
