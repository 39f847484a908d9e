------------------------------- MODULE MCAuto -------------------------------
(* A small instance of AutoReview: two mentions and a property of the first *)
(* in one document.                                                        *)
EXTENDS AutoReview, TLC

CONSTANTS m1, m2, f1, acme, doc, v1, w1, w2

InDoc == [v \in Versions |-> doc]
InV1 == [r \in Mentions \cup Facts |-> v1]
AProperty == [f \in Facts |-> {"subject"}]
Uneven == [r \in Mentions \cup Facts |-> IF r = m1 THEN 3 ELSE 2]
Symmetric == Permutations(Reviewers)

Imported(chain) == \E i \in DOMAIN chain : chain[i].origin = "EXPERT_IMPORT"

Records == Mentions \cup Facts
Revisions == UNION {{<<r, n>> : n \in 1..Len(Chain(r))} : r \in Records}

\* The revisions that people and publications have written.
ByPeople == {x \in Revisions : x[2] > 1} \ {<<a.record, a.n>> : a \in automatic}
Busy == {w \in Reviewers : at[w] # "idle"}
OneAtATime == Cardinality(Busy) <= 1

Alone == facts[f1] = <<>> /\ mentions[m2] = <<>> /\ asked <= 1
Pair ==
    /\ facts[f1] = <<>> /\ retired = {}
    /\ \A m \in Mentions :
          mentions[m] # <<>> => Len(mentions[m]) = 1 /\ mentions[m][1].status = "CANDIDATE"
    /\ Busy # {} => Written(mentions[m1]) /\ Written(mentions[m2])
    /\ run.token <= 1 \/ OneAtATime
    /\ \A w \in Reviewers : \A r \in JobRecords :
          items[w][r] \in {NoItem, "INCOMPLETE"} /\ batch[w][r].now \notin {"yes", "no"}
Property_ == mentions[m2] = <<>> /\ OneAtATime /\ asked <= 2 /\ run.token <= 1 /\ Cardinality(ByPeople) <= 2

OneScenario == Alone \/ Pair \/ Property_
=============================================================================
