---------------------------- MODULE MCIngestion ----------------------------
(***************************************************************************)
(* Small instances of IngestionLifecycle.                                  *)
(***************************************************************************)
EXTENDS IngestionRefinement, TLC

CONSTANTS w1, w2, j1, j2, j3, j4, j5, s1, s2, s3, c1, c2, c3

MCWorkers == {w1, w2}
MCJobs == {j1, j2}

\* s1 and s2 are two extractions of one version; s3 is another version.
MCSnapshots == {s1, s2, s3}
MCChunks == {c1, c2, c3}
MCVersionOf == (s1 :> 1) @@ (s2 :> 1) @@ (s3 :> 2)
MCChunksOf == (s1 :> {c1, c2}) @@ (s2 :> {c1, c2}) @@ (s3 :> {c3})

Policy(v, g) == [version |-> v, groups |-> g]
MCNoPolicy == Policy(0, "none")

WorkerSymmetry == Permutations(MCWorkers)

-----------------------------------------------------------------------------
\* Two scenarios that share no run.  In the first, two uploads of different
\* versions and a deletion interleave.  In the second, two extractions of one
\* version share its chunks, and a third operation changes the title and the
\* policy of the first; each of its jobs is claimed once.
MixJobs == {j1, j2, j3, j4, j5}
MixKind == [j \in MixJobs |-> IF j = j3 THEN "DELETE" ELSE "UPSERT"]
MixTarget == (j1 :> s1) @@ (j2 :> s3) @@ (j4 :> s2) @@ (j5 :> s1)
MixTitle == (j1 :> "old") @@ (j2 :> "new") @@ (j4 :> "old") @@ (j5 :> "new")
MixPolicy == (j1 :> Policy(1, "staff")) @@ (j2 :> Policy(2, "board"))
                @@ (j4 :> Policy(2, "board")) @@ (j5 :> Policy(3, "staff"))

Registered == {j \in Jobs : status[j] # "ABSENT"}
OneScenario ==
    \/ /\ Registered \subseteq {j1, j2, j3}
       /\ attempts[j1] + attempts[j2] + attempts[j3] <= 4
    \/ /\ Registered \subseteq {j1, j4, j5}
       /\ \A j \in Jobs : attempts[j] <= 1
       /\ Generation <= 1

-----------------------------------------------------------------------------
\* Two uploads of one version, cut by different splitters.
SplitJobs == {j1, j2}
SplitSnapshots == {s1, s2}
SplitKind == [j \in SplitJobs |-> "UPSERT"]
SplitTarget == (j1 :> s1) @@ (j2 :> s2)
SplitTitle == (j1 :> "old") @@ (j2 :> "old")
SplitPolicy == [j \in SplitJobs |-> Policy(1, "staff")]
SplitChunksOf == (s1 :> {c1, c2}) @@ (s2 :> {c3})

-----------------------------------------------------------------------------
\* Two operations that build the same snapshot.
TwinTarget == [j \in SplitJobs |-> s1]
SplitChunks == {c1, c2}
TwinChunksOf == [s \in SplitSnapshots |-> SplitChunks]
=============================================================================
