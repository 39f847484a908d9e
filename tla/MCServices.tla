----------------------------- MODULE MCServices -----------------------------
(***************************************************************************)
(* Small instances of the services around the core.  They share no state;  *)
(* part says which of them a behavior is of, and the others rest.          *)
(***************************************************************************)
EXTENDS RateLimiter, EmbeddingIndex, LayoutQueue, RequestBody,
        PlaygroundReset, Workspaces, OntologyStore, BulkLoad,
        OntologyExtraction, UploadIntake, TLC

VARIABLE part

Parts == {"limiter", "embedding", "layouts", "bodies",
          "reset", "workspaces", "ontology", "bulk", "extraction", "uploads"}

MCPrincipals == {"ann", "bob"}
MCCosts == {1, 2}

\* Two versions of one space, one of another.
MCGenerations == {"g1", "g2", "g3"}
MCSpaceOf   == ("g1" :> "e1") @@ ("g2" :> "e1") @@ ("g3" :> "e2")
MCVersionOf == ("g1" :> 1) @@ ("g2" :> 2) @@ ("g3" :> 2)

\* A successor is of the same space or of another one, not both; the other space
\* has vectors only then.  The corpus changes a second time only without one.
OneSuccessor ==
    /\ state["g3"] = "ABSENT" => vectors \cap (Chunks \X {"e2"}) = {}
    /\ "ABSENT" \in {state["g2"], state["g3"]}
    /\ corpusRev <= 1 \/ {state["g2"], state["g3"]} = {"ABSENT"}

MCSymmetry ==
    Permutations(Chunks) \cup Permutations(Callers)

MCLayoutsOf == ("p1" :> {"a1"}) @@ ("p2" :> {"a2"})

\* Two profiles for a first version, a second version, ways back to the first,
\* and a second extraction under the first profile.
MCPiecesOf == ("s1" :> {1, 2}) @@ ("s2" :> {1, 2}) @@ ("s3" :> {3})
              @@ ("s4" :> {1, 2})
Plan(s, n, replaced, v, g) ==
    [content |-> s, number |-> n, expected |-> replaced,
     access |-> [version |-> v, groups |-> g]]
MCArtifactsOf ==
    ("s1" :> {[id |-> "m1", made |-> 1]}) @@ ("s2" :> {[id |-> "m2", made |-> 1]})
    @@ ("s3" :> {[id |-> "m3", made |-> 1]}) @@ ("s4" :> {[id |-> "m1", made |-> 2]})
MCLoadOf ==
    ("l1" :> Plan("s1", 1, "nothing", 1, "all")) @@ ("l2" :> Plan("s2", 1, "s1", 1, "all"))
    @@ ("l3" :> Plan("s3", 2, "s2", 2, "few")) @@ ("l4" :> Plan("s1", 1, "s2", 2, "few"))
    @@ ("l5" :> Plan("s1", 1, "s3", 3, "all"))
    @@ ("l6" :> Plan("s4", 1, "s1", 1, "all"))

\* Answers about a chunk of three characters.  A mention may be misquoted or
\* doubtful, two entities may share a reference, a type or a mention.
Left == <<0, 1>>
Middle == <<1, 2>>
Start == <<0, 2>>
All == <<0, 3>>

Mark(s) == [span |-> s, exact |-> TRUE, sure |-> TRUE]
FirstEntities ==
    [ref : {"r1"}, type : {"Pump", "Part"},
     mentions : {<<Mark(Left)>>, <<Mark(Left), Mark(Middle)>>, <<Mark(Left), Mark(Left)>>}]
    \cup {[ref |-> "r1", type |-> "Pump", mentions |-> <<m>>] :
             m \in {[Mark(Left) EXCEPT !.sure = FALSE], [Mark(Left) EXCEPT !.exact = FALSE]}}
SecondEntities ==
    [ref : {"r1", "r2"}, type : {"Pump", "Valve"},
     mentions : {<<Mark(s)>> : s \in {Left, Start}}]
AnyEntities ==
    {<<>>} \cup {<<e>> : e \in FirstEntities} \cup (FirstEntities \X SecondEntities)

Given(n, raw, s) ==
    [name |-> n, raw |-> raw, unit |-> "none", span |-> s, exact |-> TRUE, sure |-> TRUE]
Flows ==
    {<<>>, <<Given("flow", "1", Middle)>>, <<Given("flow", "1", Start)>>,
     <<Given("flow", "1", Middle), Given("rate", "1", Middle)>>,
     <<Given("flow", "1", Middle), Given("flow", "1.0", Middle)>>,
     <<Given("flow", "1", Middle), [Given("flow", "2", Start) EXCEPT !.unit = "bar"]>>}
OneRelation ==
    [type : {"feeds", "drives"}, source : {"r1", "r2"}, target : {"r1", "r2"},
     span : {Left, Start, All}, exact : {TRUE}, sure : {TRUE}, properties : Flows]
AnyRelations ==
    {<<>>} \cup {<<r>> : r \in OneRelation}
    \cup {<<r, [r EXCEPT !.span = All]>> : r \in OneRelation}

OneFact ==
    {[of |-> ref] @@ Given(n, raw, s) :
        ref \in {"r1", "r2"}, n \in {"power", "name"},
        raw \in {"1", "1.0", "x"}, s \in {Left, Start, All}}
Paired == {f \in OneFact : f.span # Left /\ (f.of = "r1" \/ f.raw = "1")}
AnyFacts == {<<>>} \cup {<<f>> : f \in OneFact} \cup (Paired \X Paired)

Malformed == [whole |-> FALSE, entities |-> <<>>, relations |-> <<>>, facts |-> <<>>]
MCAnswers ==
    [whole : {TRUE}, entities : AnyEntities, relations : AnyRelations, facts : {<<>>}]
    \cup [whole : {TRUE}, entities : AnyEntities, relations : {<<>>}, facts : AnyFacts]
    \cup {Malformed}

MCDeclares == ("Pump" :> {"power", "name"}) @@ ("Valve" :> {"name"}) @@ ("Part" :> {"name"})
MCRelates ==
    ("feeds" :> [pairs |-> {<<"Pump", "Valve">>, <<"Pump", "Pump">>}, properties |-> {"flow"}])
    @@ ("drives" :> [pairs |-> {<<"Pump", "Valve">>}, properties |-> {"flow", "rate"}])
MCConditional == {[needs |-> "rate", given |-> "flow", values |-> {"1"}]}

\* A relationship needs its flow, and a flow of 1 on "drives" a rate.
\* "1" and "1.0" are one value of a number, "x" is none.
MCNormal ==
    [n \in {"power", "name", "flow", "rate"}, raw \in {"1", "1.0", "2", "x"},
     u \in {"none", "bar"} |->
        IF n = "name" THEN raw
        ELSE IF raw = "1.0" THEN "1" ELSE IF raw = "x" THEN "none" ELSE raw]
MCWordAt ==
    ("1" :> {Middle}) @@ ("1.0" :> {Left}) @@ ("2" :> {Left}) @@ ("x" :> {}) @@ ("bar" :> {Middle})
MCPieceAt == [MCWordAt EXCEPT !["x"] = {Middle}]
MCMaxOf == [entities |-> 2, mentions |-> 2, relations |-> 2, properties |-> 2]

\* Two uploads of one text; the corpus is empty, or has a document like it.
MCUriOf == ("u1" :> "a") @@ ("u2" :> "b")
MCTextOf == ("u1" :> "x") @@ ("u2" :> "x")
MCGroupsOf == [u \in Uploads |-> {"g"}]
MCResembles == {<<"x", "y">>, <<"y", "x">>}
MCStarts ==
    {("a" :> NoText) @@ ("b" :> NoText) @@ ("c" :> t) : t \in {NoText, "y"}}

\* Two uploads make three attempts between them, or one upload meets a corpus
\* that moves twice.
CorpusMoves ==
    Len(releases) + MapThenSumSet(LAMBDA d : document[d].policy - 1 + document[d].generation, Uris)
FewMoves ==
    part = "uploads" =>
    IF stored["c", "y"].policy = 0 /\ CorpusMoves = 0
    THEN tries["u1"] + tries["u2"] <= 3
    ELSE /\ step["u2"] = "idle" /\ tries["u2"] = 0 /\ token["u2"] = NothingFound
         /\ CorpusMoves <= 2

\* A part at rest has one initial state.
Init ==
    /\ part \in Parts
    /\ ExtractionInit
    /\ part # "extraction" => answer = Malformed
    /\ LimiterInit /\ EmbeddingInit /\ LayoutInit /\ BodyInit
    /\ ResetInit /\ WorkspaceInit /\ OntologyInit /\ BulkInit
    /\ IntakeInit
    /\ part # "uploads" => document["c"].active = NoText
    /\ part # "limiter" => algorithm = "token_bucket"
    /\ part # "layouts" => current = "p1"
    /\ projects["k1"].name = "pump"

Next ==
    /\ UNCHANGED part
    /\ \/ part = "limiter" /\ LimiterNext
       \/ part = "embedding" /\ EmbeddingNext
       \/ part = "layouts" /\ LayoutNext
       \/ part = "bodies" /\ BodyNext
       \/ part = "reset" /\ ResetNext
       \/ part = "workspaces" /\ WorkspaceNext
       \/ part = "ontology" /\ OntologyNext
       \/ part = "bulk" /\ BulkNext
       \/ part = "extraction" /\ ExtractionNext
       \/ part = "uploads" /\ IntakeNext
    /\ part # "limiter" => UNCHANGED limiterVars
    /\ part # "embedding" => UNCHANGED embeddingVars
    /\ part # "layouts" => UNCHANGED layoutVars
    /\ part # "bodies" => UNCHANGED bodyVars
    /\ part # "reset" => UNCHANGED resetVars
    /\ part # "workspaces" => UNCHANGED workspaceVars
    /\ part # "ontology" => UNCHANGED ontologyVars
    /\ part # "bulk" => UNCHANGED bulkVars
    /\ part # "extraction" => UNCHANGED extractionVars
    /\ part # "uploads" => UNCHANGED intakeVars

allVars == <<part, limiterVars, embeddingVars, layoutVars, bodyVars,
             resetVars, workspaceVars, ontologyVars, bulkVars,
             extractionVars, intakeVars>>

Spec == Init /\ [][Next]_allVars
=============================================================================
