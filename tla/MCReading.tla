------------------------------ MODULE MCReading ------------------------------
(***************************************************************************)
(* Small instances of what a request goes through: the runner that runs    *)
(* it, and the readers of the published graph.  A retrieval, a walk        *)
(* through the graph and the audits read one moving corpus; part says      *)
(* which of them a behavior is of, and the others rest.                    *)
(***************************************************************************)
EXTENDS OperationRunner, GovernedRetrieval, GraphBrowsing, QualityAudit,
        EvidenceProjection, EntityResolution, ReleaseContract,
        GroundedAnswer, TLC

CONSTANTS read, write1, write2, k1, k2, k3, p1, p2

VARIABLE part

Parts == {"runner", "retrieval", "browsing", "audit", "projection", "resolution", "contract",
          "answer"}

MCCalls == {read, write1, write2}
MCRetrySafe == {read}

\* Two publications that share a chunk.
MCChunks == {k1, k2, k3}
MCHolds == (p1 :> {k1, k2}) @@ (p2 :> {k2, k3})

\* k1 is found by its vector, k3 by its text; k2 through an entity of k1, and as
\* the neighbour of k3.
MCLinked == (k1 :> {k2}) @@ (k2 :> {k1}) @@ (k3 :> {})
MCNextTo == (k1 :> {}) @@ (k2 :> {k3}) @@ (k3 :> {k2})
MCDocOf == (k1 :> 1) @@ (k2 :> 1) @@ (k3 :> 2)

\* Two relationships with an entry in common, and the mentions they start at.
MCMentions == {"m1", "m2"}
MCAssertions == {"f1", "f2"}
MCPublishes == (p1 :> {"m1", "m2", "f1", "f2"}) @@ (p2 :> {"m2", "f2"})
MCCites == ("m1" :> k1) @@ ("m2" :> k2) @@ ("f1" :> k1) @@ ("f2" :> k2)
MCSeedOf == ("f1" :> "m1") @@ ("f2" :> "m2")
MCEntryOf == ("f1" :> 1) @@ ("f2" :> 1) @@ ("m1" :> 2) @@ ("m2" :> 3)

\* The entities of the first publication would be objected to.
MCFlaws == (p1 :> {"entities"}) @@ (p2 :> {})

\* Two mentions of the first and of the second entity; a relation between them,
\* one of the first with itself, one out of the result, and a property whose
\* value stands in another chunk.
MCTextOf == <<1, 1, 1, 2, 2>>
MCNodeOf == <<1, 1, 2, 2, 3>>
MCEndsOf == << <<1, 3>>, <<1, 2>>, <<4, 5>>, <<3>> >>
MCContextOf == <<0, 0, 0, 2>>

\* Entity 1 has its key, 2 a name in common with 3, 3 an alias that 1 has under
\* the other publication.  Two candidates of a type without identity properties,
\* and one with a serial number, which may be given twice or on another mention.
MCKeyOf == <<"pump:1", "pump:2", "pump:3">>
MCNameOf == <<"n1", "n2", "n2">>
Said(e, k, aliases) == [entity |-> e, chunk |-> k, aliases |-> aliases]
MCAttested ==
    (p1 :> {Said(1, k1, {}), Said(3, k2, {"a"})})
    @@ (p2 :> {Said(1, k2, {"a"}), Said(2, k2, {}), Said(3, k2, {"a"})})
Serial(e, k, v) == [entity |-> e, chunk |-> k, name |-> "serial", value |-> v]
MCKnown == (p1 :> {Serial(1, k1, "7"), Serial(3, k2, "8")}) @@ (p2 :> {Serial(1, k2, "7")})
Own(of, v) == [of |-> of, name |-> "serial", value |-> v]
MCCandidates ==
    [key : {"new:1", "pump:1"}, names : {{"n2"}, {"a", "n4"}, {"n4"}}, declared : {{}},
     facts : {<<>>}]
    \cup [key : {"new:1", "pump:1"}, names : {{"a", "n4"}}, declared : {{"serial"}},
          facts : {<<>>, <<Own("current", "7")>>, <<Own("current", "8")>>,
                   <<Own("other", "8"), Own("current", "7"), Own("current", "8")>>,
                   <<Own("current", "7"), Own("earlier", "8")>>}]
MCSimilar == {{"n1", "n4"}, {"n2", "n4"}}
OneCandidate == CHOOSE c \in MCCandidates : c.names = {"n4"}

\* Of a motor every property but its class and its shield, and a class that needs
\* the shield; parts of pumps, with a number; parts under parts; a pump that
\* drives a part.  Values that contradict, are invalid, untyped or said twice;
\* two records for one place, two values that differ in their confidence only, and
\* two pumps whose keys differ in their case only.
Motor(k) == [type |-> "Motor", key |-> k]
Pump(k) == [type |-> "Pump", key |-> k]
Part(k) == [type |-> "Part", key |-> k]
Family == [type |-> "Family", key |-> "f"]
Property(instances, properties, must, single, needed) ==
    [instances |-> instances, properties |-> properties, must |-> must, single |-> single,
     needed |-> needed]
MCEntityContract ==
    [Motor |-> Property(TRUE, {"power", "class", "shield"}, {"power"}, {"power", "class"},
                        {[property |-> "class", value |-> "2", name |-> "shield"]}),
     Pump |-> Property(TRUE, {}, {}, {}, {}), Part |-> Property(TRUE, {}, {}, {}, {}),
     Family |-> Property(FALSE, {}, {}, {}, {})]
Relation(from, into, pairs, must, one) ==
    [instances |-> TRUE, pairs |-> pairs, from |-> from, into |-> into,
     mustLeave |-> "leave" \in must, oneLeaves |-> "leave" \in one,
     mustArrive |-> "arrive" \in must, oneArrives |-> "arrive" \in one,
     properties |-> {"count"}, must |-> {}, single |-> {"count"}]
MCRelationContract ==
    [partOf |-> [Relation({"Part"}, {"Pump", "Part"}, {<<"Part", "Pump">>}, {"leave"}, {"leave"})
                 EXCEPT !.must = {"count"}],
     under  |-> Relation({"Part"}, {"Part"}, {}, {}, {}),
     drives |-> Relation({"Pump"}, {"Part"}, {}, {}, {"arrive"})]
MCValid == [power |-> {"1", "2"}, class |-> {"1", "2"}, shield |-> {"1"}, count |-> {"1", "2"}]
Mention(e, at, decision) ==
    [kind |-> "mention", entity |-> e, at |-> at, by |-> "x", decision |-> decision, format |-> 1]
Literal(e, on, name, value, typed, at) ==
    [kind |-> "literal", entity |-> e, on |-> on, name |-> name, value |-> value, typed |-> typed,
     at |-> at, by |-> "x", format |-> 1]
Link(e, on, name, to, onTo, values, at) ==
    [kind |-> "relation", entity |-> e, on |-> on, name |-> name, to |-> to, onTo |-> onTo,
     values |-> values, at |-> at, by |-> "x", format |-> 1]
Counted(v, sure) == {[name |-> "count", value |-> v, at |-> 7, sure |-> sure]}
MCSays ==
    [m0 |-> Mention(Motor("a"), 0, ""),
     d0 |-> Mention(Motor("a"), 0, "d0"),
     l1 |-> Literal(Motor("a"), "m0", "power", "1", TRUE, 1),
     l2 |-> Literal(Motor("a"), "m0", "power", "1", TRUE, 2),
     l3 |-> Literal(Motor("a"), "d0", "power", "2", TRUE, 3),
     l4 |-> Literal(Motor("a"), "m0", "class", "2", TRUE, 4),
     l5 |-> Literal(Motor("a"), "m0", "shield", "1", TRUE, 5),
     l6 |-> Literal(Motor("a"), "m0", "class", "3", TRUE, 6),
     l7 |-> Literal(Motor("a"), "m0", "power", "1", FALSE, 7),
     l8 |-> [Literal(Motor("a"), "m0", "class", "1", TRUE, 8) EXCEPT !.format = 0],
     m1 |-> Mention(Pump("p"), 1, ""),
     m2 |-> Mention(Pump("q"), 2, ""),
     m3 |-> Mention(Part("a"), 3, ""),
     m4 |-> Mention(Part("b"), 4, ""),
     m5 |-> Mention(Part("b"), 3, ""),
     m6 |-> Mention(Family, 5, ""),
     m7 |-> Mention(Pump("P"), 6, ""),
     r1 |-> Link(Part("a"), "m3", "partOf", Pump("p"), "m1", Counted("1", 9), 0),
     r2 |-> Link(Part("a"), "m3", "partOf", Pump("q"), "m2", Counted("2", 9), 0),
     r3 |-> Link(Part("b"), "m4", "partOf", Pump("p"), "m1", Counted("1", 9), 0),
     r4 |-> Link(Part("b"), "m4", "partOf", Pump("q"), "m2", Counted("1", 8), 0),
     r5 |-> Link(Part("a"), "m3", "under", Part("b"), "m4", {}, 0),
     r6 |-> Link(Part("b"), "m4", "under", Part("a"), "m3", {}, 0),
     r7 |-> Link(Pump("p"), "m1", "drives", Part("a"), "m3", {}, 1),
     r8 |-> Link(Pump("q"), "m2", "drives", Part("a"), "m3", {}, 1),
     r9 |-> Link(Part("a"), "m3", "partOf", Pump("p"), "m1", {}, 2)]
MCOffers == {{"m0", "d0", "l1", "l2", "l3", "l4", "l5", "l6", "l7", "l8"},
             {"m1", "m2", "m3", "m4", "r1", "r2", "r3", "r4"},
             {"m1", "m3", "m4", "r1", "r3", "r5", "r6", "m6", "m7"},
             {"m1", "m2", "m3", "m5", "r1", "r7", "r8", "r9"}}
MCFormer == {{"m0", "l7", "l8"}}
MCFolded == [n \in {"Motor", "Pump", "Part", "Family", "a", "b", "f", "p", "P", "q"} |->
                IF n = "P" THEN "p" ELSE n]

\* Three chunks of three versions: figures with and without their years, a date in
\* front, the means behind, a heading, an abbreviation, a comma before "but", one
\* sentence twice, and two states of one pump.
MCContext ==
    <<<<"acme", "revenue", "was", "five", "for", "fy23", ".",
        "acme", "sold", "beta", "to", "gamma", ".",
        "acme", "revenue", "was", "five", "for", "fy23", "and",
        "acme", "revenue", "was", "seven", "for", "fy24", ".">>,
      <<"on", "may1", "pump", "of", "acme", "inc", ".", "may", "fail", ",", "but", "runs", ";",
        "acme", "report", "fy24", "acme", "revenue", "was", "six", ".",
        "the", "pump", "is", "old", ".">>,
      <<"the", "pump", "is", "new", "through", "mechanisms", "of", "wear", ".",
        "acme", "costs", "was", "about", "seven", "for", "fy24", ";",
        "acme", "costs", "was", "five", "for", "fy23", ",",
        "acme", "costs", "was", "loss", "for", "fy24", ";",
        "acme", "revenue", "was", "six", "for", "fy23", ".">>>>
MCVersionCited == <<1, 2, 3>>
Quote(k, a, b) == [chunk |-> k, from |-> a, to |-> b]
MCQuotes == {Quote(1, 1, 7), Quote(1, 1, 6), Quote(1, 8, 12), Quote(1, 14, 26), Quote(2, 1, 12),
             Quote(2, 14, 20), Quote(2, 22, 25), Quote(3, 1, 8), Quote(3, 10, 16),
             Quote(3, 18, 30), Quote(3, 33, 37)}

\* A scope with up to two words left out, a short one with two words exchanged, and
\* three claims that leave out more.
Omit(words, gone) ==
    LET kept == {i \in DOMAIN words : i \notin gone}
    IN [n \in 1..Cardinality(kept) |->
           words[CHOOSE i \in kept : Cardinality({j \in kept : j < i}) = n - 1]]
Exchange(words, i) == [words EXCEPT ![i] = words[i + 1], ![i + 1] = words[i]]
Variants(words) ==
    {Omit(words, {i, j}) : i, j \in 0..Len(words)}
    \cup {Exchange(words, i) : i \in IF Len(words) < 6 THEN 1..(Len(words) - 1) ELSE {}}
Shortened == {<<"acme", "revenue", "was", "six">>, <<"acme", "revenue", "was", "seven">>,
              <<"the", "pump", "is", "new">>}
MCWordings ==
    [e \in {{q} : q \in MCQuotes} |->
        Shortened \cup UNION {Variants(WordsOf(s)) : s \in UNION {CitedScopes(q) : q \in e}}]
    @@ ({Quote(1, 1, 7), Quote(3, 33, 37)} :> Shortened)
MCBases == {{p, q} : p, q \in {Quote(1, 1, 7), Quote(1, 14, 26), Quote(2, 14, 20),
                               Quote(3, 10, 16), Quote(3, 18, 30), Quote(3, 33, 37)}}
MCComparisons ==
    [measure : {<<"revenue">>, <<"costs">>}, subject : {<<"acme">>, <<"beta">>}, from : {23},
     to : {24}, direction : {"increased", "decreased", "unchanged"}]
MCDisputes == {<<"pump">>, <<"acme", "revenue">>}
Figure(m, y, v) ==
    [measure |-> <<m>>, subject |-> <<"acme">>, year |-> y, value |-> v, unit |-> "M"]
MCStated == <<{Figure("revenue", 23, 5), Figure("revenue", 24, 7)}, {Figure("revenue", 24, 6)},
              {Figure("costs", 23, 5), Figure("costs", 24, 0 - 5), Figure("revenue", 23, 6)}>>

Resting == request = [answer |-> FALSE, rerank |-> FALSE]
ProjectionRests ==
    /\ selected = {} /\ limits = [nodes |-> 0, perNode |-> 0, links |-> 0, size |-> 0]
    /\ served = [marks |-> {}, links |-> {}] /\ waiting = [marks |-> <<>>, links |-> <<>>]
    /\ drawn = [marks |-> {}, links |-> {}] /\ quoted = {}

ContractRests ==
    /\ approved = {} /\ releases = <<>> /\ current = 0 /\ activated = 0 /\ graph = EmptyGraph

\* What a part does not read rests as well: no record cites k3, and only a
\* retrieval looks at the index.  A new revision takes the place of two repairs.
WhatIsRead ==
    /\ part = "browsing" => k3 \notin readable /\ repairs <= 3 - 2 * revision
    /\ part # "retrieval" => indexed = 0
    /\ part = "resolution" => k3 \notin readable /\ revision = 0 /\ repairs <= 1

Init ==
    /\ part \in Parts
    /\ RunnerInit /\ RetrievalInit /\ BrowsingInit /\ AuditInit
    /\ part # "retrieval" => Resting
    /\ part \in {"runner", "projection", "contract", "answer"} => readable = {}
    /\ candidate \in Candidates /\ ResolutionStart
    /\ part # "resolution" => candidate = OneCandidate
    /\ IF part = "projection" THEN ProjectionInit ELSE ProjectionRests
    /\ IF part = "contract" THEN ContractInit ELSE ContractRests
    /\ AnswerStart

browserVars == <<stage, view, clientVars, second>>
auditorVars == <<audit, purpose, report, audits, runs, decided, listing>>

Next ==
    /\ UNCHANGED part
    /\ \/ part = "runner" /\ RunnerNext
       \/ part = "retrieval" /\ RetrievalNext
       \/ part = "browsing" /\ BrowsingNext
       \/ part = "audit" /\ AuditNext
       \/ part = "projection" /\ ProjectionNext
       \/ part = "resolution" /\ ResolutionNext
       \/ part = "contract" /\ ContractNext
       \/ part = "answer" /\ AnswerNext
    /\ part \in {"runner", "projection", "contract", "answer"} => UNCHANGED corpusVars
    /\ part # "runner" => UNCHANGED runnerVars
    /\ part # "retrieval" => UNCHANGED readerVars
    /\ part # "browsing" => UNCHANGED browserVars
    /\ part # "audit" => UNCHANGED auditorVars
    /\ part # "projection" => UNCHANGED projectionVars
    /\ part # "resolution" => UNCHANGED resolutionVars
    /\ part # "contract" => UNCHANGED contractVars
    /\ part # "answer" => UNCHANGED answerVars

allVars == <<part, runnerVars, corpusVars, readerVars, browserVars, auditorVars,
             projectionVars, resolutionVars, contractVars, answerVars>>

(* Fairness is the runner's.  Where it rests none of its steps is enabled. *)
Spec == Init /\ [][Next]_allVars /\ \A call \in Calls : WF_runnerVars(Step(call))
=============================================================================
