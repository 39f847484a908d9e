--------------------------- MODULE ReleaseContract ---------------------------
(***************************************************************************)
(* What a release has to satisfy as a whole (knowledge/review.py), the     *)
(* navigation graph that is made of it, and the audit that recounts both   *)
(* from what is stored (graph/published_quality.py).                       *)
(*                                                                         *)
(* A publication takes approved revisions into the active manifest or out  *)
(* of it; a rollback brings an earlier manifest back.  Either checks the   *)
(* whole manifest against the bound T-Box, undoes the graph of the active  *)
(* release and makes the graph of the next one, in one transaction.        *)
(*                                                                         *)
(* The T-Box is constant.  The heads, snapshots and policies of the        *)
(* records are KnowledgePublication's; a revision keeps its name when it   *)
(* is published.                                                           *)
(***************************************************************************)
EXTENDS Naturals, FiniteSets, Sequences

CONSTANTS
    EntityContract,   \* of each type: instances, properties, must, single, needed
    RelationContract, \* of each relationship type: the types of its ends, how
                      \* many of them, and its own properties
    Hierarchies,      \* the relationship types that build a hierarchy
    Valid,            \* of each property: the values that its definition admits
    Says,             \* what each revision says
    Offers,           \* the sets of revisions that have been approved by then
    Former,           \* manifests of earlier versions, whose records say less
    Folded,           \* of each type and key: what is left without its case
    MaxChange,
    MaxReleases

VARIABLES
    approved,  \* the revisions that can be published
    releases,  \* the manifest of each release
    current,   \* the active release; 0 before the first
    activated, \* how often a release was activated
    graph      \* the navigation graph

contractVars == <<approved, releases, current, activated, graph>>

MentionsIn(m) == {r \in m : Says[r].kind = "mention"}
LiteralsIn(m) == {r \in m : Says[r].kind = "literal"}
RelationsIn(m) == {r \in m : Says[r].kind = "relation"}
Untyped(r) == Says[r].kind = "literal" /\ ~Says[r].typed

\* An assertion that was approved before it had room for its own properties.
Format == 1
Unformatted(r) == Says[r].format # Format

EntitiesIn(m) == {Says[r].entity : r \in m} \cup {Says[r].to : r \in RelationsIn(m)}

-----------------------------------------------------------------------------
(* The contract of a manifest                                              *)

Closed(m) ==
    /\ \A r \in LiteralsIn(m) \cup RelationsIn(m) : Says[r].on \in m
    /\ \A r \in RelationsIn(m) : Says[r].onTo \in m

Bounded(n, must, single) == (must => n > 0) /\ (single => n <= 1)

\* Repeated evidence of one meaning counts once; an untyped value is a meaning
\* of its own.
Meaning(r) == IF Untyped(r) THEN [value |-> Says[r].value, of |-> r]
                            ELSE [value |-> Says[r].value, of |-> ""]
Meanings(m, e, name) ==
    {Meaning(r) : r \in {l \in LiteralsIn(m) : Says[l].entity = e /\ Says[l].name = name}}

\* A condition looks at a property with one value.
TypedValues(m, e, name) == {v.value : v \in {w \in Meanings(m, e, name) : w.of = ""}}

LiteralDeclared(r) ==
    /\ Says[r].name \in EntityContract[Says[r].entity.type].properties
    /\ Untyped(r) \/ Says[r].value \in Valid[Says[r].name]

EntityKept(m, e) ==
    LET contract == EntityContract[e.type] IN
    /\ contract.instances
    /\ \A need \in contract.needed :
          need.value \in TypedValues(m, e, need.property) => TypedValues(m, e, need.name) # {}
    /\ \A name \in contract.properties :
          Bounded(Cardinality(Meanings(m, e, name)), name \in contract.must,
                  name \in contract.single)

Named(r, name) == {v \in Says[r].values : v.name = name}

\* Here it is the values that count, not their meanings.
ValuesKept(r) ==
    LET contract == RelationContract[Says[r].name] IN
    /\ \A v \in Says[r].values : v.name \in contract.properties /\ v.value \in Valid[v.name]
    /\ \A name \in contract.properties :
          Bounded(Cardinality(Named(r, name)), name \in contract.must, name \in contract.single)

Relates(r) ==
    LET contract == RelationContract[Says[r].name]
        pair == <<Says[r].entity.type, Says[r].to.type>>
    IN  /\ contract.instances
        /\ contract.pairs # {} => pair \in contract.pairs
        /\ pair[1] \in contract.from /\ pair[2] \in contract.into

Partners(m, name, e) ==
    {Says[r].to : r \in {q \in RelationsIn(m) : Says[q].name = name /\ Says[q].entity = e}}
Owners(m, name, e) ==
    {Says[r].entity : r \in {q \in RelationsIn(m) : Says[q].name = name /\ Says[q].to = e}}

LeavingKept(m, name) ==
    LET contract == RelationContract[name] IN
    \A e \in EntitiesIn(m) : e.type \in contract.from =>
        Bounded(Cardinality(Partners(m, name, e)), contract.mustLeave, contract.oneLeaves)
ArrivingKept(m, name) ==
    LET contract == RelationContract[name] IN
    \A e \in EntitiesIn(m) : e.type \in contract.into =>
        Bounded(Cardinality(Owners(m, name, e)), contract.mustArrive, contract.oneArrives)

\* Mutant: what arrives at an entity is not counted.
EndsHalfKept(m, name) == LeavingKept(m, name)

EndsKept(m, name) == LeavingKept(m, name) /\ ArrivingKept(m, name)

Edges(m, name) ==
    {<<Says[r].entity, Says[r].to>> : r \in {q \in RelationsIn(m) : Says[q].name = name}}

\* Kahn's algorithm: what nothing leads to any more goes, round after round.
Acyclic(edges) ==
    LET nodes == UNION {{e[1], e[2]} : e \in edges}
        left[n \in 0..Cardinality(nodes)] ==
            IF n = 0 THEN nodes
            ELSE {v \in left[n - 1] : \E u \in left[n - 1] : <<u, v>> \in edges}
    IN  left[Cardinality(nodes)] = {}

MeetsContract(m) ==
    /\ Closed(m)
    /\ \A r \in LiteralsIn(m) : LiteralDeclared(r)
    /\ \A e \in EntitiesIn(m) : EntityKept(m, e)
    /\ \A r \in RelationsIn(m) : Relates(r) /\ ValuesKept(r)
    /\ \A name \in DOMAIN RelationContract : EndsKept(m, name)
    /\ \A name \in Hierarchies : Acyclic(Edges(m, name))

-----------------------------------------------------------------------------
(* The navigation graph                                                    *)

ValueId(r, v) == [relation |-> Says[r].name, name |-> v.name, value |-> v.value,
                  at |-> v.at, by |-> Says[r].by]

Object(r) ==
    CASE Says[r].kind = "relation" -> [type |-> Says[r].to.type, key |-> Says[r].to.key,
                                       values |-> {ValueId(r, v) : v \in Says[r].values}]
      [] Says[r].kind = "literal" -> [type |-> "literal", key |-> Says[r].value, values |-> {}]
      [] OTHER -> [type |-> "", key |-> "", values |-> {}]

\* A mention is named by what stands where, not by its entity; a decision about
\* the owner of a property is a mention of its own.
NavigationId(r) ==
    LET mention == Says[r].kind = "mention" IN
    [kind    |-> IF mention THEN "mention" ELSE "assertion",
     subject |-> IF mention THEN [Says[r].entity EXCEPT !.key = ""] ELSE Says[r].entity,
     name    |-> IF mention THEN Says[r].decision ELSE Says[r].name,
     object  |-> Object(r), at |-> Says[r].at, by |-> Says[r].by]

NewNodes(m, p) ==
    {[id |-> NavigationId(r), revision |-> r, release |-> p, format |-> Format] : r \in m}
NewValues(m) ==
    UNION {{[id |-> ValueId(r, v), sure |-> v.sure] : v \in Says[r].values} : r \in RelationsIn(m)}
NewHolds(m) ==
    UNION {{[node |-> NavigationId(r), value |-> ValueId(r, v)] : v \in Says[r].values}
           : r \in RelationsIn(m)}

\* What an id names is made once; two makers have to agree on all of it.
Agree(things) == \A x, y \in things : x.id = y.id => x = y
Agreed(g, m, p) == Agree(g.nodes \cup NewNodes(m, p)) /\ Agree(g.values \cup NewValues(m))

\* Nodes stay where they are still a member of something, values where they are
\* still held.
Deactivated(g, p) ==
    LET members == {x \in g.members : x.release # p}
        nodes == {x \in g.nodes : x.release = p => \E y \in members : y.node = x.id}
        holds == {h \in g.holds : \E x \in nodes : x.id = h.node}
    IN  [nodes |-> nodes, members |-> members,
         entities |-> {x \in g.entities : x.release # p},
         holds |-> holds, values |-> {v \in g.values : \E h \in holds : h.value = v.id}]

Materialized(g, m, p, time) ==
    [nodes    |-> g.nodes \cup NewNodes(m, p),
     members  |-> g.members \cup {[node |-> NavigationId(r), release |-> p, time |-> time]
                                  : r \in m},
     entities |-> g.entities \cup {[entity |-> Says[r].entity, release |-> p] : r \in MentionsIn(m)},
     holds    |-> g.holds \cup NewHolds(m),
     values   |-> g.values \cup NewValues(m)]

Activate(m, p) ==
    LET left == Deactivated(graph, current) IN
    /\ MeetsContract(m)
    /\ Agreed(left, m, p)
    /\ activated' = activated + 1
    /\ graph' = Materialized(left, m, p, activated')
    /\ current' = p

Manifest == IF current = 0 THEN {} ELSE releases[current]

\* What is approved now is typed and has today's format; what is carried need not be.
\* Bound: MaxChange revisions come or go at once, except in a first release.
PublishRelease ==
    /\ activated < MaxReleases
    /\ \E added \in SUBSET (approved \ Manifest), removed \in SUBSET Manifest :
          LET next == (Manifest \ removed) \cup added IN
          /\ current = 0 \/ Cardinality(added \cup removed) <= MaxChange
          /\ next # Manifest
          /\ \A r \in added : ~Untyped(r) /\ ~Unformatted(r)
          /\ releases' = Append(releases, next)
          /\ Activate(next, Len(releases) + 1)
    /\ UNCHANGED approved

RestoreRelease ==
    /\ activated < MaxReleases
    /\ \E p \in 1..Len(releases) \ {current} : Activate(releases[p], p)
    /\ UNCHANGED <<approved, releases>>

EmptyGraph == [nodes |-> {}, members |-> {}, entities |-> {}, holds |-> {}, values |-> {}]

\* Before the first release, or with records of an earlier version whose graph
\* was made again since.
ContractInit ==
    /\ approved \in Offers
    /\ activated = 0
    /\ \/ releases = <<>> /\ current = 0 /\ graph = EmptyGraph
       \/ \E m \in Former : /\ m \subseteq approved
                           /\ releases = <<m>> /\ current = 1
                           /\ graph = Materialized(EmptyGraph, m, 1, 0)

(* There are finitely many revisions.  An assertion was approved with      *)
(* mentions of its ends (_approved_endpoint_tx), and a manifest of an      *)
(* earlier version passed the same gate.  Only assertions have formats.    *)
ASSUME ContractAssumption ==
    /\ IsFiniteSet(DOMAIN Says)
    /\ \A m \in Offers \cup Former : m \subseteq DOMAIN Says
    /\ \A r \in DOMAIN Says :
          /\ Says[r].kind \in {"mention", "literal", "relation"}
          /\ Says[r].kind = "mention" => ~Unformatted(r)
          /\ Says[r].kind # "mention" /\ Says[r].on \in DOMAIN Says =>
                /\ Says[Says[r].on].kind = "mention"
                /\ Says[Says[r].on].entity = Says[r].entity
          /\ Says[r].kind = "relation" /\ Says[r].onTo \in DOMAIN Says =>
                /\ Says[Says[r].onTo].kind = "mention"
                /\ Says[Says[r].onTo].entity = Says[r].to
    /\ \A m \in Former : MeetsContract(m) /\ Agreed(EmptyGraph, m, 1)

ContractNext == PublishRelease \/ RestoreRelease

ContractSpec == ContractInit /\ [][ContractNext]_contractVars

-----------------------------------------------------------------------------
(* The audit                                                               *)

NodesOf(r) == {x \in graph.nodes : x.release = current /\ x.revision = r}
MembersOf(r) ==
    {y \in graph.members : y.release = current /\ \E x \in NodesOf(r) : x.id = y.node}

\* Computed again from the revision.
ExpectedId(r) == NavigationId(r)
ExpectedValues(r) == {[id |-> ValueId(r, v), sure |-> v.sure] : v \in Says[r].values}

ProjectionPasses(r) ==
    /\ Cardinality(MembersOf(r)) = 1
    /\ Cardinality(NodesOf(r)) = 1
    /\ \A x \in NodesOf(r) : x.id = ExpectedId(r) /\ x.format = Says[r].format

\* An end is supported by a mention of it that is published with the assertion.
Supported(m, mention, e) == mention \in MentionsIn(m) /\ Says[mention].entity = e

HeldBy(r) == {h.value : h \in {g \in graph.holds : \E x \in NodesOf(r) : x.id = g.node}}

RelationPasses(m, r) ==
    LET contract == RelationContract[Says[r].name] IN
        /\ Says[r].entity.type \in contract.from /\ Says[r].to.type \in contract.into
        /\ Supported(m, Says[r].on, Says[r].entity) /\ Supported(m, Says[r].onTo, Says[r].to)
        /\ ValuesKept(r)
        /\ {v \in graph.values : v.id \in HeldBy(r)} = ExpectedValues(r)

LiteralPasses(m, r) ==
    /\ Says[r].typed /\ LiteralDeclared(r)
    /\ Supported(m, Says[r].on, Says[r].entity)
    /\ HeldBy(r) = {}

\* The entities of the revisions and of the snapshots.
AuditedEntities(m) ==
    EntitiesIn(m) \cup {x.entity : x \in {y \in graph.entities : y.release = current}}

SameFolded(e, f) == Folded[e.type] = Folded[f.type] /\ Folded[e.key] = Folded[f.key]

EntityPasses(m, e) ==
    /\ \A f \in AuditedEntities(m) : SameFolded(e, f) => f = e
    /\ \E r \in MentionsIn(m) : Says[r].entity = e
    /\ [entity |-> e, release |-> current] \in graph.entities
    /\ LET contract == EntityContract[e.type] IN
       \A name \in contract.properties :
           Bounded(Cardinality(Meanings(m, e, name)), name \in contract.must,
                   name \in contract.single)

\* Counted over the pairs whose ends have the right types.
EndsPass(m, name) ==
    LET contract == RelationContract[name]
        pairs == {x \in Edges(m, name) : /\ x[1].type \in contract.from
                                         /\ x[2].type \in contract.into}
    IN  \A e \in AuditedEntities(m) :
            /\ e.type \in contract.from =>
                 Bounded(Cardinality({x \in pairs : x[1] = e}), contract.mustLeave, contract.oneLeaves)
            /\ e.type \in contract.into =>
                 Bounded(Cardinality({x \in pairs : x[2] = e}), contract.mustArrive, contract.oneArrives)

-----------------------------------------------------------------------------

Reaches(edges, u, v) ==
    \A S \in SUBSET UNION {{e[1], e[2]} : e \in edges} :
        (/\ \A e \in edges : e[1] = u => e[2] \in S
         /\ \A e \in edges : e[1] \in S => e[2] \in S)
        => v \in S

(* Whatever is published, carried over, taken out or restored, the audit   *)
(* that counts the active release again agrees with the gate that let it   *)
(* through: every record is in the navigation graph exactly once and as it *)
(* was approved, and the contract is met (published_quality.py:            *)
(* "deliberately mirrors the publication gate").  It objects to three      *)
(* things that the gate lets through, and to nothing else: to a carried    *)
(* literal without a type, to a carried assertion of the earlier format,   *)
(* and to entities whose types and keys differ in case only, which are two *)
(* entities to the gate.  And no hierarchy has a cycle.                    *)
ReleasePassesAudit ==
    current # 0 =>
        /\ \A r \in Manifest : ProjectionPasses(r) <=> ~Unformatted(r)
        /\ \A r \in RelationsIn(Manifest) : RelationPasses(Manifest, r)
        /\ \A r \in LiteralsIn(Manifest) : LiteralPasses(Manifest, r) <=> ~Untyped(r)
        /\ \A e \in AuditedEntities(Manifest) :
              EntityPasses(Manifest, e)
              <=> \A f \in EntitiesIn(Manifest) : SameFolded(e, f) => f = e
        /\ \A name \in DOMAIN RelationContract : EndsPass(Manifest, name)
        /\ \A name \in Hierarchies :
              \A x \in Edges(Manifest, name) : ~Reaches(Edges(Manifest, name), x[2], x[1])
=============================================================================
