------------------------- MODULE EvidenceProjection -------------------------
(***************************************************************************)
(* The graph that is shown beside the result of a retrieval                *)
(* (retrieval/subgraph.py, _project_rows): the entities mentioned in the   *)
(* selected chunks, and the assertions one step away from them.            *)
(*                                                                         *)
(* The rows come from two queries with limits of their own.  They are      *)
(* admitted one by one, mentions first, under three budgets: entities,     *)
(* mentions of one entity, and characters of evidence.  A row that does    *)
(* not fit is skipped, and a later one may fit again.                      *)
(*                                                                         *)
(* Chunks, mentions and assertions are numbered in the order of the rows.  *)
(* A quotation is one character; the checks that raise on a row that the   *)
(* queries cannot return are left out.                                     *)
(***************************************************************************)
EXTENDS Naturals, Sequences, FiniteSets

CONSTANTS
    Texts,     \* the chunks of the publication
    Marks,     \* the mentions
    TextOf,    \* the chunk of a mention
    NodeOf,    \* its entity
    Links,     \* the assertions
    EndsOf,    \* the mentions of an assertion: subject, and object if it has one
    ContextOf, \* the chunk of its context evidence; 0 without one
    TextSize   \* the characters of a chunk

ASSUME ProjectionAssumption ==
    /\ Texts \subseteq Nat \ {0} /\ IsFiniteSet(Marks) /\ Marks \subseteq Nat
    /\ TextOf \in [Marks -> Texts] /\ NodeOf \in [Marks -> Nat]
    /\ \A m, n \in Marks : NodeOf[m] < NodeOf[n] => m < n
    /\ IsFiniteSet(Links) /\ Links \subseteq Nat
    /\ \A l \in Links : EndsOf[l] \in Seq(Marks) /\ Len(EndsOf[l]) \in 1..2
    /\ \A l \in Links : \A i \in DOMAIN EndsOf[l] : TextOf[EndsOf[l][i]] = TextOf[EndsOf[l][1]]
    /\ ContextOf \in [Links -> Texts \cup {0}]
    /\ TextSize \in Nat

VARIABLES
    selected, \* the chunks of the result
    limits,   \* EvidenceSubgraphLimits
    served,   \* the mentions and assertions that are published and visible
    waiting,  \* the rows that are still to be admitted
    drawn,    \* the mentions attached to nodes, and the assertions
    quoted    \* reserved_evidence

projectionVars == <<selected, limits, served, waiting, drawn, quoted>>

Nodes(marks) == {NodeOf[m] : m \in marks}
Ends(l) == {EndsOf[l][i] : i \in DOMAIN EndsOf[l]}
Least(S) == CHOOSE x \in S : \A y \in S : x <= y
First(n, s) == SubSeq(s, 1, IF n < Len(s) THEN n ELSE Len(s))
InOrder(S) ==
    [i \in 1..Cardinality(S) |-> CHOOSE x \in S : Cardinality({y \in S : y <= x}) = i]

-----------------------------------------------------------------------------
(* The queries                                                             *)

Mentioned == {m \in served.marks : TextOf[m] \in selected}

MentionRows == First(limits.nodes * limits.perNode, InOrder(Mentioned))

\* The query for assertions has its own seeds, of which an assertion gets the
\* least, with its first selected chunk.
SeedNodes ==
    LET s == First(limits.nodes, InOrder(Nodes(Mentioned))) IN {s[i] : i \in DOMAIN s}
SeedFor(l) ==
    LET node == Least(Nodes(Ends(l)) \cap SeedNodes)
    IN  [node |-> node, text |-> Least({TextOf[m] : m \in {n \in Mentioned : NodeOf[n] = node}})]

AssertionRows ==
    First(limits.links,
          InOrder({l \in served.links : Nodes(Ends(l)) \cap SeedNodes # {}}))

-----------------------------------------------------------------------------
(* The budgets                                                             *)

Attached(node) == {m \in drawn.marks : NodeOf[m] = node}

NodesFit(marks) ==
    Cardinality(Nodes(drawn.marks) \cup Nodes(marks)) <= limits.nodes

\* Mutant: an assertion is drawn although the mentions of its ends have no room.
AnyFits(m) == TRUE
MarkFits(m) == m \in drawn.marks \/ Cardinality(Attached(NodeOf[m])) < limits.perNode

MarkEvidence(m) == [of |-> "mention", id |-> m, text |-> TextOf[m]]
LinkEvidence(l) ==
    {MarkEvidence(m) : m \in Ends(l)}
    \cup {[of |-> "assertion", id |-> l, text |-> TextOf[EndsOf[l][1]]]}
    \cup {[of |-> "assertion", id |-> l, text |-> t] : t \in {ContextOf[l]} \ {0}}

\* A quotation costs its own text, and its chunk when that is shown for the
\* first time.
Cost(items) == Cardinality(items) + TextSize * Cardinality({e.text : e \in items})
EvidenceFits(items) == Cost(quoted \cup items) <= limits.size

-----------------------------------------------------------------------------

ReadMention ==
    /\ waiting.marks # <<>>
    /\ LET m == Head(waiting.marks) IN
       IF NodesFit({m}) /\ MarkFits(m) /\ EvidenceFits({MarkEvidence(m)})
       THEN /\ drawn' = [drawn EXCEPT !.marks = @ \cup {m}]
            /\ quoted' = quoted \cup {MarkEvidence(m)}
       ELSE UNCHANGED <<drawn, quoted>>
    /\ waiting' = [waiting EXCEPT !.marks = Tail(@)]
    /\ UNCHANGED <<selected, limits, served>>

\* The subject first; the object of a relation with itself may have no room left.
Attach(marks, m) ==
    IF Cardinality({n \in marks : NodeOf[n] = NodeOf[m]}) < limits.perNode
    THEN marks \cup {m} ELSE marks

AttachEnds(marks, ends) ==
    IF Len(ends) = 1 THEN Attach(marks, ends[1]) ELSE Attach(Attach(marks, ends[1]), ends[2])

\* The seed was admitted, with its mention in the selected chunk.
SeedAdmitted(l) == \E m \in Attached(SeedFor(l).node) : TextOf[m] = SeedFor(l).text

ReadAssertion ==
    /\ waiting.marks = <<>> /\ waiting.links # <<>>
    /\ LET l == Head(waiting.links) IN
       IF /\ SeedAdmitted(l)
          /\ NodesFit(Ends(l))
          /\ \A m \in Ends(l) : MarkFits(m)
          /\ EvidenceFits(LinkEvidence(l))
       THEN /\ drawn' = [marks |-> AttachEnds(drawn.marks, EndsOf[l]),
                         links |-> drawn.links \cup {l}]
            /\ quoted' = quoted \cup LinkEvidence(l)
       ELSE UNCHANGED <<drawn, quoted>>
    /\ waiting' = [waiting EXCEPT !.links = Tail(@)]
    /\ UNCHANGED <<selected, limits, served>>

ProjectionInit ==
    /\ selected \in (SUBSET Texts) \ {{}}
    /\ limits \in [nodes : 1..2, perNode : 1..2, links : 1..2,
                   size : {TextSize + 2, 2 * TextSize + 5}]
    /\ \E links \in SUBSET Links :
          /\ served \in [marks : SUBSET Marks, links : {links}]
          /\ \A l \in links : Ends(l) \subseteq served.marks
    /\ waiting = [marks |-> MentionRows, links |-> AssertionRows]
    /\ drawn = [marks |-> {}, links |-> {}]
    /\ quoted = {}

ProjectionNext == ReadMention \/ ReadAssertion

ProjectionSpec == ProjectionInit /\ [][ProjectionNext]_projectionVars

-----------------------------------------------------------------------------

Shown == {MarkEvidence(m) : m \in drawn.marks} \cup UNION {LinkEvidence(l) : l \in drawn.links}

(* Whatever was skipped, the graph that is shown is whole and within its   *)
(* budgets: an assertion hangs on nodes that show the mentions it was      *)
(* approved with, one of them mentioned in the result itself, and all the  *)
(* evidence that is shown was counted (_project_rows).                     *)
ProjectionIsWhole ==
    /\ \A l \in drawn.links :
          /\ EndsOf[l][1] \in drawn.marks
          /\ \A m \in Ends(l) :
                /\ NodeOf[m] \in Nodes(drawn.marks)
                /\ NodeOf[m] # NodeOf[EndsOf[l][1]] => m \in drawn.marks
          /\ \E m \in drawn.marks : NodeOf[m] \in Nodes(Ends(l)) /\ TextOf[m] \in selected
    /\ Cardinality(Nodes(drawn.marks)) <= limits.nodes
    /\ \A m \in drawn.marks : Cardinality(Attached(NodeOf[m])) <= limits.perNode
    /\ Cost(Shown) <= limits.size
=============================================================================
