--------------------------- MODULE EntityResolution ---------------------------
(***************************************************************************)
(* Which authoritative entity a candidate mention is proposed to be        *)
(* (knowledge/entity_resolution.py), and how a reviewer applies a proposal *)
(* (api/knowledge.py, knowledge/review_context.py).                        *)
(*                                                                         *)
(* The rules are tried in turn, each by queries of its own: the canonical  *)
(* key, the identity properties the T-Box declares, governed aliases, and  *)
(* last the names.  An exact rule first counts what it matches and then    *)
(* fetches the one match, in one read-committed transaction; only these    *)
(* link by themselves.  To apply a proposal the server computes it again,  *)
(* and the write compares identity properties once more.                   *)
(*                                                                         *)
(* Everything is of one entity type; names stand for their normalized      *)
(* keys, and entities for their place in the order of their identifiers.   *)
(***************************************************************************)
EXTENDS PublishedCorpus, Sequences

CONSTANTS
    Entities,    \* a set of numbers
    KeyOf,       \* the canonical key of an entity
    NameOf,      \* its canonical name
    Attested,   \* a release's authoritative mentions: [entity, chunk, aliases]
    Known,       \* its identity facts: [entity, chunk, name, value], beside a mention
    Candidates,  \* [key, names, declared, facts: a sequence of [of, name, value]]
    Similar,     \* the names that reach the threshold together
    ListLimit    \* authority_candidate_limit

ASSUME ResolutionAssumption ==
    /\ Entities \subseteq Nat
    /\ \A e, f \in Entities : KeyOf[e] = KeyOf[f] => e = f
    /\ ListLimit \in Nat \ {0}

VARIABLES
    candidate,
    turn,       \* the rule being tried, or "fetch", "write" and the ends
    counted,    \* the one match of an exact rule: [rule, entity, pin]
    suggestion, \* [kind, targets, evidence]
    chosen,     \* what the reviewer applies: [way, entity, mention]
    linked      \* the entity the mention was linked to

resolutionVars == <<candidate, turn, counted, suggestion, chosen, linked>>

None == 0
NoMention == [entity |-> None, chunk |-> None, aliases |-> {}]
NoCount == [rule |-> "none", entity |-> None, pin |-> NoPin]
NoSuggestion == [kind |-> "none", targets |-> {}, evidence |-> {}]
NoChoice == [way |-> "none", entity |-> None, mention |-> NoMention]

-----------------------------------------------------------------------------
(* What the reader sees of the active publication                          *)

Authority == IF release = NoRelease THEN {} ELSE {m \in Attested[release] : m.chunk \in Visible}
KnownFacts == IF release = NoRelease THEN {} ELSE {f \in Known[release] : f.chunk \in Visible}

\* The candidate's own facts, among the first so many of its entity.
Properties ==
    LET limit == Cardinality(candidate.declared) + 1
        firstRows == SubSeq(candidate.facts, 1,
                       IF Len(candidate.facts) < limit THEN Len(candidate.facts) ELSE limit)
    IN  SelectSeq(firstRows, LAMBDA f : f.of = "current" /\ f.name \in candidate.declared)

\* One value for each declared property.
ProperIdentity ==
    /\ {Properties[i].name : i \in DOMAIN Properties} = candidate.declared
    /\ Len(Properties) = Cardinality(candidate.declared)

Matched(rule, m) ==
    CASE rule = "key" -> KeyOf[m.entity] = candidate.key
      [] rule = "alias" -> m.aliases \cap candidate.names # {}
      [] rule = "identity" ->
            \A i \in DOMAIN Properties : \E f \in KnownFacts :
                /\ f.entity = m.entity
                /\ f.name = Properties[i].name /\ f.value = Properties[i].value

-----------------------------------------------------------------------------
(* A proposal                                                              *)

Offered(kind) == kind \in {"AUTO_LINK", "REVIEW"}

\* While a proposal is applied, the same target has to come out again.
Conclude(kind, targets, evidence) ==
    /\ suggestion' = [kind |-> kind, targets |-> targets, evidence |-> evidence]
    /\ turn' = IF chosen = NoChoice THEN "suggested"
               ELSE IF Offered(kind) /\ chosen.entity \in targets THEN "write" ELSE "refused"
    /\ UNCHANGED counted

Turn(rule) == turn' = rule /\ UNCHANGED <<suggestion, counted>>

Otherwise(rule) ==
    \/ rule = "key" /\ candidate.declared = {} /\ Turn("alias")
    \/ rule = "key" /\ candidate.declared # {} /\ ProperIdentity /\ Turn("identity")
    \/ /\ rule = "key" /\ candidate.declared # {} /\ ~ProperIdentity
       /\ Conclude("CONFLICT", {}, {})
    \/ rule = "identity" /\ Conclude("NO_MATCH", {}, {})
    \/ rule = "alias" /\ Turn("names")

CountMatches(rule) ==
    /\ turn = rule
    /\ LET found == {m.entity : m \in {a \in Authority : Matched(rule, a)}} IN
       \/ Cardinality(found) > 1 /\ Conclude("CONFLICT", {}, {})
       \/ \E entity \in found :
             /\ found = {entity}
             /\ counted' = [rule |-> rule, entity |-> entity, pin |-> Pin]
             /\ turn' = "fetch"
             /\ UNCHANGED suggestion
       \/ found = {} /\ Otherwise(rule)
    /\ UNCHANGED <<candidate, chosen, linked, corpusVars>>

\* Mutant: the target is looked for under whatever publication is active.
PinnedAnywhere == TRUE
Pinned ==
    release = counted.pin.release /\ activation = counted.pin.activation

FetchTarget ==
    /\ turn = "fetch"
    /\ LET evidence == {m \in Authority : m.entity = counted.entity /\ Matched(counted.rule, m)} IN
       IF Pinned /\ evidence # {}
       THEN Conclude("AUTO_LINK", {counted.entity}, evidence)
       ELSE turn' = "raised" /\ UNCHANGED <<suggestion, counted>>
    /\ UNCHANGED <<candidate, chosen, linked, corpusVars>>

Listed ==
    LET visible == {m.entity : m \in Authority} IN
    {e \in visible : Cardinality({f \in visible : f <= e}) <= ListLimit}

NamesGiven(e) == {NameOf[e]} \cup UNION {m.aliases : m \in {a \in Authority : a.entity = e}}

CompareNames ==
    /\ turn = "names"
    /\ LET same == {e \in Listed : NameOf[e] \in candidate.names}
           like == {e \in Listed : \E n \in candidate.names, k \in NamesGiven(e) : {n, k} \in Similar}
           of(es) == {m \in Authority : m.entity \in es}
       IN  \/ Cardinality(same) > 1 /\ Conclude("CONFLICT", same, of(same))
           \/ Cardinality(same) = 1 /\ Conclude("REVIEW", same, of(same))
           \/ same = {} /\ like # {} /\ Conclude("REVIEW", like, of(like))
           \/ same = {} /\ like = {} /\ Conclude("NO_MATCH", {}, {})
    /\ UNCHANGED <<candidate, chosen, linked, corpusVars>>

-----------------------------------------------------------------------------
(* Applying it                                                             *)

\* The proposal is computed anew, from the candidate on.
ApplySuggestion(entity) ==
    /\ turn = "suggested" /\ entity \in suggestion.targets
    /\ chosen' = [way |-> "suggested", entity |-> entity, mention |-> NoMention]
    /\ turn' = "key" /\ counted' = NoCount
    /\ UNCHANGED <<candidate, suggestion, linked, corpusVars>>

\* A reviewer names a confirmed mention instead.
SelectTarget(m) ==
    /\ turn = "suggested" /\ m \in Authority
    /\ chosen' = [way |-> "selected", entity |-> m.entity, mention |-> m]
    /\ turn' = "write"
    /\ UNCHANGED <<candidate, counted, suggestion, linked, corpusVars>>

\* All facts of the candidate's record, on earlier revisions too.
OwnValues(name) ==
    {candidate.facts[i].value : i \in {j \in DOMAIN candidate.facts :
        candidate.facts[j].of # "other" /\ candidate.facts[j].name = name}}
TargetValues(entity, name) ==
    {f.value : f \in {g \in KnownFacts : g.entity = entity /\ g.name = name}}

Contradicts(entity) ==
    \E name \in candidate.declared :
        LET own == OwnValues(name)
            other == TargetValues(entity, name)
        IN  Cardinality(own) > 1 \/ Cardinality(other) > 1
            \/ (own # {} /\ other # {} /\ own # other)

\* The write holds the lock of the tenant's corpus.  A suggested entity none of
\* whose mentions is in sight any more is not compared.
Uncontradicted ==
    IF chosen.way = "selected"
    THEN chosen.mention \in Authority /\ ~Contradicts(chosen.entity)
    ELSE (\E m \in Authority : m.entity = chosen.entity) => ~Contradicts(chosen.entity)

WriteLink ==
    /\ turn = "write"
    /\ IF Uncontradicted
       THEN turn' = "linked" /\ linked' = chosen.entity
       ELSE turn' = "refused" /\ UNCHANGED linked
    /\ UNCHANGED <<candidate, counted, suggestion, chosen, corpusVars>>

-----------------------------------------------------------------------------

ResolutionStart ==
    /\ turn = "key" /\ counted = NoCount /\ suggestion = NoSuggestion
    /\ chosen = NoChoice /\ linked = None

ResolutionInit == CorpusInit /\ candidate \in Candidates /\ ResolutionStart

GroundMoves ==
    /\ turn \notin {"linked", "refused", "raised"}
    /\ CorpusMoves \/ \E next \in SUBSET Chunks : RepairAccess(next)
    /\ UNCHANGED resolutionVars

ResolutionNext ==
    \/ \E rule \in {"key", "identity", "alias"} : CountMatches(rule)
    \/ FetchTarget
    \/ CompareNames
    \/ \E entity \in Entities : ApplySuggestion(entity)
    \/ \E r \in Releases : \E m \in Attested[r] : SelectTarget(m)
    \/ WriteLink
    \/ GroundMoves

ResolutionSpec == ResolutionInit /\ [][ResolutionNext]_<<corpusVars, resolutionVars>>

-----------------------------------------------------------------------------

(* A link is founded.  What is proposed as a link was the only match of an *)
(* exact rule, by evidence of the publication it was counted under, and a  *)
(* type with identity properties is never linked by a name, from the       *)
(* proposal to the write.  What was linked in spite of two values for one  *)
(* identity property had been withdrawn from sight before the write.       *)
LinkIsFounded ==
    /\ suggestion.kind = "AUTO_LINK" /\ turn \in {"suggested", "write", "linked"} =>
          /\ suggestion.targets = {counted.entity} /\ suggestion.evidence # {}
          /\ \A m \in suggestion.evidence :
                /\ m \in Attested[counted.pin.release] /\ m.entity = counted.entity
                /\ counted.rule # "identity" => Matched(counted.rule, m)
          /\ candidate.declared # {} => counted.rule # "alias"
    /\ turn = "linked" =>
          /\ chosen.entity = linked
          /\ chosen.way = "suggested" => linked \in suggestion.targets /\ Offered(suggestion.kind)
          /\ chosen.way = "suggested" /\ candidate.declared # {} => suggestion.kind = "AUTO_LINK"
          /\ (\E name \in candidate.declared : Cardinality(OwnValues(name)) > 1)
             => \A m \in Authority : m.entity # linked
=============================================================================
