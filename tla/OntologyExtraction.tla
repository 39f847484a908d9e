------------------------- MODULE OntologyExtraction -------------------------
(***************************************************************************)
(* What becomes of one answer of the extraction model                      *)
(* (construction/extraction.py): it is validated against the chunk and the *)
(* T-Box, turned into domain objects, saved as an audit, and the audit is  *)
(* turned into the batch of A-Box records that is persisted                *)
(* (construction/workflow.py).  Each stage checks again what it is given,  *)
(* and raises where it disagrees with the stage before.                    *)
(*                                                                         *)
(* An answer names its entities by local references; the audit and the     *)
(* records know them by their type and their mentions.  A span is a pair   *)
(* of offsets in the chunk; exact says that the quoted text is the text at *)
(* the span, sure that the confidence reaches its threshold, and whole     *)
(* that every object has its fields, strings, offsets and numbers.  An     *)
(* answer with one fault is rejected as a whole, so that the checks need   *)
(* not go on without the faulty item.                                      *)
(***************************************************************************)
EXTENDS Naturals, Sequences, FiniteSets, SequencesExt

CONSTANTS
    Answers,       \* the answers of the model
    ChunkStart,    \* where the chunk begins in its document
    ChunkLength,   \* the characters of the chunk
    InstanceTypes, \* entity types that may have instances
    Declares,      \* the properties of a type
    Relates,       \* the relationship types: their pairs of types, their properties
    MandatoryOf,   \* the required properties among those
    SingleValued,  \* the properties of cardinality at most one
    Conditional,   \* [needs |-> p, given |-> q, values |-> set]: p is required beside these
    Textual,       \* the properties whose datatype is STRING
    Normal,        \* the canonical value of a property, a raw literal and its unit
    NoValue,
    WordAt,        \* where a token occurs as a word
    PieceAt,       \* where it occurs next to CJK text as well
    MaxOf          \* limits: entities, mentions, relations, properties

VARIABLES
    answer,
    progress, \* "answered", "rejected", "refused", "audited", "stuck" or "kept"
    audit,    \* the saved output
    kept      \* the persisted batch

extractionVars == <<answer, progress, audit, kept>>

Nothing == [entities |-> <<>>, mentions |-> {}, assertions |-> <<>>, status |-> "NONE"]

-----------------------------------------------------------------------------
(* Spans, mentions and tokens                                              *)

Within(inner, outer) == outer[1] <= inner[1] /\ inner[2] <= outer[2]

Quotes(item) ==
    item.exact /\ item.span[1] < item.span[2] /\ item.span[2] <= ChunkLength

SpansOf(entity) == {entity.mentions[i].span : i \in DOMAIN entity.mentions}

\* A whole answer is made of lists, and its spans of offsets.
ASSUME ExtractionAssumption ==
    /\ ChunkStart \in Nat /\ ChunkLength \in Nat
    /\ \A a \in Answers : a.whole =>
          /\ a.entities \in Seq(ToSet(a.entities)) /\ a.relations \in Seq(ToSet(a.relations))
          /\ a.facts \in Seq(ToSet(a.facts))
          /\ \A e \in ToSet(a.entities) :
                e.mentions \in Seq(ToSet(e.mentions)) /\ SpansOf(e) \subseteq Nat \X Nat
          /\ \A r \in ToSet(a.relations) : r.span \in Nat \X Nat
                /\ \A p \in ToSet(r.properties) : p.span \in Nat \X Nat
          /\ \A f \in ToSet(a.facts) : f.span \in Nat \X Nat

\* Mutant: a mention that begins in the evidence is enough.
Overlaps(span, entity) ==
    \E s \in SpansOf(entity) : span[1] <= s[1] /\ s[1] < span[2]
Encloses(span, entity) == \E s \in SpansOf(entity) : Within(s, span)

\* The literal and its unit stand in the evidence; a textual literal may touch
\* other CJK text.
TokensWithin(p) ==
    /\ \E s \in IF p.name \in Textual THEN PieceAt[p.raw] ELSE WordAt[p.raw] :
          Within(s, p.span)
    /\ p.unit # NoValue => \E s \in WordAt[p.unit] : Within(s, p.span)

ValueOf(p) == Normal[p.name, p.raw, p.unit]

ProperValue(p, names) ==
    p.name \in names /\ Quotes(p) /\ TokensWithin(p) /\ ValueOf(p) # NoValue

-----------------------------------------------------------------------------
(* Validation                                                              *)

WithinLimits(a) ==
    /\ Len(a.entities) <= MaxOf.entities
    /\ Len(a.relations) <= MaxOf.relations
    /\ Len(a.facts) + FoldLeft(LAMBDA n, r : n + Len(r.properties), 0, a.relations)
          <= MaxOf.properties

ProperEntity(e) ==
    /\ e.type \in InstanceTypes
    /\ Len(e.mentions) \in 1..MaxOf.mentions
    /\ \A i \in DOMAIN e.mentions : Quotes(e.mentions[i])
    /\ Cardinality(SpansOf(e)) = Len(e.mentions)

References(a) == {a.entities[i].ref : i \in DOMAIN a.entities}
Referred(a, ref) == CHOOSE e \in ToSet(a.entities) : e.ref = ref

DistinctBy(s, Key(_)) == Cardinality({Key(s[i]) : i \in DOMAIN s}) = Len(s)

NamesOf(properties) == {properties[i].name : i \in DOMAIN properties}
CountOf(name, properties) == Cardinality({i \in DOMAIN properties : properties[i].name = name})

\* The last value given counts.
Meets(condition, properties) ==
    \E i \in DOMAIN properties :
        /\ properties[i].name = condition.given /\ ValueOf(properties[i]) \in condition.values
        /\ \A j \in DOMAIN properties : j > i => properties[j].name # condition.given

ProperProperties(r) ==
    LET declared == Relates[r.type].properties IN
    /\ \A i \in DOMAIN r.properties :
          ProperValue(r.properties[i], declared) /\ Within(r.properties[i].span, r.span)
    /\ DistinctBy(r.properties, LAMBDA p : <<p.name, ValueOf(p), p.span>>)
    /\ declared \cap MandatoryOf \subseteq NamesOf(r.properties)
    /\ \A name \in declared \cap SingleValued : CountOf(name, r.properties) <= 1
    /\ \A c \in Conditional :
          c.needs \in declared /\ Meets(c, r.properties) => c.needs \in NamesOf(r.properties)

ProperRelation(a, r) ==
    /\ r.type \in DOMAIN Relates
    /\ {r.source, r.target} \subseteq References(a)
    /\ <<Referred(a, r.source).type, Referred(a, r.target).type>> \in Relates[r.type].pairs
    /\ Quotes(r)
    /\ Encloses(r.span, Referred(a, r.source)) /\ Encloses(r.span, Referred(a, r.target))
    /\ ProperProperties(r)

\* The types in the table are all types of the T-Box.
ProperFact(a, f) ==
    /\ f.of \in References(a)
    /\ ProperValue(f, Declares[Referred(a, f.of).type])
    /\ Encloses(f.span, Referred(a, f.of))

WithinCardinality(facts) ==
    \A i, j \in DOMAIN facts :
        i # j /\ facts[i].of = facts[j].of /\ facts[i].name = facts[j].name
        => facts[i].name \notin SingleValued

Accepted(a) ==
    /\ a.whole
    /\ WithinLimits(a)
    /\ \A i \in DOMAIN a.entities : ProperEntity(a.entities[i])
    /\ Cardinality(References(a)) = Len(a.entities)
    /\ \A i \in DOMAIN a.relations : ProperRelation(a, a.relations[i])
    /\ DistinctBy(a.relations, LAMBDA r : <<r.type, r.source, r.target, r.span>>)
    /\ \A i \in DOMAIN a.facts : ProperFact(a, a.facts[i])
    /\ DistinctBy(a.facts, LAMBDA f : <<f.of, f.name, ValueOf(f), f.span>>)
    /\ WithinCardinality(a.facts)

Confident(a) ==
    /\ \A e \in ToSet(a.entities) : \A m \in ToSet(e.mentions) : m.sure
    /\ \A r \in ToSet(a.relations) : r.sure /\ \A p \in ToSet(r.properties) : p.sure
    /\ \A f \in ToSet(a.facts) : f.sure

-----------------------------------------------------------------------------
(* The output and its audit                                                *)

\* The provisional key is the type with all mentions.
Identity(entity) == [type |-> entity.type, spans |-> SpansOf(entity)]
InDocument(span) == <<ChunkStart + span[1], ChunkStart + span[2]>>
InChunk(span) == <<span[1] - ChunkStart, span[2] - ChunkStart>>
MentionId(entity, span) == [type |-> entity.type, span |-> InDocument(span)]

Relation(a, r) ==
    [predicate |-> r.type, span |-> InDocument(r.span),
     subject |-> Identity(Referred(a, r.source)), object |-> {Identity(Referred(a, r.target))},
     values |-> {<<p.name, ValueOf(p), InDocument(p.span)>> : p \in ToSet(r.properties)}]

Literal(a, f) ==
    [predicate |-> f.name, span |-> InDocument(f.span),
     subject |-> Identity(Referred(a, f.of)), object |-> {},
     values |-> {<<f.name, ValueOf(f), InDocument(f.span)>>}]

Output(a) ==
    [entities |-> [i \in DOMAIN a.entities |-> Identity(a.entities[i])],
     mentions |-> UNION {{[id |-> MentionId(e, s), entity |-> Identity(e)] : s \in SpansOf(e)} :
                         e \in ToSet(a.entities)},
     assertions |-> [i \in DOMAIN a.relations |-> Relation(a, a.relations[i])]
                    \o [i \in DOMAIN a.facts |-> Literal(a, a.facts[i])],
     status |-> IF Confident(a) THEN "CANDIDATE" ELSE "QUARANTINED"]

Moved(output, Shift(_)) ==
    [output EXCEPT
        !.mentions = {[m EXCEPT !.id.span = Shift(m.id.span)] : m \in output.mentions},
        !.assertions =
            [i \in DOMAIN output.assertions |->
                LET f == output.assertions[i] IN
                [f EXCEPT !.span = Shift(f.span),
                          !.values = {<<v[1], v[2], Shift(v[3])>> : v \in f.values}]]]

\* What is saved is relative to the chunk, and is bound to it when it is read.
Encoded(output) == Moved(output, InChunk)
Decoded(payload) == Moved(payload, InDocument)

EntitiesOf(assertion) == {assertion.subject} \cup assertion.object

\* ProvenanceBundle: its identities are distinct, and an assertion has a
\* mention of each end in its evidence.
Bundled(output) ==
    /\ DistinctBy(output.entities, LAMBDA e : e)
    /\ DistinctBy(output.assertions, LAMBDA f : f)
    /\ \A f \in ToSet(output.assertions) : \A e \in EntitiesOf(f) :
          \E m \in output.mentions : m.entity = e /\ Within(m.id.span, f.span)

-----------------------------------------------------------------------------
(* The records                                                             *)

Before(s, t) == s[1] < t[1] \/ (s[1] = t[1] /\ s[2] <= t[2])

\* The first mention of the entity in the evidence.
Endpoint(output, assertion, entity) ==
    LET inside == {m \in output.mentions : m.entity = entity /\ Within(m.id.span, assertion.span)}
    IN  (CHOOSE m \in inside : \A n \in inside : Before(m.id.span, n.id.span)).id

Batch(output) ==
    [mentions |-> output.mentions,
     facts |-> {[fact |-> f, ends |-> [e \in EntitiesOf(f) |-> Endpoint(output, f, e)]] :
                   f \in ToSet(output.assertions)},
     status |-> output.status]

\* ABoxRecordBatch: one record for an identity.
DistinctRecords(output) ==
    Cardinality({m.id : m \in output.mentions}) = Cardinality(output.mentions)

-----------------------------------------------------------------------------

RejectAnswer ==
    /\ progress = "answered"
    /\ ~Accepted(answer)
    /\ progress' = "rejected"
    /\ UNCHANGED <<answer, audit, kept>>

\* An output that is no bundle raises before anything is saved.
Save ==
    /\ progress = "answered"
    /\ Accepted(answer)
    /\ IF Bundled(Output(answer))
       THEN progress' = "audited" /\ audit' = Encoded(Output(answer))
       ELSE progress' = "refused" /\ UNCHANGED audit
    /\ UNCHANGED <<answer, kept>>

\* Every repetition decodes the same audit.
Persist ==
    /\ progress = "audited"
    /\ IF DistinctRecords(Decoded(audit))
       THEN progress' = "kept" /\ kept' = Batch(Decoded(audit))
       ELSE progress' = "stuck" /\ UNCHANGED kept
    /\ UNCHANGED <<answer, audit>>

ExtractionInit ==
    /\ answer \in Answers
    /\ progress = "answered"
    /\ audit = Nothing
    /\ kept = Batch(Nothing)

ExtractionNext == RejectAnswer \/ Save \/ Persist

ExtractionSpec == ExtractionInit /\ [][ExtractionNext]_extractionVars

-----------------------------------------------------------------------------

\* Two entities of one type claim one mention.
SharedMention(a) ==
    \E i, j \in DOMAIN a.entities :
        /\ i # j /\ a.entities[i].type = a.entities[j].type
        /\ SpansOf(a.entities[i]) \cap SpansOf(a.entities[j]) # {}

(* What the validator accepts can be persisted, and nothing of it is lost  *)
(* on the way through the audit: every entity keeps its mentions, every    *)
(* relation and property becomes one record on mentions of the entities    *)
(* the answer named, inside its evidence, cardinalities hold of the        *)
(* entities, and nothing doubtful becomes a candidate.  Two entities of    *)
(* one type that share a mention are accepted and cannot be persisted.     *)
AcceptedIsKept ==
    /\ progress \in {"refused", "stuck"} => SharedMention(answer)
    /\ progress = "kept" =>
          /\ \A e \in ToSet(answer.entities) :
                {m.id : m \in {n \in kept.mentions : n.entity = Identity(e)}}
                = {MentionId(e, span) : span \in SpansOf(e)}
          /\ Cardinality(kept.facts) = Len(answer.relations) + Len(answer.facts)
          /\ \A r \in ToSet(answer.relations) : \E f \in kept.facts :
                /\ f.fact = Relation(answer, r)
                /\ \A ref \in {r.source, r.target} :
                      LET e == Referred(answer, ref) IN
                      \E span \in SpansOf(e) :
                          f.ends[Identity(e)] = MentionId(e, span) /\ Within(span, r.span)
          /\ \A f, g \in kept.facts :
                /\ f # g /\ f.fact.object \cup g.fact.object = {}
                /\ f.fact.subject = g.fact.subject /\ f.fact.predicate = g.fact.predicate
                => f.fact.predicate \notin SingleValued
          /\ kept.status = "CANDIDATE" => Confident(answer)
=============================================================================
