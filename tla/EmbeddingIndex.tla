--------------------------- MODULE EmbeddingIndex ---------------------------
(***************************************************************************)
(* The generations of a tenant's vector index (ingestion/embedding.py).    *)
(*                                                                         *)
(* A generation labels the embeddings it serves; one generation at most is *)
(* selected by the tenant's corpus state.  Whoever changes the corpus      *)
(* clears that pointer in the same transaction                             *)
(* (_advance_corpus_revision_tx), so an index is either current or absent. *)
(*                                                                         *)
(* An action is a transaction; those that write hold the lock on the       *)
(* corpus state.  A generation is read before the transaction that         *)
(* activates it, and prepared in two of them with DDL in between: what a   *)
(* call remembers meanwhile is in call.                                    *)
(***************************************************************************)
EXTENDS Naturals

CONSTANTS
    Generations,   \* EmbeddingIndexGeneration nodes, one per space and version
    NoGeneration,  \* no ACTIVE_EMBEDDING_INDEX pointer
    Chunks,
    Spaces,        \* embedding spaces
    SpaceOf,       \* generation.embedding_space_id
    VersionOf,     \* generation.generation_version
    Callers,       \* concurrent calls of the index manager
    MaxRevision    \* bound: the corpus revisions that are explored

ASSUME EmbeddingAssumption ==
    /\ NoGeneration \notin Generations
    /\ SpaceOf \in [Generations -> Spaces]
    /\ VersionOf \in [Generations -> Nat \ {0}]
    /\ MaxRevision \in Nat

VARIABLES
    corpus,      \* the chunks included in some active snapshot
    corpusRev,   \* state.corpus_revision
    vectors,     \* the <<chunk, space>> with an indexable vector
    state,       \* generation.state
    labels,      \* the chunks whose embedding carries the generation's label
    sealedAt,    \* generation.corpus_revision, set by activation
    selected,    \* the target of ACTIVE_EMBEDDING_INDEX
    lastVersion, \* state.embedding_generation_version, 0 before the first
    call         \* what each caller is in the middle of

corpusVars == <<corpus, corpusRev, vectors>>
indexVars  == <<state, labels, sealedAt, selected, lastVersion>>
embeddingVars == <<corpusVars, indexVars, call>>

Idle == [op |-> "none", gen |-> NoGeneration, expected |-> NoGeneration]

EmbeddingTypeOK ==
    /\ corpus \in SUBSET Chunks
    /\ corpusRev \in Nat
    /\ vectors \in SUBSET (Chunks \X Spaces)
    /\ state \in [Generations ->
                     {"ABSENT", "BUILDING", "READY", "ACTIVE", "RETIRED", "STALE"}]
    /\ labels \in [Generations -> SUBSET Chunks]
    /\ sealedAt \in [Generations -> Nat]
    /\ selected \in Generations \cup {NoGeneration}
    /\ lastVersion \in Nat
    /\ call \in [Callers -> [op : {"none", "prepare", "activate"},
                             gen : Generations \cup {NoGeneration},
                             expected : Generations \cup {NoGeneration}]]
    /\ \A w \in Callers : call[w].op # "none" => call[w].gen \in Generations

EmbeddingInit ==
    /\ corpus = {} /\ corpusRev = 0 /\ vectors = {}
    /\ state = [g \in Generations |-> "ABSENT"]
    /\ labels = [g \in Generations |-> {}]
    /\ sealedAt = [g \in Generations |-> 0]
    /\ selected = NoGeneration /\ lastVersion = 0
    /\ call = [w \in Callers |-> Idle]

-----------------------------------------------------------------------------
(* The corpus: publication, retirement, deletion and staging.              *)

\* The pointer goes and its generation becomes stale.
Invalidate ==
    /\ state' = [g \in Generations |-> IF g = selected THEN "STALE" ELSE state[g]]
    /\ selected' = NoGeneration

AdvanceRevision ==
    /\ corpusRev < MaxRevision
    /\ corpusRev' = corpusRev + 1
    /\ Invalidate
    /\ UNCHANGED <<sealedAt, lastVersion, call>>

\* A publication or a retirement replaces active chunks by others.
MoveCorpus(next) ==
    /\ AdvanceRevision
    /\ corpus' = next
    /\ UNCHANGED <<vectors, labels>>

\* A physical deletion takes the chunks' embeddings with it.
DeleteChunks(gone) ==
    /\ AdvanceRevision
    /\ corpus' = corpus \ gone
    /\ vectors' = {v \in vectors : v[1] \notin gone}
    /\ labels' = [g \in Generations |-> labels[g] \ gone]

\* A staged bundle may carry the vector of a chunk that is not active.
StageVector(c, space) ==
    /\ <<c, space>> \notin vectors
    /\ vectors' = vectors \cup {<<c, space>>}
    /\ UNCHANGED <<corpus, corpusRev, indexVars, call>>

(* A backfill of active chunks: all of them, or the transaction fails.     *)
Materialize(batch, space) ==
    /\ batch \subseteq corpus
    /\ ~ batch \X {space} \subseteq vectors
    /\ vectors' = vectors \cup (batch \X {space})
    /\ UNCHANGED <<corpus, corpusRev, indexVars, call>>

-----------------------------------------------------------------------------
(* prepare()                                                               *)

EnsureGeneration(w, g) ==
    /\ call[w] = Idle
    /\ call' = [call EXCEPT ![w] = [Idle EXCEPT !.op = "prepare", !.gen = g]]
    /\ state' = [state EXCEPT ![g] = IF @ = "ABSENT" THEN "BUILDING" ELSE @]
    /\ UNCHANGED <<corpusVars, labels, sealedAt, selected, lastVersion>>

\* The active chunks with a usable vector in the generation's space.
Covered(g) == {c \in corpus : <<c, SpaceOf[g]>> \in vectors}

\* Mutant: the labels of chunks that are no longer active are kept.
RelabelAdding(g) == labels' = [labels EXCEPT ![g] = @ \cup Covered(g)]

\* Every label of the generation is removed and set again.
Relabel(g) == labels' = [labels EXCEPT ![g] = Covered(g)]

\* The active generation was sealed by its activation.
Seals(g) == state[g] # "ACTIVE"

FinalizePrepare(w) ==
    LET g == call[w].gen
    IN  /\ call[w].op = "prepare"
        /\ call' = [call EXCEPT ![w] = Idle]
        /\ IF Seals(g)
           THEN /\ Relabel(g)
                /\ state' = [state EXCEPT ![g] = "READY"]
           ELSE UNCHANGED <<labels, state>>
        /\ UNCHANGED <<corpusVars, sealedAt, selected, lastVersion>>

\* The index is not what was asked for, or the caller dies.
Abandon(w) ==
    /\ call[w] # Idle
    /\ call' = [call EXCEPT ![w] = Idle]
    /\ UNCHANGED <<corpusVars, indexVars>>

-----------------------------------------------------------------------------
(* activate()                                                              *)

\* The target's state is read beforehand; what the caller expects to be
\* selected is its own, read earlier still or never.
ReadTarget(w, g, expected) ==
    /\ call[w] = Idle
    /\ state[g] \in {"READY", "ACTIVE"}
    /\ call' = [call EXCEPT ![w] = [op |-> "activate", gen |-> g, expected |-> expected]]
    /\ UNCHANGED <<corpusVars, indexVars>>

\* Mutant: compares with the selected generation, which a change clears.
NoRollbackOfSelected(g) ==
    selected # NoGeneration => VersionOf[g] >= VersionOf[selected]

\* The version is remembered after the pointer is cleared.
NoRollback(g) == VersionOf[g] >= lastVersion

\* Mutant: coverage is not checked.
SwitchAllowedUncovered(w) ==
    LET g == call[w].gen
    IN  selected = call[w].expected /\ NoRollback(g)

SwitchAllowed(w) ==
    LET g == call[w].gen
    IN  selected = call[w].expected /\ NoRollback(g) /\ Covered(g) = corpus

Switch(w) ==
    LET g == call[w].gen
    IN  /\ call[w].op = "activate"
        /\ call' = [call EXCEPT ![w] = Idle]
        /\ IF selected # g /\ SwitchAllowed(w)
           THEN /\ Relabel(g)
                /\ selected' = g
                /\ lastVersion' = VersionOf[g]
                /\ sealedAt' = [sealedAt EXCEPT ![g] = corpusRev]
                /\ state' = [h \in Generations |-> IF h = g THEN "ACTIVE"
                                                   ELSE IF h = selected THEN "RETIRED"
                                                   ELSE state[h]]
           ELSE UNCHANGED indexVars
        /\ UNCHANGED corpusVars

-----------------------------------------------------------------------------

EmbeddingNext ==
    \/ \E next \in SUBSET Chunks : MoveCorpus(next) \/ DeleteChunks(next)
    \/ \E c \in Chunks, space \in Spaces : StageVector(c, space)
    \/ \E batch \in SUBSET Chunks, space \in Spaces : Materialize(batch, space)
    \/ \E w \in Callers :
          \/ \E g \in Generations :
                \/ EnsureGeneration(w, g)
                \/ \E h \in Generations \cup {NoGeneration} : ReadTarget(w, g, h)
          \/ FinalizePrepare(w) \/ Switch(w) \/ Abandon(w)

EmbeddingSpec == EmbeddingInit /\ [][EmbeddingNext]_embeddingVars

-----------------------------------------------------------------------------

(* A search of the selected index reaches every active chunk and nothing   *)
(* else: no staged, replaced or deleted chunk (_activate_tx, "no newly     *)
(* published Chunk can escape coverage").                                  *)
IndexIsCorpus == selected # NoGeneration => labels[selected] = corpus

(* The selected index was sealed at this very revision of the corpus.      *)
IndexIsCurrent == selected # NoGeneration => sealedAt[selected] = corpusRev

(* state = ACTIVE and the pointer, which are written by different          *)
(* transactions, name the same single generation.                          *)
ActiveIsSelected == \A g \in Generations : state[g] = "ACTIVE" <=> selected = g

\* The remembered version is the selected generation's.
VersionRemembered == selected # NoGeneration => lastVersion = VersionOf[selected]

EmbeddingInv ==
    /\ EmbeddingTypeOK
    /\ IndexIsCorpus /\ IndexIsCurrent /\ ActiveIsSelected /\ VersionRemembered

(* "embedding generation cannot roll back": each activation is of a        *)
(* version at least as new as every one before it, also after a change of  *)
(* the corpus has cleared the pointer.                                     *)
NeverRollsBack ==
    [][/\ lastVersion' >= lastVersion
       /\ selected' \notin {selected, NoGeneration} =>
            VersionOf[selected'] >= lastVersion]_embeddingVars

=============================================================================
