-------------------------- MODULE PublishedCorpus --------------------------
(***************************************************************************)
(* What the readers of the governed graph stand on: the tenant's corpus    *)
(* with its access policies, the selected embedding index and the active   *)
(* knowledge publication.                                                  *)
(*                                                                         *)
(* The transactions that move it are modelled by what they commit.  Every  *)
(* change of the corpus advances the corpus revision and clears the index; *)
(* an activation of a publication, forward or back, advances the           *)
(* activation generation and nothing else.  A repair of access groups by   *)
(* an administrator (graph/browsing.py names it) advances nothing.         *)
(*                                                                         *)
(* A read transaction of Neo4j is read-committed: each of its queries sees *)
(* the ground as it is then.                                               *)
(***************************************************************************)
EXTENDS Naturals, FiniteSets

CONSTANTS
    Releases,      \* the publications of the tenant
    NoRelease,     \* no ACTIVE_KNOWLEDGE_PUBLICATION
    Chunks,
    SourcesOf,         \* the chunks of a publication's snapshots
    MaxRevision,   \* bound: corpus revisions
    MaxActivation, \* bound: activation generations
    MaxRepairs     \* bound: repairs of access groups outside a revision

ASSUME CorpusAssumption ==
    /\ NoRelease \notin Releases
    /\ SourcesOf \in [Releases -> SUBSET Chunks]
    /\ MaxRevision \in Nat /\ MaxActivation \in Nat /\ MaxRepairs \in Nat

VARIABLES
    revision,   \* TenantCorpusState.corpus_revision
    indexed,    \* number of the selected index, 0 when there is none
    lastIndex,  \* number of the last index that was selected
    release,    \* the active publication
    activation, \* KnowledgePublicationState.activation_generation
    readable,   \* the chunks the reader may read, in active documents
    repairs     \* how many repairs there were, of a request in GraphBrowsing

corpusVars == <<revision, indexed, lastIndex, release, activation, readable, repairs>>

CorpusTypeOK ==
    /\ revision \in 0..MaxRevision /\ lastIndex \in Nat /\ indexed \in {0, lastIndex}
    /\ release \in Releases \cup {NoRelease}
    /\ activation \in 0..MaxActivation
    /\ readable \in SUBSET Chunks /\ repairs \in 0..MaxRepairs

CorpusInit ==
    /\ revision = 0 /\ indexed = 0 /\ lastIndex = 0
    /\ release = NoRelease /\ activation = 0
    /\ readable \in SUBSET Chunks /\ repairs = 0

\* An upload, a change of policy, a deletion or a retirement.
ChangeCorpus(next) ==
    /\ revision < MaxRevision
    /\ revision' = revision + 1
    /\ indexed' = 0
    /\ readable' = next
    /\ UNCHANGED <<lastIndex, release, activation, repairs>>

\* An index is built and selected.
SelectIndex ==
    /\ indexed = 0
    /\ lastIndex' = lastIndex + 1
    /\ indexed' = lastIndex + 1
    /\ UNCHANGED <<revision, release, activation, readable, repairs>>

\* A publication or a rollback to one.
ActivateRelease(p) ==
    /\ activation < MaxActivation /\ p # release
    /\ release' = p
    /\ activation' = activation + 1
    /\ UNCHANGED <<revision, indexed, lastIndex, readable, repairs>>

RepairAccess(next) ==
    /\ repairs < MaxRepairs /\ next # readable
    /\ readable' = next
    /\ repairs' = repairs + 1
    /\ UNCHANGED <<revision, indexed, lastIndex, release, activation>>

CorpusMoves ==
    \/ \E next \in SUBSET Chunks : ChangeCorpus(next)
    \/ SelectIndex
    \/ \E p \in Releases : ActivateRelease(p)

-----------------------------------------------------------------------------

\* What a publication serves: its own chunks that are still open.
Visible == IF release = NoRelease THEN {} ELSE SourcesOf[release] \cap readable

(* The identity of what is read (GraphReadPin and the trace of a result),  *)
(* without the index, which only a retrieval depends on.                   *)
Pin == [revision |-> revision, release |-> release, activation |-> activation]

NoPin == [revision |-> 0, release |-> NoRelease, activation |-> 0]
Pins == [revision : 0..MaxRevision, release : Releases \cup {NoRelease},
         activation : 0..MaxActivation]
=============================================================================
