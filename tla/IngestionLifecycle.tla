------------------------- MODULE IngestionLifecycle -------------------------
(***************************************************************************)
(* One document of one tenant under concurrent ingestion, physical         *)
(* deletion and governed retirement (ingestion/service.py and              *)
(* ingestion/retirement.py), on top of the leased jobs of JobLease.        *)
(*                                                                         *)
(* An action is one Neo4j transaction.  Its writes are serialised by the   *)
(* lock on the job node and then by the lock on the tenant's corpus state, *)
(* which every writing transaction takes; what a call remembers between    *)
(* two of its transactions is its pc and its claim.                        *)
(*                                                                         *)
(* Content is abstract: a snapshot is a value with a version and a set of  *)
(* chunks.  Two operations may target the same snapshot, for its id is     *)
(* computed from the version and the pipeline profile and not from the     *)
(* operation key.                                                          *)
(***************************************************************************)
EXTENDS JobLease, Integers

CONSTANTS
    Snapshots,     \* the snapshots the operations may build
    NoSnapshot,    \* no ACTIVE_SNAPSHOT pointer, or None as an expected value
    Chunks,        \* the chunks of all of them
    VersionOf,     \* the document version a snapshot is of
    ChunksOf,      \* the chunks of a snapshot's plan
    Kind,          \* job.operation, "UPSERT" or "DELETE"
    Target,        \* job.target_snapshot_id of an UPSERT
    PlanTitle,     \* job.desired_title
    PlanPolicy,    \* the access policy an UPSERT asks for
    NoTitle,       \* the title of a document never published
    NoPolicy,      \* the access policy before the first publication
    MaxGeneration  \* bound: the generations that are explored

Upserts == {j \in Jobs : Kind[j] = "UPSERT"}
Policies == {PlanPolicy[j] : j \in Upserts} \cup {NoPolicy}
Titles   == {PlanTitle[j] : j \in Upserts} \cup {NoTitle}

ASSUME LifecycleAssumption ==
    /\ NoSnapshot \notin Snapshots
    /\ ChunksOf \in [Snapshots -> (SUBSET Chunks) \ {{}}]
    \* A chunk's id is computed from its version and its splitter.
    /\ \A s, t \in Snapshots :
          \/ ChunksOf[s] \cap ChunksOf[t] = {}
          \/ VersionOf[s] = VersionOf[t] /\ ChunksOf[s] = ChunksOf[t]
    /\ Kind \in [Jobs -> {"UPSERT", "DELETE"}]
    /\ Target \in [Upserts -> Snapshots]
    /\ DOMAIN PlanTitle = Upserts
    /\ DOMAIN PlanPolicy = Upserts
    /\ \A j \in Upserts : PlanPolicy[j].version \in Nat \ {0}
    /\ NoPolicy.version = 0
    /\ MaxGeneration \in Nat

VARIABLES
    plan,         \* the CAS values a job was registered with
    pc,           \* where the call of each worker is
    docState,     \* absent, staged (lifecycle_status null), ACTIVE or RETIRED
    docGen,       \* document.generation, NullGen before the first publication
    tombGen,      \* tombstone.generation, 0 without a tombstone
    docTitle,     \* document.title
    docPolicy,    \* document.access_policy_*
    active,       \* the target of ACTIVE_SNAPSHOT
    snap,         \* snapshot.build_state
    members,      \* the chunks a snapshot INCLUDES
    chunks,       \* the Chunk nodes that exist
    chunkPolicy,  \* chunk.access_policy_* and access_groups
    scope,        \* the chunks with a retrieval_scope
    tasks,        \* the chunks with a STAGED task of the job
    corpusRev,    \* TenantCorpusState.corpus_revision
    cited,        \* the chunks governed revisions are evidenced by
    openReview    \* a reviewable revision, an active publication or an
                  \* unfinished construction job refers to the document

\* History: how many times each job changed the corpus (never read).
VARIABLE applied

sourceVars == <<docState, docGen, tombGen, docTitle, docPolicy, active, scope,
                corpusRev>>
buildVars  == <<snap, members, chunks, chunkPolicy, tasks>>
governVars == <<cited, openReview>>
vars == <<leaseVars, plan, pc, sourceVars, buildVars, governVars, applied>>

NullGen == -1
NoPlan  == [expected |-> NoSnapshot, gen |-> 0]

(* coalesce(document.generation, tombstone.generation, 0)                  *)
Generation == IF docGen # NullGen THEN docGen ELSE tombGen

\* The calls that are inside their try block, and the two ways out of it.
Phases == {"read", "existing", "stage", "chunks", "verify", "publish", "delete"}
Raised == {"conflict", "error"}

LifecycleTypeOK ==
    /\ LeaseTypeOK
    /\ plan \in [Jobs -> [expected : Snapshots \cup {NoSnapshot},
                          gen : 0..MaxGeneration]]
    /\ pc \in [Workers -> {"idle"} \cup Phases \cup Raised]
    /\ docState \in {"ABSENT", "STAGED", "ACTIVE", "RETIRED"}
    /\ docGen \in {NullGen} \cup 0..MaxGeneration
    /\ tombGen \in 0..MaxGeneration
    /\ docTitle \in Titles
    /\ docPolicy \in Policies
    /\ active \in Snapshots \cup {NoSnapshot}
    /\ snap \in [Snapshots -> {"ABSENT", "BUILDING", "READY", "PUBLISHED", "RETIRED"}]
    /\ members \in [Snapshots -> SUBSET Chunks]
    /\ chunks \in SUBSET Chunks
    /\ chunkPolicy \in [Chunks -> Policies]
    /\ scope \in SUBSET Chunks
    /\ tasks \in [Jobs -> SUBSET Chunks]
    /\ corpusRev \in Nat
    /\ cited \in SUBSET Chunks
    /\ openReview \in BOOLEAN
    /\ applied \in [Jobs -> Nat]

Init ==
    /\ LeaseInit
    /\ plan = [j \in Jobs |-> NoPlan]
    /\ pc = [w \in Workers |-> "idle"]
    /\ docState = "ABSENT" /\ docGen = NullGen /\ tombGen = 0
    /\ docTitle = NoTitle /\ docPolicy = NoPolicy
    /\ active = NoSnapshot
    /\ snap = [s \in Snapshots |-> "ABSENT"]
    /\ members = [s \in Snapshots |-> {}]
    /\ chunks = {} /\ scope = {}
    /\ chunkPolicy = [c \in Chunks |-> NoPolicy]
    /\ tasks = [j \in Jobs |-> {}]
    /\ corpusRev = 0
    /\ cited = {} /\ openReview = FALSE
    /\ applied = [j \in Jobs |-> 0]

-----------------------------------------------------------------------------
(* The call: registration, claim, and the ways it ends early.              *)

GoTo(w, place) == pc' = [pc EXCEPT ![w] = place]

(* The caller observed the source and asks for a change of what it saw.    *)
(* Observing and registering in one step loses nothing: a registered job   *)
(* may stay QUEUED while the source moves on.                              *)
RegisterOp(j) ==
    /\ RegisterJob(j)
    /\ Generation < MaxGeneration
    /\ plan' = [plan EXCEPT ![j] = [expected |-> active, gen |-> Generation]]
    /\ UNCHANGED <<pc, sourceVars, buildVars, governVars, applied>>

Claim(w, j) ==
    /\ ClaimJob(w, j)
    /\ GoTo(w, IF Kind[j] = "UPSERT" THEN "read" ELSE "delete")
    /\ UNCHANGED <<plan, sourceVars, buildVars, governVars, applied>>

Exhaust(j) ==
    /\ ExhaustJob(j)
    /\ UNCHANGED <<plan, pc, sourceVars, buildVars, governVars, applied>>

(* An IngestionConflict or a ValueError rolls the transaction back.        *)
Refuse(w) ==
    /\ GoTo(w, "conflict")
    /\ UNCHANGED <<leaseVars, plan, sourceVars, buildVars, governVars, applied>>

(* Any other exception does: the lost lease, IngestionInterrupted, a       *)
(* driver error, a failpoint between two transactions.                     *)
Interrupt(w) ==
    /\ pc[w] \in Phases
    /\ GoTo(w, "error")
    /\ UNCHANGED <<leaseVars, plan, sourceVars, buildVars, governVars, applied>>

(* The except branch: a transaction of its own.                            *)
Report(w) ==
    /\ pc[w] \in Raised
    /\ RecordFailure(w, pc[w] = "error")
    /\ GoTo(w, "idle")
    /\ UNCHANGED <<plan, sourceVars, buildVars, governVars, applied>>

Crash(w) ==
    /\ CrashWorker(w)
    /\ GoTo(w, "idle")
    /\ UNCHANGED <<plan, sourceVars, buildVars, governVars, applied>>

Lapse(j) ==
    /\ LapseLease(j)
    /\ UNCHANGED <<plan, pc, sourceVars, buildVars, governVars, applied>>

-----------------------------------------------------------------------------
(* ingest(): read the active state, stage, verify, publish.                *)

\* Every transaction of a phase starts by proving ownership of the job.
InPhase(w, phase) == pc[w] = phase /\ OwnsJob(w)

(* _active_state runs in a read session of its own, without the ownership  *)
(* check: what it returns may be stale when the next transaction starts.   *)
ReadActive(w) ==
    LET j == JobOf(w)
    IN  /\ pc[w] = "read"
        /\ GoTo(w, IF Generation # plan[j].gen THEN "conflict"
                   ELSE IF active = Target[j] THEN "existing"
                   ELSE IF active # plan[j].expected THEN "conflict"
                   ELSE "stage")
        /\ UNCHANGED <<leaseVars, plan, sourceVars, buildVars, governVars, applied>>

\* Where a build goes on once the tasks in done are STAGED.
NextChunkOrVerify(j, done) ==
    IF done = ChunksOf[Target[j]] THEN "verify" ELSE "chunks"

\* MERGE of the snapshot node: an existing one keeps its build_state.
Merged(state)  == IF state = "ABSENT" THEN "BUILDING" ELSE state

StageSnapshot(w) ==
    LET j == JobOf(w)  s == Target[j]
    IN  /\ InPhase(w, "stage")
        /\ IF Generation # plan[j].gen
           THEN Refuse(w)
           ELSE /\ snap' = [snap EXCEPT ![s] = Merged(@)]
                /\ GoTo(w, NextChunkOrVerify(j, tasks[j]))
                /\ UNCHANGED <<leaseVars, plan, sourceVars, members, chunks,
                               chunkPolicy, tasks, governVars, applied>>

\* Mutant: looks at the snapshot and not at its version.
OtherPartitionOfSnapshot(s) == members[s] \ ChunksOf[s] # {}

\* The version already owns chunks of another splitter.
OtherPartition(s) ==
    \E t \in Snapshots : /\ VersionOf[t] = VersionOf[s] /\ ChunksOf[t] # ChunksOf[s]
                         /\ ChunksOf[t] \cap chunks # {}

(* The document and the chunk, when they are missing.  The document's      *)
(* profile and the chunk's access policy stay as they are.                 *)
WriteBundle(c) ==
    /\ docState' = IF docState = "ABSENT" THEN "STAGED" ELSE docState
    /\ chunks' = chunks \cup {c}
    /\ UNCHANGED <<docGen, tombGen, docTitle, docPolicy, active, scope, corpusRev,
                   chunkPolicy>>

LinkMembership(s, c) == members' = [members EXCEPT ![s] = @ \cup {c}]

\* One bundle with its membership and its STAGED task.
StageChunk(w, c) ==
    LET j == JobOf(w)  s == Target[j]
    IN  /\ InPhase(w, "chunks")
        /\ c \in ChunksOf[s] \ tasks[j]
        /\ IF Generation # plan[j].gen \/ OtherPartition(s)
           THEN Refuse(w)
           ELSE /\ WriteBundle(c)
                /\ LinkMembership(s, c)
                /\ tasks' = [tasks EXCEPT ![j] = @ \cup {c}]
                /\ GoTo(w, NextChunkOrVerify(j, tasks[j] \cup {c}))
                /\ UNCHANGED <<leaseVars, plan, snap, governVars, applied>>

\* The manifest read back from the graph is the plan's.
ManifestMatches(s) == members[s] = ChunksOf[s]

(* The stored manifest is the plan's: the snapshot becomes READY, whatever *)
(* it was before.                                                          *)
VerifySnapshot(w) ==
    LET j == JobOf(w)  s == Target[j]
    IN  /\ InPhase(w, "verify")
        /\ IF Generation # plan[j].gen \/ snap[s] = "ABSENT"
           THEN Refuse(w)
           ELSE IF tasks[j] # ChunksOf[s]
           THEN /\ GoTo(w, "error")
                /\ UNCHANGED <<leaseVars, plan, sourceVars, buildVars, governVars, applied>>
           ELSE IF ~ManifestMatches(s)
           THEN Refuse(w)
           ELSE /\ snap' = [snap EXCEPT ![s] = "READY"]
                /\ GoTo(w, "publish")
                /\ UNCHANGED <<leaseVars, plan, sourceVars, members, chunks,
                               chunkPolicy, tasks, governVars, applied>>

\* Neither older than the stored policy nor another one of its version.
PolicyAccepted(p) ==
    /\ p.version >= docPolicy.version
    /\ p.version = docPolicy.version => p = docPolicy

\* A retired document comes back only from a consistent retirement record.
RetirementAudited ==
    docState = "RETIRED" => active = NoSnapshot /\ docGen = tombGen

PublishAllowed(j) ==
    LET s == Target[j]
    IN  /\ snap[s] \in {"READY", "PUBLISHED"}
        /\ docState # "ABSENT"
        /\ Generation = plan[j].gen
        /\ active # s
        /\ active = plan[j].expected
        /\ RetirementAudited
        /\ PolicyAccepted(PlanPolicy[j])
        /\ members[s] = ChunksOf[s]

\* A successful last transaction: the job is closed with it.
Complete(w, outcome) ==
    /\ FinishJob(w, outcome)
    /\ GoTo(w, "idle")
    /\ UNCHANGED <<plan, governVars>>

\* The chunks of s enter the retrieval partition.  (Mutant of ScopeAfter.)
ScopeWith(s) == scope \cup (ChunksOf[s] \cap chunks)

\* Those of the replaced snapshot that s does not share leave it.
ScopeAfter(s) ==
    LET old == IF active = NoSnapshot THEN {} ELSE members[active]
    IN  ScopeWith(s) \ (old \ ChunksOf[s])

\* Mutant: the replaced snapshot stays PUBLISHED.
StatesWith(s) == [snap EXCEPT ![s] = "PUBLISHED"]

\* s is published and the snapshot it replaces is retired.
StatesAfter(s) ==
    [t \in Snapshots |-> IF t = s THEN "PUBLISHED"
                         ELSE IF t = active THEN "RETIRED" ELSE snap[t]]

\* The access policy is written to every chunk of s.
PolicyAfter(s, p) ==
    [c \in Chunks |-> IF c \in ChunksOf[s] \cap chunks THEN p ELSE chunkPolicy[c]]

\* Mutant: only the first publication counts.
AdvanceOnFirst == corpusRev' = corpusRev + (IF active = NoSnapshot THEN 1 ELSE 0)

\* Every effective change increments the tenant's corpus revision.
AdvanceRevision == corpusRev' = corpusRev + 1

PublishSnapshot(w) ==
    LET j == JobOf(w)  s == Target[j]
    IN  /\ InPhase(w, "publish")
        /\ IF ~PublishAllowed(j)
           THEN Refuse(w)
           ELSE /\ docState' = "ACTIVE"
                /\ docGen' = plan[j].gen
                /\ docTitle' = PlanTitle[j]
                /\ docPolicy' = PlanPolicy[j]
                /\ active' = s
                /\ snap' = StatesAfter(s)
                /\ chunkPolicy' = PolicyAfter(s, PlanPolicy[j])
                /\ scope' = ScopeAfter(s)
                /\ AdvanceRevision
                /\ applied' = [applied EXCEPT ![j] = @ + 1]
                /\ Complete(w, "SUCCEEDED")
                /\ UNCHANGED <<tombGen, members, chunks, tasks>>

-----------------------------------------------------------------------------
(* The target already is the active snapshot: an exact replay, or an       *)
(* explicit change of title, policy or scope.                              *)

\* The chunks of s whose stored access policy is p.
WithPolicy(s, p) == {c \in ChunksOf[s] \cap chunks : chunkPolicy[c] = p}

ReplayAllowed(j) ==
    LET s == Target[j]
    IN  /\ docState # "ABSENT"
        /\ Generation = plan[j].gen
        /\ active = s
        /\ PolicyAccepted(PlanPolicy[j])
        /\ ChunksOf[s] \subseteq members[s]
        /\ PlanPolicy[j].version = docPolicy.version
              => WithPolicy(s, PlanPolicy[j]) = ChunksOf[s]

\* retrieval_scope is computed from the chunk's access groups.
ReplayChanges(j) ==
    \/ PlanTitle[j] # docTitle
    \/ PlanPolicy[j] # docPolicy
    \/ \E c \in ChunksOf[Target[j]] :
          c \notin scope \/ chunkPolicy[c].groups # PlanPolicy[j].groups

FinishExisting(w) ==
    LET j == JobOf(w)  s == Target[j]
    IN  /\ InPhase(w, "existing")
        /\ IF ~ReplayAllowed(j) \/ (ReplayChanges(j) /\ plan[j].expected # s)
           THEN Refuse(w)
           ELSE IF ~ReplayChanges(j)
           THEN /\ Complete(w, "NOOP")
                /\ UNCHANGED <<sourceVars, buildVars, applied>>
           ELSE /\ docTitle' = PlanTitle[j]
                /\ docPolicy' = PlanPolicy[j]
                /\ chunkPolicy' = PolicyAfter(s, PlanPolicy[j])
                /\ scope' = ScopeWith(s)
                /\ AdvanceRevision
                /\ applied' = [applied EXCEPT ![j] = @ + 1]
                /\ Complete(w, "SUCCEEDED")
                /\ UNCHANGED <<docState, docGen, tombGen, active, snap, members,
                               chunks, tasks>>

-----------------------------------------------------------------------------
(* delete_document(): everything about the source goes, except tombstone   *)
(* and jobs.                                                               *)

\* Work of the current generation is registered, or left something behind.
RegisteredWork ==
    \/ \E s \in Snapshots : snap[s] # "ABSENT"
    \/ \E j \in Upserts : \/ tasks[j] # {}
                          \/ status[j] \in Pending /\ plan[j].gen = Generation

\* Mutant: only what is still open counts.
NoOpenReferences == ~openReview

\* No governed record of any status refers to the document.
NoGovernedReferences == cited = {} /\ ~openReview

\* Mutant: without the expected pointer.
DeleteAllowedStale(j) == Generation = plan[j].gen /\ NoGovernedReferences

DeleteAllowed(j) ==
    /\ Generation = plan[j].gen
    /\ active = plan[j].expected
    /\ NoGovernedReferences

DeleteDocument(w) ==
    LET j == JobOf(w)
    IN  /\ InPhase(w, "delete")
        /\ IF docState = "ABSENT" /\ ~RegisteredWork
           THEN /\ Complete(w, "NOOP")
                /\ UNCHANGED <<sourceVars, buildVars, applied>>
           ELSE IF ~DeleteAllowed(j)
           THEN Refuse(w)
           ELSE /\ tombGen' = plan[j].gen + 1
                /\ docState' = "ABSENT"
                /\ docGen' = NullGen
                /\ docTitle' = NoTitle /\ docPolicy' = NoPolicy
                /\ active' = NoSnapshot
                /\ snap' = [s \in Snapshots |-> "ABSENT"]
                /\ members' = [s \in Snapshots |-> {}]
                /\ chunks' = {} /\ scope' = {}
                /\ chunkPolicy' = [c \in Chunks |-> NoPolicy]
                /\ tasks' = [i \in Jobs |-> {}]
                /\ IF docState = "ABSENT" THEN UNCHANGED corpusRev ELSE AdvanceRevision
                /\ applied' = [applied EXCEPT ![j] = @ + 1]
                /\ Complete(w, "SUCCEEDED")

-----------------------------------------------------------------------------
(* Governed knowledge that refers to the source, and its retirement.       *)

(* A construction or an import writes governed revisions evidenced by the  *)
(* chunks of the published active snapshot.  Revisions are append-only;    *)
(* what is open for review is settled later.                               *)
CiteSource ==
    /\ active # NoSnapshot /\ snap[active] = "PUBLISHED"
    /\ cited' = cited \cup members[active]
    /\ openReview' = TRUE
    /\ UNCHANGED <<leaseVars, plan, pc, sourceVars, buildVars, applied>>

SettleReview ==
    /\ openReview
    /\ openReview' = FALSE
    /\ UNCHANGED <<leaseVars, plan, pc, sourceVars, buildVars, cited, applied>>

\* A job of the current generation still counts on the source.
PendingUpsert ==
    \E j \in Upserts : status[j] \in Pending /\ plan[j].gen = docGen

\* A principal in every group reads what has an access policy at all.
Readable == \A c \in chunks : chunkPolicy[c] # NoPolicy

RetireAllowed ==
    /\ docState = "ACTIVE"
    /\ active # NoSnapshot /\ snap[active] = "PUBLISHED"
    /\ members[active] = ChunksOf[active]
    /\ Readable
    /\ ~openReview /\ ~PendingUpsert

(* One transaction, without a lease: the request carries the active        *)
(* snapshot and the generation and is refused when either has moved.       *)
RetireDocument ==
    /\ RetireAllowed
    /\ docGen < MaxGeneration
    /\ docState' = "RETIRED"
    /\ docGen' = docGen + 1
    /\ tombGen' = docGen + 1
    /\ active' = NoSnapshot
    /\ snap' = [snap EXCEPT ![active] = "RETIRED"]
    /\ scope' = {}
    /\ AdvanceRevision
    /\ UNCHANGED <<leaseVars, plan, pc, docTitle, docPolicy, members, chunks,
                   chunkPolicy, tasks, governVars, applied>>

-----------------------------------------------------------------------------

\* A step of a running call.
Work(w) ==
    \/ ReadActive(w) \/ StageSnapshot(w) \/ VerifySnapshot(w) \/ PublishSnapshot(w)
    \/ \E c \in Chunks : StageChunk(w, c)
    \/ FinishExisting(w) \/ DeleteDocument(w)
    \/ Interrupt(w) \/ Report(w)

Next ==
    \/ \E j \in Jobs : RegisterOp(j) \/ Exhaust(j) \/ Lapse(j)
    \/ \E w \in Workers : Work(w) \/ Crash(w) \/ \E j \in Jobs : Claim(w, j)
    \/ CiteSource \/ SettleReview \/ RetireDocument

Spec == Init /\ [][Next]_vars

(* A running call proceeds, time passes, and the caller of an              *)
(* at-least-once operation repeats it while it is not answered.            *)
Fairness ==
    /\ \A w \in Workers : WF_vars(Work(w))
    /\ \A j \in Jobs : /\ WF_vars(Lapse(j))
                       /\ SF_vars(Exhaust(j) \/ \E w \in Workers : Claim(w, j))

FairSpec == Spec /\ Fairness

-----------------------------------------------------------------------------
(* Properties.                                                             *)

(* The BM25 partition is exactly the active snapshot: no chunk of a        *)
(* replaced, retired or deleted snapshot keeps a retrieval_scope, and none *)
(* of the active one lacks it (the scope writes of publish, replay and     *)
(* retirement).                                                            *)
ScopeIsActive == scope = IF active = NoSnapshot THEN {} ELSE ChunksOf[active]

(* What can be retrieved carries the document's access policy, whichever   *)
(* interleaving of publication, replay and shared chunks put it there.     *)
AccessAgrees == \A c \in scope : chunkPolicy[c] = docPolicy

(* The active pointer never names a half-built or half-deleted snapshot.   *)
ActiveIsComplete ==
    active # NoSnapshot =>
        /\ docState = "ACTIVE"
        /\ snap[active] \in {"READY", "PUBLISHED"}
        /\ members[active] = ChunksOf[active]
        /\ members[active] \subseteq chunks

(* A snapshot is marked PUBLISHED only while it is the active one, so      *)
(* concurrent publications leave at most one.                              *)
PublishedIsActive == \A s \in Snapshots : snap[s] = "PUBLISHED" => active = s

(* A deleted or retired source comes back only at the generation its       *)
(* tombstone records.                                                      *)
GenerationAgrees == docGen # NullGen => docGen = tombGen

(* At-least-once execution has its effect once: a job changed the corpus   *)
(* exactly when it SUCCEEDED, however many workers ran it and died.        *)
EffectOnce ==
    \A j \in Jobs : applied[j] = IF status[j] = "SUCCEEDED" THEN 1 ELSE 0

(* "concurrent uploads cannot mix partitions": the stored chunks of one     *)
(* version are all planned by one snapshot (_write_bundle_tx).             *)
OnePartition ==
    \A s \in Snapshots : \E t \in Snapshots :
        /\ VersionOf[t] = VersionOf[s]
        /\ \A u \in Snapshots :
              VersionOf[u] = VersionOf[s] => ChunksOf[u] \cap chunks \subseteq ChunksOf[t]

(* The evidence of governed revisions is never deleted.                    *)
CitedSurvives == cited \subseteq chunks

(* Where a call is agrees with what it claimed, and a generation is only   *)
(* asked for while the bound leaves room for the next.                     *)
CallsMatchJobs ==
    /\ \A w \in Workers :
          /\ pc[w] = "idle" <=> ~Busy(w)
          /\ pc[w] = "delete" => JobOf(w) \in Jobs \ Upserts
          /\ pc[w] \in Phases \ {"delete"} => JobOf(w) \in Upserts
    /\ \A j \in Jobs : status[j] # "ABSENT" => plan[j].gen < MaxGeneration

(* The lifecycle status decides which of the other fields are set.         *)
SourceShape ==
    /\ docState \in {"ABSENT", "STAGED"} =>
          docGen = NullGen /\ docTitle = NoTitle /\ docPolicy = NoPolicy
    /\ docState \in {"ACTIVE", "RETIRED"} => docGen # NullGen
    /\ docState = "ACTIVE" <=> active # NoSnapshot
    /\ docState = "ABSENT" => chunks = {}

\* What is included in a snapshot is planned for it and exists.
MembersExist ==
    \A s \in Snapshots : members[s] \subseteq ChunksOf[s] \cap chunks

LifecycleInv ==
    /\ LifecycleTypeOK /\ TokensAreClaims /\ CallsMatchJobs
    /\ SourceShape /\ MembersExist
    /\ ScopeIsActive /\ AccessAgrees /\ ActiveIsComplete /\ PublishedIsActive
    /\ GenerationAgrees /\ EffectOnce /\ CitedSurvives

(* A stale operation cannot resurrect or overwrite: a snapshot becomes     *)
(* active only by a live job of the current generation that expected the   *)
(* pointer it replaces.                                                    *)
NoLostPublication ==
    [][active' \notin {active, NoSnapshot} =>
          \E j \in Upserts : /\ status[j] = "RUNNING" /\ live[j]
                             /\ status'[j] = "SUCCEEDED"
                             /\ Target[j] = active'
                             /\ plan[j] = [expected |-> active, gen |-> Generation]
      ]_vars

(* No revision of the corpus is silent, and a silent step changes nothing  *)
(* a reader of the published corpus can see.                               *)
RevisionCoversChange ==
    [][/\ corpusRev' >= corpusRev
       /\ corpusRev' = corpusRev =>
            UNCHANGED <<active, scope, docTitle, docPolicy>>]_vars

(* While the document exists its access policy never goes back to an older *)
(* version, and a version never changes meaning.                           *)
PolicyMonotone ==
    [][docState # "ABSENT" /\ docState' # "ABSENT" =>
          /\ docPolicy'.version >= docPolicy.version
          /\ docPolicy'.version = docPolicy.version => docPolicy' = docPolicy]_vars

(* Every operation ends, as long as it is repeated while unanswered: no    *)
(* crash, lapsed lease or refused step leaves a job pending for ever.      *)
JobsEnd ==
    \A j \in Jobs : status[j] # "ABSENT" ~> status[j] \in Terminal

-----------------------------------------------------------------------------
(* What the code's own texts say and the code does not keep.               *)

(* "immutable staging and CAS publish" (service.py), "Create, resume, or   *)
(* no-op one immutable snapshot build" (ingest): building a snapshot a     *)
(* second time leaves the published one as it was published.               *)
StagingKeepsPublished ==
    [][\A s \in Snapshots :
          snap[s] = "PUBLISHED" /\ active' = s => snap'[s] = "PUBLISHED"]_vars

=============================================================================
