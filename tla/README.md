# Formal models of the knowledge workbench

These TLA+ modules model the parts of `src/graphrag_prod` whose correctness
depends on the order in which concurrent transactions, workers, crashes and
retries happen.  TLC checks small instances of them; TLAPS proves the main
results for every value of the constants.

Paths below are relative to `src/src/graphrag_prod/`.

## 1. The system

A multi-tenant GraphRAG workbench.  Everything durable is in one Neo4j
database; the Python services keep no state between calls, except for caches
and in-process limits.  Any number of processes run the same services.

| Component | State it keeps | Operations | Interacts with |
|---|---|---|---|
| Leased jobs (`ingestion/service.py`) | `IngestionJob`: status, attempts, lease token and expiry | register, claim, take over, exhaust, ownership check, finish, report failure | every ingestion operation |
| Ingestion and deletion (`ingestion/service.py`, `graph/provenance.py`) | `Document`, `DocumentVersion`, `Chunk`, `KnowledgeSnapshot`, `IngestionTask`, tombstone, `TenantCorpusState` | `ingest` (read, stage, verify, publish, replay), `delete_document` | jobs, embedding index, governed references |
| Retirement (`ingestion/retirement.py`) | the same nodes and a retirement event | `retire`, list retirable documents | ingestion jobs, construction jobs, review heads, publications |
| Embedding index (`ingestion/embedding.py`) | `EmbeddingIndexGeneration`, vector labels, `ACTIVE_EMBEDDING_INDEX` | prepare, materialize, activate | corpus revision |
| Preparation (`ingestion/pipeline.py`, `artifacts.py`) | `PREPARE_UPSERT` jobs, tasks, `DerivationArtifact` cache | run | providers, jobs, ingestion, embedding |
| Bulk load (`ingestion/bulk.py`) | the ingestion nodes | load an empty tenant in one transaction | corpus lifecycle mode |
| Construction (`construction/`) | construction jobs, chunk outcomes, audit artifacts | run, complete, record failure | ontology, providers, knowledge store, preparation |
| Knowledge store (`knowledge/store.py`) | append-only revisions, record heads | persist candidates, read | review, publication |
| Review and publication (`knowledge/review.py`, ...) | heads, `KnowledgePublication`, publication state | approve, reject, quarantine, resolve, publish, roll back | store, ontology, graph views |
| Automatic review (`knowledge/auto_review.py`) | auto-review jobs and decisions | start, decide, commit | review, model provider |
| Ontology (`ontology/`) | T-Box versions, active pointer | import, publish, save and activate | construction, review |
| Graph views (`graph/`) | quality history, layout cache, view tokens | audit, browse, prepare layouts | publication |
| Entity resolution (`knowledge/entity_resolution.py`) | none | suggest, apply a suggestion | store, review, publication |
| Retrieval and generation (`retrieval/`, `generation/`) | none | search, rerank, project, answer | ingestion, publication, providers |
| API runtime (`api/runtime.py`, `api/app.py`) | capacity permits, rate windows, body buffers | run, time out, retry, close | all services |
| Upload intake (`construction/upload_guard.py`, `construction/preflight.py`) | reservation of a content and scope | compare with what is there, give a receipt, upload | construction, ingestion |
| Playground (`playground/`) and user interface (`*.mjs`) | workspaces, page state | create, reset, render | API |

How they interact: calls inside one process; transactions on shared nodes
between processes; leases between workers; compare-and-swap values that travel
through a caller (`expected_active_snapshot_id`, `source_generation`,
`expected_revision`); a few in-process callbacks after a commit
(`on_activated`, the visualisation queue).

What is hard: a call is many transactions and its process may die or be
overtaken between any two of them; callers retry; a value read in one
transaction is used in the next; two operations build the same node under a
computed id; a source may be deleted, created again and retired while old work
is still running.  What makes each component correct:

- *Jobs*: one writer at a time, closed jobs stay closed, every job ends.
- *Ingestion*: what is retrieved is exactly the one active snapshot under the
  document's access policy; publication is a compare-and-swap; an operation
  takes effect once; deleted sources do not come back; evidence survives.
- *Embedding index*: the active index covers exactly the active corpus.
- *Preparation*: a provider is called once per input; cached artifacts are the
  ones the tasks used.
- *Construction, review, publication*: append-only history; every change of a
  head is a compare-and-swap; a publication is consistent with the heads and
  the ontology it was made from.
- *Automatic review*: it approves nothing a person could not have approved,
  nothing that moved while the model was asked, and pays for every question.
- *Ontology*: the catalogue's pointer, the statuses and the declared types agree.
- *Readers*: what is shown, counted or quoted together was published together,
  and is still open to the principal who receives it.
- *API runtime*: threads are never over-committed; what is not safe to retry
  runs once; whatever was taken is given back once.
- *Playground*: nothing works across a reset, and nothing of an archived
  workspace answers again.

`PROJECT.json` lists every component with its status and every hazard with its
line and the properties that cover it.

## 2. Plan

The order in which the models were written, the most important behaviour first.
Each block has an MC module with the smallest instance in which its hazards can
happen.

1. **Core**: `JobLease`, `IngestionLifecycle` on top of it, `SourceRegister` as
   the abstract specification, `IngestionRefinement`.  Checked and proved.
2. **Review and publication**: `KnowledgeReview`, `KnowledgePublication` and
   `AutoReview` on top of it; `ReleaseContract`, the contract that gate and
   audit count apart.  Checked and proved.
3. **Preparation and construction**: `Preparation` on top of `JobLease`,
   `Construction` on top of `Preparation`; `OntologyExtraction`; `UploadIntake`.
   Checked and proved.
4. **Services around the core**: `EmbeddingIndex`, `OntologyStore`, `BulkLoad`,
   `LayoutQueue`, `RequestBody`, `PlaygroundReset`, `Workspaces`,
   `OperationRunner`, `RateLimiter`.  Checked and proved.
5. **Readers**: `PublishedCorpus` and on top of it `GovernedRetrieval`,
   `GraphBrowsing`, `QualityAudit`, `EntityResolution`, and `EvidenceProjection`:
   checked and proved.  `GroundedAnswer`: checked.

Left without a theorem are liveness and the grounding of answers (section 6).
Not planned: the user interface, the parsers, migrations and process scripts
(section 7).

## 3. Modules

| Module | What it is |
|---|---|
| `JobLease` | the job node, its lease and the workers' memory of their claims |
| `IngestionLifecycle` | one document under concurrent operations, retirement and governed references; EXTENDS `JobLease` |
| `SourceRegister`, `IngestionRefinement` | the promise, a register with compare-and-swap, and the mapping of the lifecycle to it |
| `Preparation` | the artifacts of an upload under a lease of their own, shared by all documents; EXTENDS `JobLease` |
| `Construction` | construction jobs, their runs of the model, audits, records and outcomes; EXTENDS `Preparation` |
| `OntologyExtraction` | what becomes of one answer of the extraction model |
| `UploadIntake` | the reservation of an upload and its comparison with what is there |
| `EmbeddingIndex` | index generations, the labels of the vectors and the selected generation, against the moving corpus |
| `BulkLoad` | the initial load of a document in one transaction that may run twice |
| `KnowledgeReview` | the chains of revisions of mentions and facts, what proposes and decides on them, and the documents and the T-Box that move under them |
| `KnowledgePublication` | manifests, the active publication, rollback and the navigation graph; EXTENDS `KnowledgeReview` |
| `AutoReview` | the leased review of a construction by a model beside people; EXTENDS `KnowledgeReview` |
| `ReleaseContract` | what a release satisfies as a whole, and the audit that recounts it |
| `OntologyStore` | the T-Box versions of a catalogue |
| `PublishedCorpus` | what readers stand on, and what moves under them |
| `GovernedRetrieval`, `GraphBrowsing`, `QualityAudit`, `EntityResolution` | the readers, query by query; each EXTENDS `PublishedCorpus` |
| `EvidenceProjection`, `GroundedAnswer` | the graph beside a retrieval under its limits; what is accepted of an answer |
| `OperationRunner`, `RateLimiter`, `RequestBody` | threads and permits, budgets, buffers of bodies |
| `LayoutQueue` | layouts of the published graph, prepared by a bounded queue |
| `PlaygroundReset`, `Workspaces` | reset of the demo against running work; projects, their tenants and archives |
| `MCIngestion`, `MCConstruction`, `MCKnowledge`, `MCPublication`, `MCAuto`, `MCServices`, `MCReading` | instances for TLC |
| `JobLease_proofs`, `IngestionLifecycle_proofs`, `Construction_proofs`, `KnowledgeReview_proofs`, `KnowledgePublication_proofs`, `AutoReview_proofs` | the theorems of the module they are named after; those on `Construction` include `Preparation`, those on `IngestionLifecycle` the refinement |
| `Services_proofs` | the theorems on `EmbeddingIndex`, `LayoutQueue`, `RequestBody`, `PlaygroundReset`, `Workspaces`, `OntologyStore`, `BulkLoad`, `UploadIntake`, `RateLimiter` and `OntologyExtraction` |
| `Reading_proofs` | the theorems on `GovernedRetrieval`, `GraphBrowsing`, `QualityAudit`, `EntityResolution`, `EvidenceProjection`, `ReleaseContract` and `OperationRunner` |

Definitions whose comment begins with `Mutant` are plausible mistakes in the
definition that follows them.  They are used by no specification; they record
which mistake each property finds (`PROJECT.json`, "mutants").

### JobLease

`status`, `attempts`, `token` and `live` are `job.status`, `job.attempts`,
`job.lease_token` and "`lease_expires_at` is in the future"; `held[w]` is the
`job_id` and token in the local variables of a running call.  The code's token
is a fresh uuid; since each claim also increments `attempts`, the attempt number
stands for it.  `LapseLease` is time passing: a lease may lapse at any moment,
in particular while its holder is alive, which is the case fencing is for.
`CrashWorker` covers a killed process and a failure report that never reaches
the database.  `OwnsJob` is the check at the start of each write transaction.

### IngestionLifecycle

An action is one Neo4j transaction (or one read session), because every writing
transaction first locks the job node and then the tenant's `TenantCorpusState`
node and so is serialised against the others.  `pc[w]` is where the call of
worker `w` is between two transactions.

| Action | Code |
|---|---|
| `RegisterOp`, `Claim`, `Exhaust` | `_ensure_upsert_job_tx`, `_claim_job_tx` |
| `ReadActive` | `_active_state` and the three tests after it in `ingest` |
| `StageSnapshot`, `StageChunk` | `_stage_snapshot_tx`, `_stage_bundle_tx` with `_write_bundle_tx` and `_link_membership_tx` |
| `VerifySnapshot` | `_verify_snapshot_tx` |
| `PublishSnapshot` | `_publish_snapshot_tx` |
| `FinishExisting` | `_finish_existing_snapshot_tx` |
| `DeleteDocument` | `_delete_document_tx` |
| `RetireDocument` | `retire` |
| `Refuse`, `Interrupt`, `Report` | an exception that rolls back, and `_record_failure` |
| `Crash`, `Lapse` | the environment |
| `CiteSource`, `SettleReview` | the effect of construction, review and publication on a source |

Abstractions: a snapshot's content is a set of chunks, so the manifest of
entities, mentions and assertions is equal when the chunk sets are; titles and
policies are values; findings, artifacts, entity profiles and embeddings are
left out.  Operations whose immutable identity differs
(`_assert_active_source_identity_tx`) cannot be written down in the model: a
snapshot value has one content.  `cited` and `openReview` stand for all governed
records that refer to the document; a job that exists but produced nothing still
counts as a reference, as in the code.  Retirement's own replay is left out, and
its equality of the version's chunks with the snapshot's follows from
`OnePartition` and `ActiveIsComplete`.  Two refusals of
`VerifySnapshot` cannot happen: a call reaches it only when its own STAGED tasks
are complete, and tasks and snapshot disappear together, with the generation.
They are kept because the code has them.

### Preparation and Construction

A preparation is a leased job of its own: it reads or derives the artifacts of
each chunk and hands them to `ingest()`.  What `ingest()`, `retire()` and
`delete_document()` do to a document is one step here, as `SourceRegister` has
it and `IngestionRefinement` shows.  An artifact stands under the digest of what
it was derived from, so that uploads of one text share it, and it is collected
when a deletion leaves it without a task.  The provider may answer differently
each time.

| Action | Code |
|---|---|
| `EnsurePreparation`, `ClaimPreparation`, `ClaimRefused` | registration and claim of a `PREPARE_UPSERT` job (`ingestion/pipeline.py`) |
| `StartTask`, `ReadArtifact`, `ProviderFails`, `PersistArtifact`, `LinkArtifact`, `CompleteTask` | one task of a chunk |
| `Ingest`, `IngestInterrupted`, `FinishPreparation`, `ReplayPreparation` | the hand-over and what follows it |
| `MarkTaskFailed`, `ReportFailure`, `Leave`, `CrashPreparation`, `Expire` | failures |
| `Observe`, `EnsureJob` | the source that a construction captures, in two transactions (`construction/workflow.py`) |
| `CallPreparation`, `StepPreparation`, `LeavePreparation`, `Synced`, `SyncFailure` | the preparation inside a construction, and its outcome on the job |
| `Ask` to `PersistOutcome` | one thread of the pool at one chunk: the outcome, the retained answer, the audit, the records |
| `CompleteJob`, `RaiseFirst`, `Crash` | the end of a call |
| `Upload`, `DeleteDocument`, `RetireDocument` | everything else that happens to the documents |

Answers are told apart by the run that asked and by whether they could be used;
records by the run they came from.  The mapping mode, which has an executor and
no model, is left out.

### OntologyExtraction and UploadIntake

`OntologyExtraction` follows one answer through the stages that each check it
again: validation against the chunk and the T-Box, the domain objects, the audit
that is saved, the records made of the audit.  `RejectAnswer`, `Save` and
`Persist` are the three outcomes.  Entities have local references before the
audit and are known by type and mentions after it.

`UploadIntake` has the queries of the comparison one by one (`LookForPossible`,
`ReadExact`, `ReadSimilar` and their rereads), because they read different
instants, while documents are stored, deleted, given other groups or pinned by
a release.  The second look for possible matches and the reading of their texts
can only refuse and are part of `FailUpload`.  MANUAL mode takes neither
reservation nor comparison and is left out.

### KnowledgeReview

`mentions[m]` and `facts[f]` are the revisions of a record in the order of their
numbers; the head is the last one.  Revisions are immutable in the code (an
append under the lock of the head), and in the model nothing but `Extend` and
the creation of a new mention touches a chain.  Every operation of the store and
of the review service is one transaction which locks the tenant's corpus state
and the heads it changes, so an operation is one action.  Its argument `n` is
the revision that the caller saw when it decided, any of the past ones; the guard
`Readable` is the comparison with the head and the conditions of the review
queue's query.

| Action | Code |
|---|---|
| `PersistCandidates`, `ImportAuthoritative`, `PersistContextCandidate` | `KnowledgeStore` (`knowledge/store.py`) |
| `DecideMention`, `DecideFact` | `_review_batch_tx` for one decision: edit, transition, `_approved_endpoint_tx`, rebinding of dependents |
| `LinkMention`, `SplitMention` | its entity resolutions |
| `ReassignProperty` | `knowledge/property_assignment.py`, `identity_review.py` |
| `Release` | what `_publish_tx` does to the heads |
| `PublishVersion`, `RetireDocument`, `ActivateTBox` | the effect of ingestion, retirement and the ontology store |

A batch of decisions is the sequence of its members: the code applies them in
order in one transaction and a refusal of one rolls all back, so what batches can
do the model can do too.  Text, types, predicates, hierarchies, evidence windows
and access groups are abstract: each only makes the code refuse more.  `Visible`
keeps the three conditions that other operations can falsify: the version is the
active one, and the access policy and the T-Box are those the record was written
under.  An identity is a named entity or the one that a split creates, which the
code derives from the mention and its revision.

### KnowledgePublication

`pubs[p]` is a completed publication with its manifest and the change set its id
is a digest of, `current` the pointer of the publication state, `graph` the
navigation graph, tagged by the publication an entry was built for, and `log`
the activation events.  `Publish` is `_publish_tx` with the release of the
records, the materialisation and the activation, `Rollback` is `_rollback_tx`;
both compare the publication that the caller expects with the active one under
the lock, so the base of an accepted change set is the current publication and
every other request changes nothing.  `RetireUncited` and `ReassignFromRelease`
add to two actions of `KnowledgeReview` the conditions on the active publication.
Refusals, previews and limits on sizes are left out.

### AutoReview

`run` is the node of the job: lease token, receipt, calls paid for.  `at[w]` and
`batch[w][r]` are where a worker and its question about a record are.

| Action | Code |
|---|---|
| `Load`, `Start`, `SortIdentities`, `SortFacts` | reading the records, taking the lease, sorting what needs a person (`knowledge/auto_review.py`) |
| `Reserve`, `AskModel`, `AnswerModel` | paying for the calls of a question and making them (`auto_review_model.py`) |
| `Commit`, `LeaveToPeople`, `Finish` | approval at the revision that was read, under the token; the receipt |
| `Interrupt`, `LoseLease`, `Vanish`, `LeaseLapses` | an exception, a fence that refuses, a killed process, time |

A batch is about one record.  Whether the source proves a record and what the
model says are choices.  The continuation for chosen identities
(`resume_identity_record_ids`) and the calls of `context_projection.py` are left
out.

### ReleaseContract

`PublishRelease` and `RestoreRelease` check a whole manifest against the T-Box and
make its navigation graph; `ProjectionPasses`, `EntityPasses` and the other
operators of that name are what the audit counts again in what was stored.  Left
out: conditional properties of relationships, namespaces of keys, the earlier
checks of types, and source contracts; heads, snapshots and policies are
`KnowledgePublication`'s.

### EmbeddingIndex

The corpus is what ingestion leaves behind: the active chunks, the generation
label of each chunk's vector in each embedding space, and the tenant's revision.
`MoveCorpus`, `DeleteChunks` and `StageVector` are the effects of publication,
deletion or retirement, and staging; the first two advance the revision and
clear the pointer `ACTIVE_EMBEDDING_INDEX` (`Invalidate`).  `prepare()` is the
transactions `EnsureGeneration` and `FinalizePrepare`, `materialize()` is
`Materialize`, and `activate()` is `ReadTarget` and `Switch`.  The index that
Neo4j builds in between is outside, and a failed verification of it is
`Abandon`.  What `activate()` is told to expect and the version of a generation
are arbitrary inputs, because callers choose them.

### OntologyStore and BulkLoad

One write holds the lock of the catalogue or of the corpus state, so an operation
is one action.  `Load` may run for a load that already committed, as the driver
repeats a transaction whose outcome it did not learn.

### PublishedCorpus and its readers

A transaction of Neo4j is read-committed: each query sees the ground as it is
then.  So every query of a reader is an action, and between any two of them
`ChangeCorpus`, `SelectIndex`, `ActivateRelease` or `RepairAccess` may happen.
`repairs` counts the repairs of access since the beginning (in `GraphBrowsing`
since the beginning of the request), which no pin shows.  A page of
`GraphBrowsing` is the set of its entries; their order is that of their places.
That each published assertion has a published mention in its chunk is assumed of
the constants, as the query of the assertions joins the two
(`retrieval/subgraph.py:791`).  Repairs of access are
steps of `GraphBrowsing`, whose code names them, and of `EntityResolution`.
Retrieval and audits, whose pins would not show them either, are modelled without:
`OneInstant` and `PassedStillHolds` presuppose that access changes with the corpus
revision.

| Module | Actions and their code |
|---|---|
| `GovernedRetrieval` | `Capture`, the recalls, `Expand`, `RankCandidates`, `Hydrate`, `Confirm` (`retrieval/engine.py`), reranking and the second look, `ProjectGraph` with its rows, `CheckSelected`, `BeginAnswer` to `ValidateAfter` (`generation/service.py`) |
| `GraphBrowsing` | `AskPage`, `AskEvidence`, `ReadPin`, `ReadMentions`, `ReadAssertions`, the rereads, `ConfirmPin`, `ReceivePage`, `ReceiveEvidence`, `LoseResponse` (`graph/browsing.py`) |
| `QualityAudit` | `StartAudit`, `ReadBoundary`, `ReadRevisions`, `ReadEntities`, `HandOut`, `RecordRun`, `Decide`, and the inventory (`graph/published_quality.py`, `published_quality_history.py`, `published_inventory.py`) |
| `EntityResolution` | `CountMatches`, `FetchTarget`, `CompareNames`, `ApplySuggestion`, `SelectTarget`, `WriteLink` (`knowledge/entity_resolution.py`) |

`EvidenceProjection` admits the rows of two queries one by one under the limits
of `retrieval/subgraph.py`.  `GroundedAnswer` accepts claims over token
sequences; the tables of words are samples, a figure is one token, a conflict
has two alternatives.  Signs behind a figure and symbols bound to it
(`generation/service.py:767`) are left out: the code refuses such claims on top.

In `EntityResolution` a person picks among the published mentions where the code
also offers approved ones that are not published yet
(`knowledge/review_context.py:60`), and a proposal is compared with the published
facts of the target where the code also reads candidate and approved ones and so
proposes less.  That a target is the only match is carried as the set of targets,
of which the count has one.

### OperationRunner

`pc[c]` is where the coroutine of a call is, `future` the state of the
concurrent future of each of its attempts, `queue` the work queue of the pool,
`permits` the semaphore.  The steps are cut where another thread may come in
between: `Acquire`, `Check` and `Submit` are the three lines of `_execute_once`
between which `close()` may run in its own thread.  `Start`, `Join` and
`Running` are Python's `ThreadPoolExecutor`, modelled from what the code relies
on: first in first out, a cancelled item is dropped when it is taken, and
`shutdown(wait=True)` returns when nothing is left.  Time is abstract: a
deadline may pass wherever the code looks at the clock or waits.

### RateLimiter

A `check()` is `ReadClock`, outside the lock, and `Decide` or `Reject`, inside
it.  `algorithm` is the policy's; the initial states have either.  The clock is
an integer and amounts are multiples of `1/Window`, so the arithmetic is exact;
the tolerance of 1e-12 in the code, which absorbs rounding, has nothing to
absorb here.  `granted` is a history variable.

### LayoutQueue, RequestBody, PlaygroundReset, Workspaces

A step is what runs under the lock of the object, or between two awaits.
`RestartProcess` and `Die` empty what lives in the process; files, the registry
and its operation ids survive.  The pool between admission and execution is the
runner's: in `PlaygroundReset` an operation may enter the backend at any time
after its request was admitted, or never.

## 4. Checks

TLC evaluates the assumption of each module in the run that extends it.  Every
property has a mutant in `PROJECT.json`: a plausible bug in a definition with
which the same run finds the property violated.

| Run | Instance | What it shows |
|---|---|---|
| `ingestion_mix` | two uploads of two versions and a deletion, at most 4 claims, generations 0..2; or two extractions of one version that share chunks and an operation that changes title and policy, one attempt each, generations 0..1; 2 workers | scope, effect once, evidence, the corpus revision, and the refinement of `SourceRegister` |
| `ingestion_end` | two uploads of one version cut differently, 2 workers, 2 attempts, fairness; 72 000 states | fencing, one partition of each version, and every job ends |
| `construction` | six scenarios, below; 1 765 000 states | one vector per text across documents, completed constructions have one audited run behind each chunk that no deletion elsewhere touched, stale ones are inert |
| `review` | 2 mentions with a property and imports under one T-Box; or with a relationship under two, without imports; 3, 2 and 3 revisions; 304 000 states | facts rest on approved mentions and agree with them, what is published is what was approved |
| `publication` | mentions in two versions of a document under two T-Boxes, 4 activations; or 2 mentions and a property, 2 activations; 310 000 states | the chain of activations, manifests that stand alone, nothing withdrawn is served |
| `auto_review` | one mention, two mentions, or a mention and its property; 2 workers, 2 tokens, 6 calls; 534 000 states | approvals are of candidates, at the revision that was read and under the token of the job; the receipt and the budget |
| `services` | ten parts, below; 430 000 states | one property of each part |
| `reading` | eight parts, below; 929 000 states | what is delivered is of one instant, whole, founded and grounded; the runner under it, with fairness |
| `ingestion_twin` | two operations on one snapshot | **violated**: a published snapshot goes back to READY |
| `construction_audit` | a construction, and the deletion of another document | **violated**: the audits of the construction go with the other document |
| `publication_split` | a mention and a property, up to 5 revisions | **violated**: a split leaves a fact behind |
| `audit_entities` | one audit while a publication is activated | **violated**: an audit passes that has not seen the entities |

Deadlock checking is off in all of them: jobs close, and revisions, activations,
readings of the clock and the other counters run out.

**Ingestion.**  Two workers are enough for one stale and one owning call; that
more of them add nothing is proved.  Two attempts give one takeover and one
exhaustion.  Three jobs are the smallest number with a publication, its
replacement and a third operation that saw only the first; `MaxGeneration = 2`
lets a source be removed and created again, and old work of generation 0 meet
generation 1.  Chunks: two in a snapshot, so that a build stops half-way.  The
second scenario allows one attempt because retries do not touch policies.  The
workers are symmetric in the safety runs; no symmetry is used with fairness.

**Construction.**  Two calls of one FEEDBACK construction of a document of one
chunk, with crashes and a retirement, and two runs of the model; two bare uploads
of two documents that share a text, with deletions; and, with one call at a time,
a construction on a document with a history, one of SOURCE_ONLY with two chunks
and one of SINGLE.  Two runs are the smallest number in which the answers of one
call meet those of another.  A deletion of any document collects the audits of
every construction, which is the violation that `construction_audit` shows.  It
occurs in this run at any time.  The history variable `collected` has the chunks
whose audits were taken, and the two properties state for them what is left: the
outcome stays, but what is audited anew and the records of it need not agree with
what was there.  Both exceptions are reached.  The sixth scenario is that deletion: a
construction and an upload of another document, with one call at a time.

**Review and publication.**  A mention needs three revisions to be proposed,
approved and published, or approved and taken back; a fact too, and the first
scenario of `review` gives them to the fact and one mention.  The second mention
with two is the one a property can be reassigned to, or imported beside.  With a
relationship both mentions have two, which suffices for every rebinding, and the
third revision of the fact shows what a rebinding leaves for the next step.  Four
activations are two publications and two rollbacks, or three publications of
which one repeats an earlier change set after a rollback.  One scenario has no
facts and the other one version, because the two questions do not meet: a fact
and its mentions are always of one version (`EndpointsAgree`).

**Automatic review.**  Two questions in a review and four in a run let a run end
for want of budget while the job has some left, six in a job let the next one
end so too.  Two tokens are one takeover.  In `Alone` every question is asked
once at most and people may do all they can; in `Pair` both questions are open at
once; in `Property_` the fact waits for its mention.

**Services.**  The parts share no state; `part` says which one a behaviour is of
and the others rest, so that one run checks them all without their product.

- *limiter*: one thread, since the application calls it from the event loop only
  (`api/app.py`), 2 principals, a table of one, so that every check of the other
  is an eviction; burst 5, window 2, readings 0..4, both algorithms.
- *embedding*: 2 callers, three generations in two spaces, 2 chunks, revisions to
  2; at most one of the two successors appears, and the corpus changes twice only
  without one.  Chunks and callers are symmetric.
- *layouts*: 2 submissions for one slot, one reader, one restart.  *bodies*: 2
  clients for one buffer.  *reset*: 3 requests, 2 operation ids.  *workspaces*: 2
  projects, 3 operation ids, 2 jobs, one crash.  *ontology*: 3 versions of 2
  definitions.  *bulk*: 2 loaders, 4 plans, each of which may be run again.
- *extraction*: answers about a chunk of three characters at offset 2, of up to 2
  entities of 3 types, and up to 2 relations or 2 property facts; two spellings
  of one value, a token that stands only next to CJK text, a faulty quote, a
  doubtful mention, shared references and shared mentions.
- *uploads*: two uploads of one text with three attempts between them over an
  empty corpus, or one upload against a corpus with a similar document that moves
  twice.

**Reading.**  Eight parts, in the same way.  Three chunks, two publications that
share one, activations to 3 and repairs of access to 3 let a publication come
back that was read before, which is the case a comparison of names would miss;
three pages of two entries let a walk be interrupted twice.  *runner*: 3 calls on
a capacity of two meet every limit: the worker is busy, the queue is full, the
third is refused; after a timeout the abandoned thread still holds its permit
when the next call comes.  *projection*: 5 mentions of 3 entities in 2 chunks, 4
assertions, every published subset and selection, limits 1 and 2.  *resolution*:
3 entities, 2 releases, 14 candidates.  *contract*: 4 offers of up to 10
revisions, changes of 2, three releases, one former release with an untyped
literal and an assertion of the earlier format, two pumps whose keys differ in
case; each of the three objections that `ReleasePassesAudit` names is reached.
*answer*: 3 chunks of 3 versions and 11 quotes of them; claims are
scopes with up to two words left out, and short ones with two words exchanged;
12 comparisons; two claims.  `WhatIsRead` keeps moves of the corpus away from
parts that do not read what moved.

**Fairness.**  `ingestion_end`: a running call proceeds (weak fairness of
`Work`): a thread that is not killed runs on.  Time passes (weak fairness of
`Lapse`).  The caller repeats the operation while it is unanswered (strong
fairness of a claim or of exhaustion): the code has no scheduler of its own, and
at-least-once callers are what its module text assumes.  Strong, because other
calls may occupy the job in between.  Crashes have no fairness and may happen at
each attempt; the retry budget ends the job then.  `reading`: the event loop runs
what is ready and its timers fire (weak fairness of each call's `Step`).  Nothing
is assumed of the workers or the backend: `EveryCallAnswered` holds although a
thread may never return.  Disconnection has no fairness.

## 5. Where the code does something else

Four disagreements between the code and what its own comments say have a run and
are described in `PROJECT.json` under "findings": `ingestion_twin`
(`ingestion/service.py:955`), `publication_split` (`knowledge/review.py:1267`),
`construction_audit` (`ingestion/service.py:2036`) and `audit_entities`
(`graph/published_quality.py:1977`).  More were met while modelling and are
recorded here without a run.

*Sources that can be neither deleted nor retired.*

- An upload of a second version that fails for good after staging leaves chunks
  without access groups.  `ingestion/retirement.py:405` refuses a document with
  such a chunk, nothing removes them, and deletion refuses a governed source.
- A construction that looked at its source before a deletion and created its job
  after it (`construction/workflow.py:980`) leaves a RUNNING job of an old
  generation, which blocks deletion and retirement of the document created
  again.  Jobs that stay RUNNING or RETRY_WAIT block retirement in general
  (`ingestion/retirement.py:885`).

*Constructions that cannot go on.*

- Two runs that both retained a final answer and crashed: recovery refuses the
  pair for good.
- A first answer that was too large is retained, and the process dies before the
  final audit: recovery says that the terminal response is unavailable, each time.
- A concurrent call that lost, with a provider that answers differently, is told
  of conflicting checksums; its caller sees an error where the winner succeeded.
- Two local references of one type whose mentions share a span pass validation
  (`construction/extraction.py:1285`).  With equal mentions nothing is saved;
  with others the audit is saved and the batch raises "duplicate logical record
  IDs" on every repetition (`knowledge/models.py:580`).  `AcceptedIsKept`
  excepts exactly these answers.
- A preparation may end FAILED_PERMANENT although its snapshot was published,
  and `_link_artifact` only asks whether an artifact exists where the staging of
  ingest compares its content (`ingestion/service.py:843`).

*Review.*

- `knowledge/review.py:1905` says that a record is "replaced by supplying a new
  revision together with its record ID".  The code requires of a replacement only
  that some revision is supplied (`review.py:1937`) and that the record is in the
  release: a change set that replaces one record and adds another removes the
  first.
- The automatic review loads its records before `_start` takes the lease, so
  that after a takeover a record which the earlier worker approved is reported
  as one for people.  With chosen identities an old AUTO_APPROVED item of a
  record that was quarantined since may stay in the receipt.  The progress that
  `context_projection.py` writes is not fenced by the lease.
- The signature of a claim or a fact keeps the sequence of its prepositions, not
  their places.

*The contract of a release.*

- The audit objects to three things that the gate lets through, and
  `ReleasePassesAudit` says that there is no fourth.  Entities whose types and keys
  differ in case only are two to the gate and to the ids, and a DUPLICATE_ENTITY
  error each to the audit (`graph/published_quality.py:1810`).  Carried literals
  without a type are counted as TYPED_LITERAL_INVALID.  Assertions of the earlier
  format, without `relationship_properties_json`, are said to remain valid
  (`published_quality.py:1117`), but every activation materializes them in today's
  format (`knowledge/review.py:3699`) and the comparison of the two
  (`published_quality.py:581`) fails.  The graph that an earlier version left, before
  any activation by the present code, is not modelled.
- Two records with one id in the navigation graph refuse the whole publication
  without naming either.  Conditional properties, allowed pairs of types and
  source contracts are checked by the gate only.
- A published T-Box is named by its version, not its checksum.

*Readers.*

- The double reading of a view excludes two repairs of access groups within one
  request but not three: then the second reading of the mentions and that of the
  assertions may each find what the first found, at instants that differ
  (`graph/browsing.py:156`).  The pin and the mentions are of one instant all the
  same.
- A recorded audit is compared by publication and revision but not by activation
  generation.  An inventory without items may be that of a publication that was
  replaced while it was read (`graph/published_inventory.py:1198`).
- A relationship between two mentions of one entity may be drawn although its
  object's mention has no room (`retrieval/subgraph.py:1300`).
- "Globally unique" in entity resolution counts what the principal may see; its
  rules read different instants; a homonym beyond 200 candidates is missed; and
  identity facts are read with a LIMIT over all mentions before they are filtered
  to the candidate's own revision (`knowledge/store.py:1483`), so that one of two
  contradictory values may be cut off and a link proposed.
- The grounding of an answer binds a figure without a year to the year of the next
  statement (`generation/service.py:818`; texts of that form are left out), allows
  a heading gap at any place of a claim, and accepts alternatives of a conflict
  that may both be true although `service.py:1147` says they cannot.
- The interface keeps 'ready' identity matches after an edit (`governance.mjs`);
  the token of the expected impact still guards the write.

*Uploads, limits, workspaces.*

- After a lost answer the repeated upload finds its own document as an exact
  match and needs a receipt.  A release of the reservation that fails after a
  success refuses the client until the lease lapses.  The lease is not renewed, so
  that a holder past it may store a twin, which `NoUnreviewedTwin` excepts; uploads
  by principals with other groups have other reservations.
- `api/runtime.py:933` reads the clock before it takes the lock.  With two threads
  an older reading can be used after a newer one, the state's time goes back, and
  the same time is refilled twice.  The application has one thread there.
- After a lost answer to a reset the administrator's old session is refused (401)
  before the replay is looked up.  Layout tasks that are cancelled do not return
  their slots; the queue is closed then.

## 6. Proofs

The theorems hold for any number of jobs, workers, documents, snapshots, chunks,
generations, calls, threads, mentions, facts, versions, publications, clients,
operations, policies of the limiter, limits of a projection, hierarchies of types and
answers of the model.  They assume the named assumption on the constants of each
module and nothing else, with one exception: the theorem of the limiter is about
one thread.
For a part of `services` or `reading` they are about that component's own
specification.

`JobLease_proofs`: `LeaseInv` is inductive.  Fencing needs `TokensAreClaims`: a
token is the number of the claim that wrote it, so a stale token is smaller than
the current one, and a job that stopped running remembers none.

`IngestionLifecycle_proofs`: `LifecycleInv` is inductive.  None of its parts is
alone: `ScopeIsActive` needs that an active snapshot is complete and that its
members are among its planned chunks (`ActiveIsComplete`, `MembersExist`);
`EffectOnce` needs fencing; `GenerationAgrees` needs `SourceShape`, because a
document's generation appears with its publication; the policies need
`SourceShape` again, because a staged document has none.  There is one lemma for
each action that writes, and one for the actions that leave the source alone.
The action properties and `OnePartition` follow from the invariant, action by
action.  `Refinement`: every step is a step of `SourceRegister` or leaves its
variables unchanged.  `PublishSnapshot` is `Switch`, `FinishExisting` is `Touch`
or `Agree`, `DeleteDocument` is `Remove` or `Agree`, `RetireDocument` is
`Retire`, registration is `Submit`; the rest stutters.

`Construction_proofs`, in three layers.  `PreparationInv` (on `LeaseInv`):
`OneVectorPerText` holds because a link keeps an artifact from being collected
(`LinksSound`), so that staging finds in the cache what the tasks used while the
source is the one that was captured (`CallSound`, `LoopSound`, `CacheSound`); a
preparation whose source moved on finds its cache perhaps empty and does not
publish.  `AuditInv`: of each chunk at most one run has a final audit, threads
past the audit hold that one, and records and outcome are of it (`ThreadSound`,
`ChunkSound`); every thread relies on the others only adding (`Growing`), so that
one lemma for each step of a thread is enough.  `ConstructionInv`: once the source
moved on, a job's preparation is closed or will be refused (`JobSound`,
`CallFollows`).

A deletion elsewhere collects all audits (`AuditsAreKept` is violated), and then a
thread may ask the model anew for a chunk that is finished, even of a completed job
whose source is gone, and write other records.  So `CompletedStaysBacked` and
`StaleJobsAreInert` speak of audits and records for the chunks outside `collected`,
the history of what deletions took, and of outcomes and snapshots for all chunks.
Of a chunk outside it `AuditInv` says what it would say without deletions.  That a
job which is COMPLETED stays so is not part of the invariant; what it completed with
is.

`KnowledgeReview_proofs`: `ReviewInv` is inductive.  It says of every chain of
revisions that it is sound (`SoundMention`, `SoundFact`), where a fact's
soundness depends on the chains of the mentions, and of the sources that a
version that is served has an access policy, without which a new record would not
be well typed.  Mentions only grow (`Grown`), and what a revision of a fact says
of the mentions stays true when they do (`RestsStill`); so the lemma `Grow` reduces
every action to the revisions it appends, and there is one lemma for each action
that writes.  The properties and the type invariant are read off the invariant;
`RevisionsAreImmutable` follows step by step from `Extend`.

`KnowledgePublication_proofs`: `KnowledgeInv` adds to `ReviewInv` that releases
are well typed and stand alone, that activations chain and that nothing withdrawn
is served.  First, every step is a step of `KnowledgeReview` for the records
(`PublicationImplementsReview`), so that `ReviewInv` comes for nothing and chains
only grow.  Because they grow, a manifest means for ever what it meant when it
was written (`ReleaseKeeps`), and only what `Publish` writes is left to be looked
at (`NewReleaseStands`).

`AutoReview_proofs`: the service and its workers are one more reviewer
(`AutoReviewImplementsReview`).  `AutoInv` says that what a worker read is still
in its chain and that the records it asks about were candidates (`ReadingInv`),
that what a receipt calls approved was approved (`ReceiptInv`), that leases have
different tokens and at most one is current (`LeaseInv`), and what was paid
(`BudgetInv`).  The budget was the hard part: the calls that were made and all
that open questions may still make, those of workers included that lost their
lease, together never exceed what the job has paid.  They are counted as a set of
tickets, so that a step takes one out of the set or reserves new ones.

`Services_proofs`.  *Index*: `EmbeddingInv` adds that a generation is ACTIVE
exactly when the pointer selects it and that its revision is the corpus' own:
every change of the corpus clears the pointer in the same transaction, and
`Switch` checks coverage and revision in its own.  *Bodies*: `BodyInv` counts the
holders of buffers.  *Layouts*: `LayoutInv` adds that queued submissions wait
(`TasksWait`) and that the running one is out of the queue (`TaskRuns`), so that
each holds its slot once.  *Reset*: `ResetInv` says that whatever is admitted is of
the present generation, and that nothing is admitted or at work while a reset
runs.  *Workspaces*: `WorkspaceInv` has a part for the projects, the archive, the
change that is being prepared, which was checked against what is still there
because the lock is held, and the writers inside.  *Ontology*: `OntologyInv` adds
that a version has its definition as soon as it exists.  *Bulk*: the property is
inductive once the chunks are well typed.  *Uploads*: `IntakeInv` says that an
upload that is not late holds the reservation of its content and readers, so that
nobody else stores a twin under it, and that from its first reading on it has seen
every twin there is, or more matches than the limit.  The readers of a twin must
be able to see it: `IntakeAssumption` asks that a document's groups are some of
its uploader's, which the API demands (`api/knowledge.py:1431`).

*Limiter*: `TableStaysBounded` is a plain induction.  `GrantsStayWithinBudget` is
about sums over all intervals of time.  `Accounted(h)` says, for a time `h` before
which nobody checks any more, what an entry knows of the past: the amount in a
bucket and what was granted since any earlier time, times the window, are within
the burst and the refill since then (`BucketOK`); what a window counted is what was
granted in it, and what lies less than a window before it is one window's worth
(`WindowOK`); and a principal who was forgotten was granted no more than has been
refilled, or than the windows that are over allow (`BucketGone`, `WindowGone`), so
that forgetting gives nothing away.  `h` is the time of the last check.  The
theorem assumes that there is one thread (`\A t, u \in Threads : t = u`): with
more it is false, for the reason given at `api/runtime.py:933` in section 5, and the
application has one.

*Extraction*: what is accepted has every key once, and a list with as many keys as
places has no key twice (`KeysDistinct`).  From that: the output is a bundle
exactly when no two of its entities are of one type with the same mentions
(`BundledIs`); what is saved relative to the chunk comes back as it was
(`AuditComesBack`); two records of one identity are a mention that two entities
share (`RecordsDistinct`); the first mention in the evidence is one of the entity
that the answer named (`EndsKept`), because two different local references stay two
identities (`OneReferred`).  `ExtractionInv` only remembers which of the stages has
agreed.  `ExtractionAssumption` says that an answer that is whole is made of lists
and offsets, which the validator asks of each of its parts
(`construction/extraction.py:1165`).

`Reading_proofs`.  *Readers*: a pin that was taken never comes back once the corpus
moved, because every change of the corpus advances the revision and every
activation its generation (`CorpusMoved`).  So the invariants say what holds while
the pin is still the one that was taken: the chunks and rows found so far are those
that the queries would find now (`RetrievalInv`), which the last comparison turns
into `OneInstant`; the rows of an audit are open (`AuditInv`).  Nothing of that is
said of a reader whose pin is stale, and it hands out nothing.  Repairs of access
move no pin.  `BrowsingInv` says for each stage of the double reading how many
repairs it survives; of a view's assertions it needs that they go with the mentions
that are seen (`MentionsTell`).  `WalkInv` says that the pages received hold the
entries of the token's view up to the cursor, in order.  `LinkInv` follows a
proposal from the count of its matches to the write.  *Runner*: `RunnerInv` is
inductive.  The count of permits needs to know which attempts are in the hands of a
call (`Holds`) and that one attempt of a call is current (`CallsFollow`);
`JoinedIsQuiet` needs that whatever is queued is still in the pool's queue
(`PoolFollows`).  The permits are counted with one lemma: taking an element out of
the holders, or adding one, changes their number by one.  *Projection*:
`ProjectionInv` says of what is drawn so far that every assertion hangs on nodes
that show its mentions and is anchored in a text that was selected, and that nodes,
mentions of a node, texts and size are within the limits; and that what is drawn is
among what the size was reckoned from (`quoted`), since the size of a part is at
most that of the whole. `ProjectionAssumption` asks that mentions, entities and
assertions are numbered in the order of the rows, as the queries return them, and
that an assertion's mentions are of one chunk, which is that of its evidence.
*Contract*: `ContractInv` says that the graph is what the active manifest
materializes and nothing else, so that taking a release down gives the empty graph
(`GraphIsUndone`) and the audit recounts the manifest.  The gate looks for a cycle
by removing what nothing leads to any more, round by round, and the audit by
reachability; that what the rounds empty has no cycle (`AcyclicHasNoCycle`) is an
induction over the rounds. `ContractAssumption` says that there are finitely many
revisions, that an assertion was approved with mentions of its ends, that a mention
has no format, and that a manifest of an earlier version passed the same gate.

Induction.  The library's induction rules take an operator as a parameter and
cannot be used.  Where an argument is by induction over a number, the proofs take
the least number for which it fails (`LeastNat`, from the well-foundedness of the
natural numbers); where it is over a finite set, a smallest such set
(`LeastSet`).  That is how the iterated definitions of the rounds and of
`SumFunctionOnSet` are opened.

The inductive invariants that are not themselves a property of a run were checked
by TLC on the instances of section 4 as well, with their unbounded quantifiers
bounded.

Only model-checked:

- `JobsEnd` and `EveryCallAnswered`: the prover handles neither fairness nor
  ENABLED.
- `AnswerIsGrounded`: the texts are cut with `SelectSeq`, a primitive of which the
  provers know nothing; and what a reader takes from a chunk (`Stated`) and the
  tables of words are those of the instance, so that the property is about these
  texts and not about every value of the constants.
- The violations.

## 7. Not modelled

See "components" in `PROJECT.json` for the reason in each case: parsers and
mapping executors, migrations, authentication and the driver, the user interface,
industrial adapters, observability and the process scripts.  What the present
models do not see besides: two documents of one tenant that share entities, the
contents of chunks outside extraction and answers, scores and ranks of a
retrieval, the validation of definitions, embedding spaces bound to a
publication, the continuation of an automatic review for chosen identities, and
the runs of `context_projection.py`.
