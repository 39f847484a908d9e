----------------------------- MODULE QualityAudit -----------------------------
(***************************************************************************)
(* The audit of the active publication (graph/published_quality.py), its   *)
(* history (published_quality_history.py, quality_review.py) and the       *)
(* inventory that rests on it (published_inventory.py).                    *)
(*                                                                         *)
(* An audit is one read transaction of three queries: the boundary, the    *)
(* revisions with their evidence, the entities.  Each looks for the same   *)
(* publication and finds nothing when it is not active any more.  What the *)
(* rules say of a row is a constant of the publication; that every         *)
(* revision is found with its source open is what the audit depends on.    *)
(* A publication has one revision for each of its chunks.                  *)
(***************************************************************************)
EXTENDS PublishedCorpus

CONSTANTS
    Flaws,     \* which of its queries would object to a publication
    Decisions, \* operation keys of decisions on recorded issues
    MaxAudits  \* bound: audits

ASSUME AuditAssumption ==
    /\ Flaws \in [Releases -> SUBSET {"revisions", "entities"}]
    /\ MaxAudits \in Nat

VARIABLES
    audit,     \* the next thing the call does
    purpose,   \* what the report is for
    report,    \* the report
    audits,    \* how many audits there were
    runs,      \* the recorded reports
    decided,   \* the run a decision is recorded about
    listing    \* the sources of the items of an inventory

auditVars == <<corpusVars, audit, purpose, report, audits, runs, decided, listing>>

NoReport == [release |-> NoRelease, revision |-> 0, rows |-> {}, entities |-> FALSE]
Reports == [release : Releases \cup {NoRelease}, revision : 0..MaxRevision,
            rows : SUBSET Chunks, entities : BOOLEAN]
NoRun == [NoReport EXCEPT !.revision = MaxRevision + 1]

AuditTypeOK ==
    /\ audit \in {"idle", "state", "revisions", "entities", "told", "manifest",
                  "items", "properties", "listed"}
    /\ purpose \in {"report", "record", "inventory"}
    /\ report \in Reports /\ runs \in SUBSET Reports
    /\ audits \in 0..MaxAudits
    /\ decided \in [Decisions -> Reports \cup {NoRun}]
    /\ listing \in SUBSET Chunks

AuditInit ==
    /\ CorpusInit
    /\ audit = "idle" /\ purpose = "report" /\ report = NoReport /\ audits = 0
    /\ runs = {} /\ decided = [d \in Decisions |-> NoRun] /\ listing = {}

Rest == UNCHANGED <<corpusVars, audits, runs, decided>>
Going(next) == audit' = next /\ UNCHANGED <<purpose, report, listing>>

\* The call is answered, or refused: it keeps nothing.
Done == audit' = "idle" /\ purpose' = "report" /\ report' = NoReport /\ listing' = {}

-----------------------------------------------------------------------------
(* The audit                                                               *)

StartAudit(what) ==
    /\ audit = "idle" /\ audits < MaxAudits
    /\ audit' = "state" /\ purpose' = what /\ audits' = audits + 1
    /\ UNCHANGED <<corpusVars, report, listing, runs, decided>>

\* A source that is closed but may still be read is found, and objected to later.
ReadBoundary ==
    /\ audit = "state"
    /\ \/ release = NoRelease /\ Done
       \/ release # NoRelease /\ Visible # SourcesOf[release] /\ Done
       \/ /\ release # NoRelease
          /\ report' = [NoReport EXCEPT !.release = release, !.revision = revision]
          /\ audit' = "revisions" /\ UNCHANGED <<purpose, listing>>
    /\ Rest

\* A query for the publication of the report finds it only while it is active.
StillActive == release = report.release

ReadRevisions ==
    /\ audit = "revisions"
    /\ report' = [report EXCEPT !.rows = IF StillActive THEN Visible ELSE {}]
    /\ audit' = "entities" /\ UNCHANGED <<purpose, listing>>
    /\ Rest

\* With a source that may not be read there are no entities either.
ReadEntities ==
    /\ audit = "entities"
    /\ \E open \in {Visible = SourcesOf[report.release], TRUE} :
          report' = [report EXCEPT !.entities = StillActive /\ open]
    /\ audit' = "told" /\ UNCHANGED <<purpose, listing>>
    /\ Rest

\* The issues it raises: of the rows it read, and of the entities if any.
Objections(r) ==
    Flaws[r.release] \cap ({"revisions"} \cup (IF r.entities THEN {"entities"} ELSE {}))

\* No rule objects: the revisions are those of the manifest, each with its
\* source, and neither they nor the entities that were found are flawed.
Passed(r) ==
    /\ r.release # NoRelease
    /\ r.rows = SourcesOf[r.release] /\ Objections(r) = {}

HandOut ==
    /\ audit = "told" /\ purpose = "report"
    /\ Done /\ Rest

-----------------------------------------------------------------------------
(* Its history                                                             *)

\* Mutant: the revision of the corpus is not compared.
SamePublication == release = report.release

\* Under the locks of activation and of the corpus, what was audited is what
\* is active.
Audited == release = report.release /\ revision = report.revision

\* The run is identified by its content: a second recording finds the first.
RecordRun ==
    /\ audit = "told" /\ purpose = "record"
    /\ \/ Audited /\ runs' = runs \cup {report}
       \/ ~Audited /\ UNCHANGED runs
       \* the principal may not read all of it now
       \/ Visible # SourcesOf[report.release] /\ UNCHANGED runs
    /\ Done /\ UNCHANGED <<corpusVars, audits, decided>>

\* A decision on an issue of a recorded run, or its repetition.
Decide(d, run) ==
    /\ run \in runs
    /\ decided[d] = NoRun /\ run.release = release /\ run.revision = revision
    /\ decided' = [decided EXCEPT ![d] = run]
    /\ UNCHANGED <<corpusVars, audit, purpose, report, audits, runs, listing>>

-----------------------------------------------------------------------------
(* The inventory                                                           *)

BeginInventory ==
    /\ audit = "told" /\ purpose = "inventory"
    /\ IF Passed(report) THEN Going("manifest") ELSE Done
    /\ Rest

ReadManifest ==
    /\ audit = "manifest"
    /\ IF StillActive /\ Cardinality(report.rows) = Cardinality(SourcesOf[release])
       THEN Going("items") ELSE Done
    /\ Rest

\* Every item of the manifest is found, with its source.
Complete(found) == found = SourcesOf[report.release]

ReadItems ==
    /\ audit = "items"
    /\ LET found == IF StillActive THEN Visible ELSE {}
       IN  IF Complete(found)
           THEN listing' = found /\ audit' = "properties" /\ UNCHANGED <<purpose, report>>
           ELSE Done
    /\ Rest

\* The materialized values of relationship properties; some item is an assertion.
ReadProperties ==
    /\ audit = "properties"
    /\ IF StillActive THEN Going("listed") ELSE Done
    /\ Rest

HandOutInventory ==
    /\ audit = "listed"
    /\ Done /\ Rest

-----------------------------------------------------------------------------

Auditor ==
    \/ \E what \in {"report", "record", "inventory"} : StartAudit(what)
    \/ ReadBoundary \/ ReadRevisions \/ ReadEntities \/ HandOut
    \/ RecordRun \/ \E d \in Decisions, run \in runs : Decide(d, run)
    \/ BeginInventory \/ ReadManifest \/ ReadItems \/ ReadProperties \/ HandOutInventory

AuditNext ==
    \/ CorpusMoves /\ UNCHANGED <<audit, purpose, report, audits, runs, decided, listing>>
    \/ Auditor

AuditSpec == AuditInit /\ [][AuditNext]_auditVars

-----------------------------------------------------------------------------

\* The report a call holds when it is done with the audit.
ReportDone == audit \in {"told", "manifest", "items", "properties", "listed"}

(* What rests on an audit that passed holds when it is written down: the   *)
(* publication is active and all of its sources are open, whatever changed *)
(* between the queries of the audit and after them.  The same is true of   *)
(* the items of an inventory when they are read; of no items it is not     *)
(* known, as a query of an inactive publication finds none either.         *)
PassedStillHolds ==
    [][/\ \A r \in runs' \ runs : Passed(r) =>
            release = r.release /\ Visible = SourcesOf[r.release]
       /\ (audit = "items" /\ audit' = "properties") =>
            /\ listing' = SourcesOf[report.release]
            /\ listing' # {} => release = report.release /\ listing' = Visible]_auditVars

(* An audit that passed has looked at the whole of its publication, its    *)
(* entities included (the docstring of Neo4jPublishedGraphQualityService). *)
PassedSawAll == ReportDone /\ Passed(report) => report.entities
=============================================================================
