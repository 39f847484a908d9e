---------------------------- MODULE Construction ----------------------------
(***************************************************************************)
(* The governed construction of knowledge from an upload                   *)
(* (construction/workflow.py) over its preparation (Preparation).  A       *)
(* durable job captures the state of the source once, has it prepared and  *)
(* published, and then takes every chunk through the model, the audit of   *)
(* its answers, the records and an outcome.  Any step may be the last one  *)
(* of its call, and several calls may run the same job: what one of them   *)
(* left behind is found, checked and completed by the next.                *)
(*                                                                         *)
(* The answers to a chunk are told apart by the run that asked (a uuid4 in *)
(* the code, a number here) and by whether they could be used.  The chunks *)
(* of a call are worked at concurrently, as by its thread pool.            *)
(***************************************************************************)
EXTENDS Preparation, FiniteSets

CONSTANTS
    Constructions,      \* the jobs that are constructions; the others are bare uploads
    Mode,               \* FEEDBACK: up to two audited answers; SINGLE; SOURCE_ONLY: none
    MaxRuns             \* bound: the validation runs that are explored

ASSUME ConstructionAssumption ==
    /\ Constructions \subseteq Jobs
    /\ Mode \in [Constructions -> {"FEEDBACK", "SINGLE", "SOURCE_ONLY"}]
    /\ MaxRuns \in Nat

MaxTries(j) == IF Mode[j] = "FEEDBACK" THEN 2 ELSE 1

\* The chunks of all constructions.
Pieces == UNION {{<<j, i>> : i \in Chunks(j)} : j \in Constructions}

VARIABLES
    job,       \* KnowledgeConstructionJob.status
    captured,  \* the state of the source it was created with
    answers,   \* the VALIDATION_ATTEMPT artifacts
    final,     \* the audit artifact of a chunk, if there is one
    records,   \* the runs whose batches of records were persisted
    outcome,   \* the outcome of a chunk: the audit it names, if there is one
    lastRun,   \* the number of validation runs so far
    collected, \* history: the chunks that a deletion took audits or answers of
    phase,     \* where the call of each worker is
    doing,     \* the construction it is about
    observed,  \* what observe_document() returned to it
    thread     \* its work on each chunk

auditVars == <<job, captured, answers, final, records, outcome, lastRun, collected>>
runVars   == <<phase, doing, observed, thread>>
vars == <<preparationVars, auditVars, runVars>>

Audit(run, recovered, usable) == [run |-> run, recovered |-> recovered, usable |-> usable]
NoPlan == [gen |-> 0, expected |-> NoSnapshot]
NewThread == [at |-> "waiting", run |-> 0, tries |-> 0, audit |-> {}, done |-> {}]

Init ==
    /\ PreparationInit
    /\ job = [j \in Constructions |-> "ABSENT"]
    /\ captured = [j \in Constructions |-> NoPlan]
    /\ answers = {}
    /\ final = [c \in Pieces |-> {}]
    /\ records = [c \in Pieces |-> {}]
    /\ outcome = [c \in Pieces |-> {}]
    /\ lastRun = 0
    /\ collected = {}
    /\ phase = [w \in Workers |-> "idle"]
    /\ doing = [w \in Workers |-> NoJob]
    /\ observed = [w \in Workers |-> NoPlan]
    /\ thread = [w \in Workers |-> <<>>]

-----------------------------------------------------------------------------

In(w, p)    == phase[w] = p
Enter(w, p) == phase' = [phase EXCEPT ![w] = p]

\* The call returns or raises, and forgets everything.
Done(w) ==
    /\ Enter(w, "idle")
    /\ doing' = [doing EXCEPT ![w] = NoJob]
    /\ observed' = [observed EXCEPT ![w] = NoPlan]
    /\ thread' = [thread EXCEPT ![w] = <<>>]

Observe(w, j) ==
    /\ In(w, "idle") /\ At(w, "idle")
    /\ observed' = [observed EXCEPT ![w] =
                       [gen |-> gen[DocumentOf[j]], expected |-> active[DocumentOf[j]]]]
    /\ doing' = [doing EXCEPT ![w] = j]
    /\ Enter(w, "observed")
    /\ UNCHANGED <<preparationVars, auditVars, thread>>

(* What was observed is captured by the first call and kept for all.       *)
EnsureJob(w) ==
    LET j == doing[w]
    IN  /\ In(w, "observed")
        /\ captured' = IF job[j] = "ABSENT" THEN [captured EXCEPT ![j] = observed[w]]
                                            ELSE captured
        /\ job' = [job EXCEPT ![j] = IF @ \in {"ABSENT", "RETRY_WAIT"} THEN "RUNNING" ELSE @]
        /\ observed' = [observed EXCEPT ![w] = NoPlan]
        /\ Enter(w, "ensured")
        /\ UNCHANGED <<preparationVars, answers, final, records, outcome, lastRun, collected,
                       doing, thread>>

CallPreparation(w) ==
    /\ In(w, "ensured")
    /\ \/ /\ EnsurePreparation(w, doing[w], captured[doing[w]])
          /\ Enter(w, "preparing")
       \/ /\ captured[doing[w]].gen # gen[DocumentOf[doing[w]]]
          /\ Enter(w, "sync")
          /\ UNCHANGED preparationVars
    /\ UNCHANGED <<auditVars, doing, observed, thread>>

StepPreparation(w) ==
    /\ phase[w] \in {"preparing", "upload"}
    /\ Prepare(w)
    /\ UNCHANGED <<auditVars, runVars>>

LeavePreparation(w) ==
    /\ In(w, "preparing")
    /\ Leave(w)
    /\ IF At(w, "returned")
       THEN /\ Enter(w, "chunks")
            /\ thread' = [thread EXCEPT ![w] = [i \in Chunks(doing[w]) |-> NewThread]]
       ELSE Enter(w, "sync") /\ UNCHANGED thread
    /\ UNCHANGED <<auditVars, doing, observed>>

\* The status of the job as its preparation has it, without undoing success.
Synced(j) ==
    IF job[j] = "COMPLETED" THEN "COMPLETED"
    ELSE CASE status[j] = "FAILED_PERMANENT" -> "FAILED"
           [] status[j] = "RETRY_WAIT"       -> "RETRY_WAIT"
           [] OTHER                          -> job[j]

SyncFailure(w) ==
    /\ In(w, "sync")
    /\ job' = [job EXCEPT ![doing[w]] = Synced(doing[w])]
    /\ Done(w)
    /\ UNCHANGED <<preparationVars, captured, answers, final, records, outcome, lastRun,
                   collected>>

-----------------------------------------------------------------------------
(***************************************************************************)
(* One chunk: _process_chunk and _process_source_chunk.                    *)
(***************************************************************************)

Piece(w, i) == <<doing[w], i>>
Thread(w, i, place) == In(w, "chunks") /\ i \in DOMAIN thread[w] /\ thread[w][i].at = place
Stopped(w) == \E i \in DOMAIN thread[w] : thread[w][i].at = "failed"

Go(w, i, place) == thread' = [thread EXCEPT ![w][i].at = place]
GoWith(w, i, place, audit) ==
    thread' = [thread EXCEPT ![w][i].at = place, ![w][i].audit = {audit}]

\* A call to the model is reserved, unless a chunk of this call has failed.
Ask(w, i, run, tries) ==
    thread' = [thread EXCEPT ![w][i].at = IF Stopped(w) THEN "failed" ELSE "asking",
                             ![w][i].run = run, ![w][i].tries = tries]

StillStored(j) ==
    \A i \in Chunks(j) : \E v \in stored[DocumentOf[j]] : v[1] = TextsOf[j][i]

\* An outcome counts with its chunk and with the audit it names.
Readable(c) == IF StillStored(c[1]) THEN outcome[c] \cap final[c] ELSE {}

ReadOutcome(w, i) ==
    LET c == Piece(w, i)
    IN  /\ Thread(w, i, "waiting")
        /\ ~Stopped(w)
        /\ Mode[c[1]] = "SOURCE_ONLY" => \A k \in 1..(i - 1) : thread[w][k].at = "done"
        /\ thread' = [thread EXCEPT
                ![w][i].at = IF Readable(c) # {} /\ Mode[c[1]] # "FEEDBACK"
                             THEN "done" ELSE "final",
                ![w][i].done = Readable(c)]
        /\ UNCHANGED <<preparationVars, auditVars, phase, doing, observed>>

\* The deadline is behind the call before it starts, or asks for, a chunk.
MissDeadline(w, i) ==
    /\ Thread(w, i, "waiting") \/ Thread(w, i, "asking")
    /\ Go(w, i, "failed")
    /\ UNCHANGED <<preparationVars, auditVars, phase, doing, observed>>

SourceAudit == Audit(0, FALSE, FALSE)

ReadFinal(w, i) ==
    LET c == Piece(w, i)  mode == Mode[c[1]]
    IN  /\ Thread(w, i, "final")
        /\ \/ \E a \in final[c] : GoWith(w, i, "check", a)
           \/ final[c] = {} /\ thread[w][i].done # {} /\ Go(w, i, "failed")
           \/ /\ final[c] = {} /\ thread[w][i].done = {}
              /\ \/ mode = "SOURCE_ONLY" /\ GoWith(w, i, "save", SourceAudit)
                 \/ mode = "SINGLE" /\ Ask(w, i, 0, 0)
                 \/ mode = "FEEDBACK" /\ Go(w, i, "recover")
        /\ UNCHANGED <<preparationVars, auditVars, phase, doing, observed>>

AnswersOf(c) == {a \in answers : a.chunk = c}

\* The last answers of the runs that came to an end.
EndOfRun(c) ==
    {a \in AnswersOf(c) : a.said = "USABLE" \/ (a.said = "REJECTED" /\ a.n = MaxTries(c[1]))}

(* The answers an interrupted run left: one complete run is used, none     *)
(* leads to a new one, and what cannot be decided fails.                   *)
Recovered(w, i) ==
    LET ends == EndOfRun(Piece(w, i))
    IN  IF (\E a \in AnswersOf(Piece(w, i)) : a.said = "OVERSIZED") \/ Cardinality(ends) > 1
        THEN Go(w, i, "failed")
        ELSE IF ends = {} THEN Ask(w, i, 0, 0)
             ELSE \E a \in ends : GoWith(w, i, "save", Audit(a.run, TRUE, a.said = "USABLE"))

\* It is looked for while the source shows what the job prepared.
SourceIsCurrent(j) == active[DocumentOf[j]] = TextsOf[j]

Recover(w, i) ==
    /\ Thread(w, i, "recover")
    /\ IF SourceIsCurrent(doing[w]) THEN Recovered(w, i) ELSE Go(w, i, "failed")
    /\ UNCHANGED <<preparationVars, auditVars, phase, doing, observed>>

Said == {"USABLE", "REJECTED", "OVERSIZED", "PROVIDER_ERROR"}

(* The model answers.  With feedback the answer is retained before         *)
(* anything is done about it, and a rejected one is corrected once.        *)
Answer(w, i, said) ==
    LET c == Piece(w, i)
        mine  == thread[w][i]
        first == mine.run = 0
        run   == IF first THEN lastRun + 1 ELSE mine.run
        n     == mine.tries + 1
    IN  /\ Thread(w, i, "asking")
        /\ first => lastRun < MaxRuns
        /\ lastRun' = IF first THEN run ELSE lastRun
        /\ answers' = IF Mode[c[1]] = "FEEDBACK"
                      THEN answers \cup {[chunk |-> c, run |-> run, n |-> n, said |-> said]}
                      ELSE answers
        /\ CASE said = "PROVIDER_ERROR" -> Go(w, i, "report")
             [] said = "REJECTED" /\ n < MaxTries(c[1]) -> Ask(w, i, run, n)
             [] OTHER -> GoWith(w, i, "save", Audit(run, FALSE, said = "USABLE"))
        /\ UNCHANGED <<preparationVars, job, captured, final, records, outcome, collected,
                       phase, doing, observed>>

AfterFailure(j) == IF job[j] = "COMPLETED" THEN "COMPLETED" ELSE "RETRY_WAIT"

RecordRetryableFailure(w, i) ==
    /\ Thread(w, i, "report")
    /\ job' = [job EXCEPT ![doing[w]] = AfterFailure(doing[w])]
    /\ Go(w, i, "failed")
    /\ UNCHANGED <<preparationVars, captured, answers, final, records, outcome, lastRun,
                   collected, phase, doing, observed>>

Agrees(old, new) == old \subseteq new

(* Whoever is first writes the audit; who comes with another one gives up. *)
PersistFinal(w, i) ==
    LET c == Piece(w, i)
    IN  /\ Thread(w, i, "save")
        /\ IF Agrees(final[c], thread[w][i].audit)
           THEN /\ final' = [final EXCEPT ![c] = thread[w][i].audit]
                /\ Go(w, i, "check")
           ELSE Go(w, i, "failed") /\ UNCHANGED final
        /\ UNCHANGED <<preparationVars, job, captured, answers, records, outcome, lastRun,
                       collected, phase, doing, observed>>

\* Mutant: what is to be persisted is taken as persisted.
NothingToPersist(c, audit) == TRUE
IsPersisted(c, audit) == audit.usable => audit.run \in records[c]

(* The answers the audit refers to are read again, then its records.  An   *)
(* outcome that was there before is only compared.                         *)
CheckAudit(w, i) ==
    LET c == Piece(w, i)
    IN  /\ Thread(w, i, "check")
        /\ \E a \in thread[w][i].audit :
              LET kept == Mode[c[1]] = "FEEDBACK" => \E b \in AnswersOf(c) : b.run = a.run
              IN  Go(w, i, CASE ~kept -> "failed"
                             [] kept /\ thread[w][i].done # {} ->
                                   IF thread[w][i].done = {a} THEN "done" ELSE "failed"
                             [] kept /\ thread[w][i].done = {} ->
                                   IF IsPersisted(c, a) THEN "outcome" ELSE "persist")
        /\ UNCHANGED <<preparationVars, auditVars, phase, doing, observed>>

PersistRecords(w, i) ==
    LET c == Piece(w, i)
    IN  /\ Thread(w, i, "persist")
        /\ records' = [records EXCEPT ![c] = @ \cup {a.run : a \in thread[w][i].audit}]
        /\ Go(w, i, "outcome")
        /\ UNCHANGED <<preparationVars, job, captured, answers, final, outcome, lastRun,
                       collected, phase, doing, observed>>

(* The chunk and the audit must be there; the outcome that is there first  *)
(* stays.                                                                  *)
PersistOutcome(w, i) ==
    LET c == Piece(w, i)  mine == thread[w][i].audit
    IN  /\ Thread(w, i, "outcome")
        /\ IF final[c] # {} /\ StillStored(c[1]) /\ outcome[c] \subseteq mine
           THEN outcome' = [outcome EXCEPT ![c] = mine] /\ Go(w, i, "done")
           ELSE UNCHANGED outcome /\ Go(w, i, "failed")
        /\ UNCHANGED <<preparationVars, job, captured, answers, final, records, lastRun,
                       collected, phase, doing, observed>>

Backed(c) == outcome[c] # {} /\ outcome[c] = final[c]

CompleteJob(w) ==
    LET j == doing[w]
    IN  /\ In(w, "chunks")
        /\ \A i \in DOMAIN thread[w] : thread[w][i].at = "done"
        /\ job' = [job EXCEPT ![j] =
                      IF \A i \in Chunks(j) : Backed(<<j, i>>) THEN "COMPLETED" ELSE @]
        /\ Done(w)
        /\ UNCHANGED <<preparationVars, captured, answers, final, records, outcome, lastRun,
                       collected>>

\* The first error is raised when nothing of this call is in flight any more.
RaiseFirst(w) ==
    /\ In(w, "chunks") /\ Stopped(w)
    /\ \A i \in DOMAIN thread[w] : thread[w][i].at \in {"waiting", "done", "failed"}
    /\ Done(w)
    /\ UNCHANGED <<preparationVars, auditVars>>

-----------------------------------------------------------------------------
(***************************************************************************)
(* Everything around a construction.                                       *)
(***************************************************************************)

\* The process dies, or an error ends the call between two steps.
Crash(w) ==
    /\ ~In(w, "idle")
    /\ IF phase[w] \in {"preparing", "upload"} THEN CrashPreparation(w)
                                               ELSE UNCHANGED preparationVars
    /\ Done(w)
    /\ UNCHANGED auditVars

Upload(w, j) ==
    /\ In(w, "idle")
    /\ j \notin Constructions
    /\ \E p \in {[gen |-> gen[DocumentOf[j]], expected |-> active[DocumentOf[j]]], plan[j]} :
          EnsurePreparation(w, j, p)
    /\ Enter(w, "upload")
    /\ UNCHANGED <<auditVars, doing, observed, thread>>

EndUpload(w) ==
    /\ In(w, "upload")
    /\ Leave(w) /\ Enter(w, "idle")
    /\ UNCHANGED <<auditVars, doing, observed, thread>>

ConstructionsOf(d) == Constructions \cap JobsOf(d)

Audited == {c \in Pieces : final[c] # {} \/ AnswersOf(c) # {}}

(* Physical deletion, refused for what a construction refers to.  It       *)
(* collects every artifact that no ingestion task uses, of whatever kind:  *)
(* the audits of all constructions of the tenant are among them.           *)
DeleteDocument(d) ==
    /\ \A j \in ConstructionsOf(d) : job[j] = "ABSENT"
    /\ DeleteSource(d)
    /\ answers' = {}
    /\ final' = [c \in Pieces |-> {}]
    /\ collected' = collected \cup Audited
    /\ UNCHANGED <<job, captured, records, outcome, lastRun, runVars>>

\* Mutant: constructions that are not finished are overlooked.
SettledAlways(d) == TRUE
Settled(d) == \A j \in ConstructionsOf(d) : job[j] \notin {"RUNNING", "RETRY_WAIT"}

RetireDocument(d) ==
    /\ Settled(d)
    /\ RetireSource(d)
    /\ UNCHANGED <<auditVars, runVars>>

LeaseLapses(j) == Expire(j) /\ UNCHANGED <<auditVars, runVars>>

Construct(w) ==
    \/ EnsureJob(w) \/ CallPreparation(w) \/ StepPreparation(w) \/ LeavePreparation(w)
    \/ SyncFailure(w) \/ CompleteJob(w) \/ RaiseFirst(w)
    \/ \E j \in Constructions : Observe(w, j)
    \/ \E i \in DOMAIN thread[w] :
          \/ ReadOutcome(w, i) \/ MissDeadline(w, i) \/ ReadFinal(w, i) \/ Recover(w, i)
          \/ \E said \in Said : Answer(w, i, said)
          \/ RecordRetryableFailure(w, i) \/ PersistFinal(w, i) \/ CheckAudit(w, i)
          \/ PersistRecords(w, i) \/ PersistOutcome(w, i)

Next ==
    \/ \E w \in Workers :
          Construct(w) \/ Crash(w) \/ EndUpload(w) \/ \E j \in Jobs : Upload(w, j)
    \/ \E d \in Documents : DeleteDocument(d) \/ RetireDocument(d)
    \/ \E j \in Jobs : LeaseLapses(j)

Spec == Init /\ [][Next]_vars

-----------------------------------------------------------------------------

\* A deletion elsewhere may take the audit of a chunk at any time (AuditsAreKept),
\* and what is audited again need not agree with what was written before.
Uncollected == Pieces \ collected

(* However many calls work at a chunk, crash and resume, its records come  *)
(* from one run of the model, the one its audit names, and so does its     *)
(* outcome (_process_chunk); as long as no deletion took the audit.        *)
OneBatchPerChunk ==
    \A c \in Uncollected :
        /\ records[c] \subseteq {a.run : a \in final[c]}
        /\ outcome[c] \subseteq final[c]

(* Each chunk of a COMPLETED job has one outcome, whatever was deleted.    *)
(* Behind it is its audit, behind that are the answers, and the records of *)
(* what could be used were written; as long as no deletion took the audit  *)
(* (complete_job, record_retryable_failure, sync).                         *)
CompletedIsBacked ==
    /\ OneBatchPerChunk
    /\ \A c \in Pieces : job[c[1]] = "COMPLETED" =>
           \E a \in outcome[c] :
               /\ outcome[c] = {a}
               /\ c \in Uncollected =>
                     /\ final[c] = {a}
                     /\ Mode[c[1]] = "FEEDBACK" => \E b \in AnswersOf(c) : b.run = a.run
                     /\ a.usable => a.run \in records[c]

(* Once the document was deleted or retired under a job, also between the  *)
(* observation and the creation of the job, nothing of the job appears any *)
(* more: no snapshot, no outcome, and no records, except that what was     *)
(* audited again after a deletion elsewhere took the audit of a finished   *)
(* chunk brings its own.                                                   *)
StaleJobIsInert ==
    [][\A j \in Constructions :
          job[j] # "ABSENT" /\ captured[j].gen # gen[DocumentOf[j]] =>
              /\ upsert[j] # "SUCCEEDED" => upsert'[j] # "SUCCEEDED"
              /\ \A c \in Pieces : c[1] = j =>
                    /\ outcome'[c] = outcome[c]
                    /\ c \in Uncollected => records'[c] = records[c]]_vars

(* The audits of a construction are append-only evidence                   *)
(* (ingestion/service.py, _delete_document_tx).                            *)
AuditsAreKept ==
    [][\A c \in Pieces : final[c] # {} => final'[c] = final[c]]_vars

=============================================================================
