---------------------------- MODULE Preparation ----------------------------
(***************************************************************************)
(* The preparation of an upload (ingestion/pipeline.py): a leased job of   *)
(* its own derives the artifacts of every chunk, an extraction and an      *)
(* embedding, and hands them to ingest().  An artifact is cached under the *)
(* digest of the content it was derived from, so that uploads with the     *)
(* same text share it, across documents, and it goes when the deletion of  *)
(* a document leaves it without a task that used it.                       *)
(*                                                                         *)
(* An action is one transaction, or one read.  The provider is called      *)
(* between two of them and may answer differently each time.  What         *)
(* ingest(), retire() and delete_document() do to a document is one step   *)
(* here, as SourceRegister has it and IngestionRefinement shows.           *)
(***************************************************************************)
EXTENDS JobLease, Sequences

CONSTANTS
    Documents,
    NoSnapshot,     \* no ACTIVE_SNAPSHOT pointer
    DocumentOf,     \* request.document_id of a preparation job
    TextsOf,        \* the texts of its chunks, which its snapshot consists of
    Outputs,        \* what the provider may answer for a kind of artifact
    MaxGeneration   \* bound: the generations of a document that are explored

Kinds == <<"EXTRACTION", "EMBEDDING">>
Texts == UNION {{TextsOf[j][i] : i \in DOMAIN TextsOf[j]} : j \in Jobs}
Keys  == {Kinds[k] : k \in DOMAIN Kinds} \X Texts
Payloads == UNION {Outputs[Kinds[k]] : k \in DOMAIN Kinds}
NoPayload == "missing"

ASSUME PreparationAssumption ==
    /\ DocumentOf \in [Jobs -> Documents]
    /\ TextsOf \in [Jobs -> Seq(Texts) \ {<<>>}]
    /\ DOMAIN Outputs = {Kinds[k] : k \in DOMAIN Kinds}
    /\ NoPayload \notin Payloads
    /\ NoSnapshot \notin {TextsOf[j] : j \in Jobs}
    /\ MaxGeneration \in Nat

VARIABLES
    gen,       \* coalesce(document.generation, tombstone.generation, 0)
    active,    \* the snapshot a document shows
    stored,    \* the vectors of the snapshots that were published and not deleted
    plan,      \* what a job was registered with
    task,      \* the status of each task of a job
    upsert,    \* the UPSERT job inside ingest(), by the outcome it promises
    artifact,  \* the payload of each DerivationArtifact
    uses,      \* USED_ARTIFACT of the tasks
    at,        \* where the call of each worker is
    got,       \* the payloads the call has, in the order of its chunks
    asked      \* the job a call is about to claim

sourceVars == <<gen, active, stored>>
workVars   == <<plan, task, upsert>>
cacheVars  == <<artifact, uses>>
callVars   == <<at, got, asked>>
preparationVars == <<leaseVars, sourceVars, workVars, cacheVars, callVars>>

Chunks(j) == DOMAIN TextsOf[j]
TaskStatus == {"PENDING", "RUNNING", "DERIVED", "RETRY_WAIT"}

PreparationInit ==
    /\ LeaseInit
    /\ gen = [d \in Documents |-> 0]
    /\ active = [d \in Documents |-> NoSnapshot]
    /\ stored = [d \in Documents |-> {}]
    /\ plan = [j \in Jobs |-> [gen |-> 0, expected |-> NoSnapshot]]
    /\ task = [j \in Jobs |-> [i \in Chunks(j) |-> "ABSENT"]]
    /\ upsert = [j \in Jobs |-> "ABSENT"]
    /\ artifact = [k \in Keys |-> NoPayload]
    /\ uses = {}
    /\ at = [w \in Workers |-> "idle"]
    /\ got = [w \in Workers |-> <<>>]
    /\ asked = [w \in Workers |-> NoJob]

-----------------------------------------------------------------------------
(***************************************************************************)
(* The call and its place in the loop over chunks and kinds.               *)
(***************************************************************************)

At(w, place)   == at[w] = place
GoTo(w, place) == at' = [at EXCEPT ![w] = place]

\* The artifacts of a job in the order of the loop, and the chunk of each.
ChunkAt(n)  == ((n - 1) \div Len(Kinds)) + 1
KeyAt(j, n) == <<Kinds[((n - 1) % Len(Kinds)) + 1], TextsOf[j][ChunkAt(n)]>>
KeysOf(j)   == {KeyAt(j, n) : n \in 1..(Len(Kinds) * Len(TextsOf[j]))}

Wanted(w) == KeyAt(JobOf(w), Len(got[w]) + 1)
Taken(w)  == KeyAt(JobOf(w), Len(got[w]))
Last(w)   == ChunkAt(Len(got[w]))
Chunk(w)  == ChunkAt(Len(got[w]) + 1)

\* Where the loop goes when n artifacts are there.
After(n) == IF n % Len(Kinds) = 0 THEN "complete" ELSE "read"

\* The task an error is put on: that of the chunk the loop was at.
Current(w) == IF Chunk(w) \in Chunks(JobOf(w)) THEN Chunk(w) ELSE Last(w)

Fresh(j) == gen[DocumentOf[j]] = plan[j].gen

\* The lease, the generation of the source and the task are checked, under the
\* lock of the corpus, by every transaction of the loop.
InTime(w, i) ==
    /\ OwnsJob(w)
    /\ Fresh(JobOf(w))
    /\ task[JobOf(w)][i] # "ABSENT"

\* An exception.  A lost lease is retryable, a conflict is not.
Fail(w, retryable) == GoTo(w, IF retryable THEN "failing" ELSE "refused")

Refused(w, i) ==
    /\ ~InTime(w, i)
    /\ Fail(w, ~OwnsJob(w))
    /\ UNCHANGED <<leaseVars, sourceVars, workVars, cacheVars, got, asked>>

\* The payload joins those the call has, and the loop goes on.
Take(w, payload) ==
    /\ got' = [got EXCEPT ![w] = Append(@, payload)]
    /\ GoTo(w, After(Len(got[w]) + 1))

-----------------------------------------------------------------------------

(* The job and its tasks are created, or found, while the source is of the *)
(* generation the request was made for.                                    *)
EnsurePreparation(w, j, p) ==
    /\ At(w, "idle")
    /\ p.gen = gen[DocumentOf[j]]
    /\ \/ /\ RegisterJob(j)
          /\ plan' = [plan EXCEPT ![j] = p]
       \/ /\ status[j] # "ABSENT" /\ plan[j] = p
          /\ UNCHANGED <<leaseVars, plan>>
    /\ task' = [task EXCEPT ![j] =
                   [i \in Chunks(j) |-> IF @[i] = "ABSENT" THEN "PENDING" ELSE @[i]]]
    /\ GoTo(w, "claim") /\ asked' = [asked EXCEPT ![w] = j]
    /\ UNCHANGED <<sourceVars, upsert, cacheVars, got>>

ClaimPreparation(w) ==
    /\ At(w, "claim")
    /\ ClaimJob(w, asked[w])
    /\ GoTo(w, "start")
    /\ UNCHANGED <<sourceVars, workVars, cacheVars, got, asked>>

\* The budget is spent, now or before, or somebody else has the lease.
ClaimRefused(w) ==
    /\ At(w, "claim")
    /\ \/ ExhaustJob(asked[w])
       \/ /\ status[asked[w]] = "FAILED_PERMANENT" \/ live[asked[w]]
          /\ UNCHANGED leaseVars
    /\ GoTo(w, "raised")
    /\ UNCHANGED <<sourceVars, workVars, cacheVars, got, asked>>

StartTask(w) ==
    LET j == JobOf(w)  i == Chunk(w)
    IN  /\ At(w, "start")
        /\ \/ Refused(w, i)
           \/ /\ InTime(w, i)
              /\ task' = [task EXCEPT ![j][i] = IF @ = "DERIVED" THEN @ ELSE "RUNNING"]
              /\ GoTo(w, "read")
              /\ UNCHANGED <<leaseVars, sourceVars, plan, upsert, cacheVars, got, asked>>

\* A cached payload is remembered and linked in the next transaction.
ReadArtifact(w) ==
    /\ At(w, "read")
    /\ IF artifact[Wanted(w)] = NoPayload
       THEN GoTo(w, "derive") /\ UNCHANGED got
       ELSE /\ GoTo(w, "link")
            /\ got' = [got EXCEPT ![w] = Append(@, artifact[Wanted(w)])]
    /\ UNCHANGED <<leaseVars, sourceVars, workVars, cacheVars, asked>>

ProviderFails(w) ==
    /\ At(w, "derive")
    /\ \E retryable \in BOOLEAN : Fail(w, retryable)
    /\ UNCHANGED <<leaseVars, sourceVars, workVars, cacheVars, got, asked>>

\* The provider answered; the first answer that is written stays.
PersistArtifact(w) ==
    /\ At(w, "derive")
    /\ \/ Refused(w, Chunk(w))
       \/ \E out \in Outputs[Wanted(w)[1]] :
             /\ InTime(w, Chunk(w))
             /\ IF artifact[Wanted(w)] \in {NoPayload, out}
                THEN /\ artifact' = [artifact EXCEPT ![Wanted(w)] = out]
                     /\ uses' = uses \cup {<<JobOf(w), Wanted(w)>>}
                     /\ Take(w, out)
                ELSE Fail(w, FALSE) /\ UNCHANGED <<cacheVars, got>>
             /\ UNCHANGED <<leaseVars, sourceVars, workVars, asked>>

Linked(w)      == uses' = uses \cup {<<JobOf(w), Taken(w)>>}

\* Whatever is cached under the key now is linked, or nothing is there.
LinkArtifact(w) ==
    /\ At(w, "link")
    /\ \/ Refused(w, Last(w))
       \/ /\ InTime(w, Last(w))
          /\ IF artifact[Taken(w)] # NoPayload
             THEN Linked(w) /\ GoTo(w, After(Len(got[w])))
             ELSE Fail(w, FALSE) /\ UNCHANGED uses
          /\ UNCHANGED <<leaseVars, sourceVars, workVars, artifact, got, asked>>

CompleteTask(w) ==
    LET j == JobOf(w)  i == Last(w)
    IN  /\ At(w, "complete")
        /\ \/ Refused(w, i)
           \/ /\ InTime(w, i)
              /\ task' = [task EXCEPT ![j][i] = "DERIVED"]
              /\ GoTo(w, IF Chunk(w) \in Chunks(j) THEN "start" ELSE "ingest")
              /\ UNCHANGED <<leaseVars, sourceVars, plan, upsert, cacheVars, got, asked>>

-----------------------------------------------------------------------------
(***************************************************************************)
(* The hand-over to ingest() and the end of the call.                      *)
(***************************************************************************)

\* The staging compares every payload with what is cached, and writes it if
\* nothing is.
Compatible(w) ==
    \A n \in DOMAIN got[w] : artifact[KeyAt(JobOf(w), n)] \in {NoPayload, got[w][n]}

Positions(w, kind) == {n \in DOMAIN got[w] : KeyAt(JobOf(w), n)[1] = kind}
Vectors(w) == {<<KeyAt(JobOf(w), n)[2], got[w][n]>> : n \in Positions(w, "EMBEDDING")}

(* ingest() for this plan.  A repetition of one that succeeded answers the *)
(* same.  Otherwise the source must be what the plan was made for, and its *)
(* artifacts what is cached.                                               *)
Ingest(w) ==
    LET j == JobOf(w)  d == DocumentOf[j]
        switch == Fresh(j) /\ active[d] = plan[j].expected
        touch  == Fresh(j) /\ active[d] = TextsOf[j]
    IN  /\ At(w, "ingest")
        /\ \/ /\ upsert[j] = "SUCCEEDED"
              /\ GoTo(w, "finish")
              /\ UNCHANGED <<active, stored, upsert, cacheVars>>
           \/ /\ upsert[j] \in {"ABSENT", "OPEN"} /\ touch
              /\ upsert' = [upsert EXCEPT ![j] = "SUCCEEDED"]
              /\ GoTo(w, "finish")
              /\ UNCHANGED <<active, stored, cacheVars>>
           \/ /\ upsert[j] \in {"ABSENT", "OPEN"} /\ ~touch /\ switch /\ Compatible(w)
              /\ upsert' = [upsert EXCEPT ![j] = "SUCCEEDED"]
              /\ active' = [active EXCEPT ![d] = TextsOf[j]]
              /\ stored' = [stored EXCEPT ![d] = @ \cup Vectors(w)]
              /\ artifact' = [k \in Keys |->
                    IF artifact[k] = NoPayload /\ k \in KeysOf(j)
                    THEN got[w][CHOOSE n \in DOMAIN got[w] : KeyAt(j, n) = k]
                    ELSE artifact[k]]
              /\ uses' = uses \cup {<<j, k>> : k \in KeysOf(j)}
              /\ GoTo(w, "finish")
           \/ /\ \/ upsert[j] = "FAILED"
                 \/ ~touch /\ ~(switch /\ Compatible(w)) /\ upsert[j] # "SUCCEEDED"
              /\ upsert' = [upsert EXCEPT ![j] = "FAILED"]
              /\ Fail(w, FALSE)
              /\ UNCHANGED <<active, stored, cacheVars>>
        /\ UNCHANGED <<leaseVars, gen, plan, task, got, asked>>

\* ingest() raises something that may be tried again, before its effect.
IngestInterrupted(w) ==
    /\ At(w, "ingest")
    /\ upsert[JobOf(w)] \in {"ABSENT", "OPEN"}
    /\ upsert' = [upsert EXCEPT ![JobOf(w)] = "OPEN"]
    /\ Fail(w, TRUE)
    /\ UNCHANGED <<leaseVars, sourceVars, plan, task, cacheVars, got, asked>>

FinishPreparation(w) ==
    /\ At(w, "finish")
    /\ \/ /\ FinishJob(w, "SUCCEEDED")
          /\ GoTo(w, "returned")
       \/ /\ ~OwnsJob(w) /\ Fail(w, TRUE)
          /\ UNCHANGED leaseVars
    /\ UNCHANGED <<sourceVars, workVars, cacheVars, got, asked>>

\* The call of a job that was finished before reads the artifacts and repeats
\* ingest(), without a lease.
ReplayPreparation(w) ==
    LET j == asked[w]
    IN  /\ At(w, "claim")
        /\ status[j] = "SUCCEEDED"
        /\ GoTo(w, IF upsert[j] = "SUCCEEDED" /\ \A k \in KeysOf(j) : artifact[k] # NoPayload
                   THEN "returned" ELSE "raised")
        /\ UNCHANGED <<leaseVars, sourceVars, workVars, cacheVars, got, asked>>

\* The except branch: first the task, then the job, in two transactions that
\* change nothing for a worker whose run is over.
MarkTaskFailed(w) ==
    LET j == JobOf(w)
    IN  /\ at[w] \in {"failing", "refused"}
        /\ task' = [task EXCEPT ![j][Current(w)] =
                IF status[j] = "RUNNING" /\ token[j] = held[w].token /\ @ # "ABSENT"
                THEN "RETRY_WAIT" ELSE @]
        /\ GoTo(w, IF At(w, "failing") THEN "report" ELSE "reject")
        /\ UNCHANGED <<leaseVars, sourceVars, plan, upsert, cacheVars, got, asked>>

ReportFailure(w) ==
    /\ at[w] \in {"report", "reject"}
    /\ RecordFailure(w, At(w, "report"))
    /\ GoTo(w, "raised")
    /\ UNCHANGED <<sourceVars, workVars, cacheVars, got, asked>>

Forget(w) ==
    /\ GoTo(w, "idle")
    /\ got' = [got EXCEPT ![w] = <<>>]
    /\ asked' = [asked EXCEPT ![w] = NoJob]

\* The caller has its answer.
Leave(w) ==
    /\ at[w] \in {"returned", "raised"}
    /\ Forget(w)
    /\ UNCHANGED <<leaseVars, sourceVars, workVars, cacheVars>>

CrashPreparation(w) ==
    /\ at[w] \notin {"idle", "returned", "raised"}
    /\ \/ CrashWorker(w)
       \/ ~Busy(w) /\ UNCHANGED leaseVars
    /\ Forget(w)
    /\ UNCHANGED <<sourceVars, workVars, cacheVars>>

-----------------------------------------------------------------------------
(***************************************************************************)
(* Deletion and retirement of a document.                                  *)
(***************************************************************************)

JobsOf(d) == {j \in Jobs : DocumentOf[j] = d}

\* Mutant: an artifact goes with the document it was derived for.
CollectedWithDocument(d, left) ==
    [k \in Keys |-> IF \E j \in JobsOf(d) : <<j, k>> \in uses THEN NoPayload ELSE artifact[k]]

\* No task uses it any more.
Collected(d, left) ==
    [k \in Keys |-> IF \E j \in Jobs : <<j, k>> \in left THEN artifact[k] ELSE NoPayload]

DeleteSource(d) ==
    LET left == {u \in uses : u[1] \notin JobsOf(d)}
    IN  /\ gen[d] < MaxGeneration
        /\ \/ active[d] # NoSnapshot \/ stored[d] # {}
           \/ \E j \in JobsOf(d) :
                 \/ \E i \in Chunks(j) : task[j][i] # "ABSENT"
                 \/ status[j] \in Pending /\ Fresh(j)
        /\ gen' = [gen EXCEPT ![d] = @ + 1]
        /\ active' = [active EXCEPT ![d] = NoSnapshot]
        /\ stored' = [stored EXCEPT ![d] = {}]
        /\ task' = [j \in Jobs |-> IF j \in JobsOf(d)
                                   THEN [i \in Chunks(j) |-> "ABSENT"] ELSE task[j]]
        /\ uses' = left
        /\ artifact' = Collected(d, left)
        /\ UNCHANGED <<leaseVars, plan, upsert, callVars>>

\* Only a document without open uploads of its generation; what it consists of stays.
RetireSource(d) ==
    /\ gen[d] < MaxGeneration
    /\ active[d] # NoSnapshot
    /\ \A j \in JobsOf(d) : Fresh(j) => status[j] \notin Pending /\ upsert[j] # "OPEN"
    /\ gen' = [gen EXCEPT ![d] = @ + 1]
    /\ active' = [active EXCEPT ![d] = NoSnapshot]
    /\ UNCHANGED <<leaseVars, stored, workVars, cacheVars, callVars>>

\* What a call does between EnsurePreparation and its answer.
Prepare(w) ==
    \/ ClaimPreparation(w) \/ ClaimRefused(w) \/ ReplayPreparation(w)
    \/ StartTask(w) \/ ReadArtifact(w) \/ ProviderFails(w) \/ PersistArtifact(w)
    \/ LinkArtifact(w) \/ CompleteTask(w)
    \/ Ingest(w) \/ IngestInterrupted(w) \/ FinishPreparation(w)
    \/ MarkTaskFailed(w) \/ ReportFailure(w)

Expire(j) == LapseLease(j) /\ UNCHANGED <<sourceVars, workVars, cacheVars, callVars>>

-----------------------------------------------------------------------------

(* What is stored for a text was derived for it once: the vectors of all   *)
(* snapshots agree with each other and with the cache, whichever uploads   *)
(* derived, shared, lost or re-derived them (_read_artifact, _link_        *)
(* artifact_tx, and the garbage collection of _delete_document_tx).        *)
OneVectorPerText ==
    \A d \in Documents : \A v \in stored[d] : artifact[<<"EMBEDDING", v[1]>>] = v[2]

=============================================================================
