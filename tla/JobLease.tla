------------------------------ MODULE JobLease ------------------------------
(***************************************************************************)
(* The durable IngestionJob node and its worker lease                      *)
(* (ingestion/service.py).  A job is registered once under its operation   *)
(* key, claimed by a worker that receives a fresh fencing token, and       *)
(* closed by the holder of that token.  A worker may crash, be slow, or    *)
(* lose its lease and go on without noticing.                              *)
(*                                                                         *)
(* A token is a uuid4 in the code; every claim writes a new one and also   *)
(* increments job.attempts, so the attempt number stands for it, with 0    *)
(* for the empty string.  lease_owner is written and compared together     *)
(* with the token and is left out.  The expiry time is abstracted to a     *)
(* flag that time clears: live[j] says lease_expires_at > now.             *)
(***************************************************************************)
EXTENDS Naturals

CONSTANTS
    Jobs,         \* the operations clients may submit, one per job_id
    Workers,      \* concurrent calls of Neo4jIngestionService
    MaxAttempts,  \* plan.max_attempts
    NoJob         \* the job of a worker that runs no call

ASSUME JobLeaseAssumption == MaxAttempts \in Nat \ {0} /\ NoJob \notin Jobs

VARIABLES
    status,    \* job.status, "ABSENT" before the MERGE of the job node
    attempts,  \* job.attempts
    token,     \* job.lease_token
    live,      \* job.lease_expires_at is in the future
    held       \* what each worker remembers of its claim: a job and a token

leaseVars == <<status, attempts, token, live, held>>

Pending  == {"QUEUED", "RUNNING", "RETRY_WAIT"}
Terminal == {"SUCCEEDED", "NOOP", "FAILED_PERMANENT"}
Finished == {"SUCCEEDED", "NOOP"}

NoClaim == [job |-> NoJob, token |-> 0]
JobOf(w) == held[w].job
Busy(w)  == JobOf(w) # NoJob

LeaseTypeOK ==
    /\ status \in [Jobs -> {"ABSENT"} \cup Pending \cup Terminal]
    /\ attempts \in [Jobs -> 0..MaxAttempts]
    /\ token \in [Jobs -> 0..MaxAttempts]
    /\ live \in [Jobs -> BOOLEAN]
    /\ held \in [Workers -> [job : Jobs \cup {NoJob}, token : 0..MaxAttempts]]

LeaseInit ==
    /\ status = [j \in Jobs |-> "ABSENT"]
    /\ attempts = [j \in Jobs |-> 0]
    /\ token = [j \in Jobs |-> 0]
    /\ live = [j \in Jobs |-> FALSE]
    /\ held = [w \in Workers |-> NoClaim]

-----------------------------------------------------------------------------

(* MERGE of the job node; a replay with the same immutable fields finds it *)
(* compatible and changes nothing.                                         *)
RegisterJob(j) ==
    /\ status[j] = "ABSENT"
    /\ status' = [status EXCEPT ![j] = "QUEUED"]
    /\ UNCHANGED <<attempts, token, live, held>>

\* Mutant: expired leases are not taken over.
ClaimableWaiting(j) == status[j] \in {"QUEUED", "RETRY_WAIT"}

(* Neither finished, nor failed for good, nor leased to a worker whose     *)
(* lease has not expired.                                                  *)
Claimable(j) ==
    \/ status[j] \in {"QUEUED", "RETRY_WAIT"}
    \/ status[j] = "RUNNING" /\ ~live[j]

ClaimJob(w, j) ==
    /\ ~Busy(w)
    /\ Claimable(j)
    /\ attempts[j] < MaxAttempts
    /\ status' = [status EXCEPT ![j] = "RUNNING"]
    /\ attempts' = [attempts EXCEPT ![j] = @ + 1]
    /\ token' = [token EXCEPT ![j] = attempts[j] + 1]
    /\ live' = [live EXCEPT ![j] = TRUE]
    /\ held' = [held EXCEPT ![w] = [job |-> j, token |-> attempts[j] + 1]]

(* A claim that finds the retry budget spent closes the job instead.       *)
ExhaustJob(j) ==
    /\ Claimable(j)
    /\ attempts[j] >= MaxAttempts
    /\ status' = [status EXCEPT ![j] = "FAILED_PERMANENT"]
    /\ token' = [token EXCEPT ![j] = 0]
    /\ live' = [live EXCEPT ![j] = FALSE]
    /\ UNCHANGED <<attempts, held>>

\* Mutant: the token is not compared.
OwnsJobByStatus(w) == status[JobOf(w)] = "RUNNING" /\ live[JobOf(w)]

(* The check every write transaction of a call begins with; it renews the  *)
(* lease it verified, which leaves live[j] as it is.                       *)
OwnsJob(w) ==
    /\ status[JobOf(w)] = "RUNNING"
    /\ token[JobOf(w)] = held[w].token
    /\ live[JobOf(w)]

(* Close the job the worker owns, and return from the call.                *)
FinishJob(w, outcomeStatus) ==
    /\ Busy(w)
    /\ OwnsJob(w)
    /\ status' = [status EXCEPT ![JobOf(w)] = outcomeStatus]
    /\ token' = [token EXCEPT ![JobOf(w)] = 0]
    /\ live' = [live EXCEPT ![JobOf(w)] = FALSE]
    /\ held' = [held EXCEPT ![w] = NoClaim]
    /\ UNCHANGED attempts

\* Mutant: a stale worker's report closes the job of another.
RecordFailureUnfenced(w, retryable) ==
    LET j == JobOf(w)
    IN  /\ Busy(w)
        /\ held' = [held EXCEPT ![w] = NoClaim]
        /\ status' = [status EXCEPT ![j] =
                         IF ~retryable \/ attempts[j] >= MaxAttempts
                         THEN "FAILED_PERMANENT" ELSE "RETRY_WAIT"]
        /\ token' = [token EXCEPT ![j] = 0]
        /\ live' = [live EXCEPT ![j] = FALSE]
        /\ UNCHANGED attempts

(* The except branch of a call: one more transaction, which changes the    *)
(* job only while it still carries this worker's token.                    *)
RecordFailure(w, retryable) ==
    LET j     == JobOf(w)
        final == ~retryable \/ attempts[j] >= MaxAttempts
    IN  /\ Busy(w)
        /\ held' = [held EXCEPT ![w] = NoClaim]
        /\ UNCHANGED attempts
        /\ IF token[j] = held[w].token /\ status[j] = "RUNNING"
           THEN /\ status' = [status EXCEPT ![j] =
                                 IF final THEN "FAILED_PERMANENT" ELSE "RETRY_WAIT"]
                /\ token' = [token EXCEPT ![j] = 0]
                /\ live' = [live EXCEPT ![j] = FALSE]
           ELSE UNCHANGED <<status, token, live>>

(* The process of the call dies, or its failure report does not get        *)
(* through: nobody tells the database.                                     *)
CrashWorker(w) ==
    /\ Busy(w)
    /\ held' = [held EXCEPT ![w] = NoClaim]
    /\ UNCHANGED <<status, attempts, token, live>>

LapseLease(j) ==
    /\ status[j] = "RUNNING" /\ live[j]
    /\ live' = [live EXCEPT ![j] = FALSE]
    /\ UNCHANGED <<status, attempts, token, held>>

LeaseNext ==
    \/ \E j \in Jobs : RegisterJob(j) \/ ExhaustJob(j) \/ LapseLease(j)
    \/ \E w \in Workers :
          \/ \E j \in Jobs : ClaimJob(w, j)
          \/ \E s \in Finished : FinishJob(w, s)
          \/ \E r \in BOOLEAN : RecordFailure(w, r)
          \/ CrashWorker(w)

LeaseSpec == LeaseInit /\ [][LeaseNext]_leaseVars

-----------------------------------------------------------------------------

(* Fencing: the workers that may still pass the ownership check of a job   *)
(* are at most one, however many calls of expired claims are still running *)
(* (_assert_owned_job_tx).                                                 *)
AtMostOneOwner ==
    \A v, w \in Workers :
        Busy(v) /\ Busy(w) /\ JobOf(v) = JobOf(w) /\ OwnsJob(v) /\ OwnsJob(w)
            => v = w

(* Why: a token is the number of the claim that wrote it, so that it is    *)
(* never written twice, and the job forgets it when it stops running.      *)
TokensAreClaims ==
    /\ \A j \in Jobs :
          IF status[j] = "RUNNING" THEN token[j] = attempts[j] /\ attempts[j] > 0
                                   ELSE token[j] = 0 /\ ~live[j]
    /\ \A w \in Workers : Busy(w) => held[w].token \in 1..attempts[JobOf(w)]
    /\ \A v, w \in Workers :
          Busy(v) /\ JobOf(v) = JobOf(w) /\ held[v].token = held[w].token => v = w

LeaseInv == LeaseTypeOK /\ TokensAreClaims

StaysFinal ==
    \A j \in Jobs : status[j] \in Terminal => status'[j] = status[j] /\ token'[j] = 0

(* A job that reached a final status keeps it and never holds a token: no  *)
(* late failure report, claim or finish reopens it.                        *)
TerminalIsFinal == [][StaysFinal]_leaseVars

=============================================================================
