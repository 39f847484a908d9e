-------------------------- MODULE JobLease_proofs --------------------------
(* Fencing holds for any number of jobs, workers and attempts.             *)
EXTENDS JobLease, TLAPS

(* The fields of a claim.                                                  *)
LEMMA HeldType ==
    ASSUME LeaseTypeOK, NEW w \in Workers
    PROVE  /\ JobOf(w) \in Jobs \cup {NoJob}
           /\ held[w].token \in 0..MaxAttempts
           /\ Busy(w) => JobOf(w) \in Jobs
BY DEF LeaseTypeOK, JobOf, Busy

(* The claim counter, the job's token and the workers' tokens stay in step *)
(* initially ...                                                           *)
LEMMA LeaseInvInit == LeaseInit => LeaseInv
BY JobLeaseAssumption
   DEF LeaseInit, LeaseInv, LeaseTypeOK, TokensAreClaims, Pending, Terminal,
       NoClaim, Busy, JobOf

(* ... and in every step.                                                  *)
LEMMA LeaseInvStep == LeaseInv /\ [LeaseNext]_leaseVars => LeaseInv'
<1> SUFFICES ASSUME LeaseInv, [LeaseNext]_leaseVars PROVE LeaseInv'
    OBVIOUS
<1> USE JobLeaseAssumption
        DEF LeaseInv, LeaseTypeOK, TokensAreClaims, Pending, Terminal, Busy, JobOf
<1>1. ASSUME NEW j \in Jobs, RegisterJob(j) PROVE LeaseInv'
      BY <1>1 DEF RegisterJob
<1>2. ASSUME NEW j \in Jobs, ExhaustJob(j) PROVE LeaseInv'
      BY <1>2 DEF ExhaustJob, Claimable
<1>3. ASSUME NEW j \in Jobs, LapseLease(j) PROVE LeaseInv'
      BY <1>3 DEF LapseLease
<1>4. ASSUME NEW w \in Workers, NEW j \in Jobs, ClaimJob(w, j) PROVE LeaseInv'
      BY <1>4 DEF ClaimJob, Claimable
<1>5. ASSUME NEW w \in Workers, NEW s \in Finished, FinishJob(w, s) PROVE LeaseInv'
      BY <1>5 DEF FinishJob, OwnsJob, Finished, NoClaim
<1>6. ASSUME NEW w \in Workers, NEW r \in BOOLEAN, RecordFailure(w, r) PROVE LeaseInv'
  <2> DEFINE j == JobOf(w)
  <2>1. /\ j \in Jobs
        /\ held' = [held EXCEPT ![w] = NoClaim]
        /\ attempts' = attempts
        BY <1>6 DEF RecordFailure
  <2>2. CASE token[j] = held[w].token /\ status[j] = "RUNNING"
    <3>1. /\ \E s \in {"FAILED_PERMANENT", "RETRY_WAIT"} :
                status' = [status EXCEPT ![j] = s]
          /\ token' = [token EXCEPT ![j] = 0]
          /\ live' = [live EXCEPT ![j] = FALSE]
          BY <1>6, <2>2 DEF RecordFailure
    <3>2. QED
          BY <2>1, <3>1 DEF NoClaim
  <2>3. CASE ~(token[j] = held[w].token /\ status[j] = "RUNNING")
    <3>1. UNCHANGED <<status, token, live>>
          BY <1>6, <2>3 DEF RecordFailure
    <3>2. QED
          BY <2>1, <3>1 DEF NoClaim
  <2>4. QED
        BY <2>2, <2>3
<1>7. ASSUME NEW w \in Workers, CrashWorker(w) PROVE LeaseInv'
      BY <1>7 DEF CrashWorker, NoClaim
<1>8. CASE UNCHANGED leaseVars
      BY <1>8 DEF leaseVars
<1>9. QED
      BY <1>1, <1>2, <1>3, <1>4, <1>5, <1>6, <1>7, <1>8 DEF LeaseNext

(* At every moment, for any number of workers, at most one of them passes  *)
(* the ownership check of a job.                                           *)
LEMMA LeaseInvFences == LeaseInv => AtMostOneOwner
BY DEF LeaseInv, TokensAreClaims, AtMostOneOwner, OwnsJob, Busy

(* A step from a state of the invariant leaves final statuses alone.       *)
LEMMA FinalStep ==
    ASSUME LeaseInv, [LeaseNext]_leaseVars, NEW i \in Jobs, status[i] \in Terminal
    PROVE  status'[i] = status[i] /\ token'[i] = 0
<1> USE JobLeaseAssumption
        DEF LeaseInv, LeaseTypeOK, TokensAreClaims, Terminal, Pending
<1>0. status[i] \notin {"ABSENT", "RUNNING"} /\ token[i] = 0
      OBVIOUS
<1>1. ASSUME NEW j \in Jobs, RegisterJob(j) PROVE status'[i] = status[i] /\ token'[i] = 0
      BY <1>0, <1>1 DEF RegisterJob
<1>2. ASSUME NEW j \in Jobs, ExhaustJob(j) PROVE status'[i] = status[i] /\ token'[i] = 0
      BY <1>0, <1>2 DEF ExhaustJob, Claimable
<1>3. ASSUME NEW j \in Jobs, LapseLease(j) PROVE status'[i] = status[i] /\ token'[i] = 0
      BY <1>0, <1>3 DEF LapseLease
<1>4. ASSUME NEW w \in Workers, NEW j \in Jobs, ClaimJob(w, j)
      PROVE  status'[i] = status[i] /\ token'[i] = 0
      BY <1>0, <1>4 DEF ClaimJob, Claimable
<1>5. ASSUME NEW w \in Workers, NEW s \in Finished, FinishJob(w, s)
      PROVE  status'[i] = status[i] /\ token'[i] = 0
      BY <1>0, <1>5, HeldType DEF FinishJob, OwnsJob
<1>6. ASSUME NEW w \in Workers, NEW r \in BOOLEAN, RecordFailure(w, r)
      PROVE  status'[i] = status[i] /\ token'[i] = 0
  <2>1. CASE token[JobOf(w)] = held[w].token /\ status[JobOf(w)] = "RUNNING"
        BY <1>0, <1>6, <2>1, HeldType DEF RecordFailure
  <2>2. CASE ~(token[JobOf(w)] = held[w].token /\ status[JobOf(w)] = "RUNNING")
        BY <1>0, <1>6, <2>2 DEF RecordFailure
  <2>3. QED
        BY <2>1, <2>2
<1>7. ASSUME NEW w \in Workers, CrashWorker(w) PROVE status'[i] = status[i] /\ token'[i] = 0
      BY <1>0, <1>7 DEF CrashWorker
<1>8. CASE UNCHANGED leaseVars
      BY <1>0, <1>8 DEF leaseVars
<1>9. QED
      BY <1>1, <1>2, <1>3, <1>4, <1>5, <1>6, <1>7, <1>8 DEF LeaseNext

-----------------------------------------------------------------------------

(* Type correctness and the token discipline of the job node.              *)
THEOREM LeaseInvariance == LeaseSpec => []LeaseInv
<1>1. LeaseInit => LeaseInv
      BY LeaseInvInit
<1>2. LeaseInv /\ [LeaseNext]_leaseVars => LeaseInv'
      BY LeaseInvStep
<1>3. QED
      BY <1>1, <1>2, PTL DEF LeaseSpec

(* Fencing: two workers never both pass _assert_owned_job_tx on one job.   *)
THEOREM Fencing == LeaseSpec => []AtMostOneOwner
<1>1. LeaseInv => AtMostOneOwner
      BY LeaseInvFences
<1>2. QED
      BY <1>1, LeaseInvariance, PTL

(* A final status is final, whatever late claims, finishes and failure     *)
(* reports arrive.                                                         *)
THEOREM Finality == LeaseSpec => TerminalIsFinal
<1>1. LeaseInv /\ [LeaseNext]_leaseVars => [StaysFinal]_leaseVars
      BY FinalStep DEF StaysFinal
<1>2. QED
      BY <1>1, LeaseInvariance, PTL DEF LeaseSpec, TerminalIsFinal

=============================================================================
