--------------------- MODULE IngestionLifecycle_proofs ---------------------
(***************************************************************************)
(* The safety invariants of IngestionLifecycle for any number of jobs,     *)
(* workers, snapshots, chunks and generations.  Every invariant the runs   *)
(* check is a conjunct of LifecycleInv, which is inductive; with it every  *)
(* step implements one of the register of SourceRegister.                  *)
(***************************************************************************)
EXTENDS IngestionRefinement, JobLease_proofs

\* What of the store the inductive invariant speaks about.
StoreInv ==
    /\ SourceShape /\ MembersExist
    /\ ScopeIsActive /\ AccessAgrees /\ ActiveIsComplete /\ PublishedIsActive
    /\ GenerationAgrees /\ EffectOnce /\ CitedSurvives

(* The parts of the assumption on the constants the steps need.            *)
LEMMA ConstantFacts ==
    /\ MaxGeneration \in Nat
    /\ NoSnapshot \notin Snapshots
    /\ \A s \in Snapshots : ChunksOf[s] \subseteq Chunks /\ ChunksOf[s] # {}
    /\ \A j \in Upserts : /\ j \in Jobs
                         /\ Target[j] \in Snapshots
                         /\ PlanPolicy[j] \in Policies
                         /\ PlanTitle[j] \in Titles
    /\ NoPolicy \in Policies /\ NoTitle \in Titles
<1>1. MaxGeneration \in Nat /\ NoSnapshot \notin Snapshots
      BY LifecycleAssumption
<1>2. \A s \in Snapshots : ChunksOf[s] \subseteq Chunks /\ ChunksOf[s] # {}
      BY LifecycleAssumption
<1>3. \A j \in Upserts : j \in Jobs /\ Target[j] \in Snapshots
      BY LifecycleAssumption DEF Upserts
<1>4. \A j \in Upserts : PlanPolicy[j] \in Policies /\ PlanTitle[j] \in Titles
      BY DEF Policies, Titles
<1>5. NoPolicy \in Policies /\ NoTitle \in Titles
      BY DEF Policies, Titles
<1>6. QED
      BY <1>1, <1>2, <1>3, <1>4, <1>5

(* Every step of ingestion is a step of the leased jobs, or leaves them.   *)
LEMMA StepIsLeaseStep ==
    ASSUME [Next]_vars
    PROVE  [LeaseNext]_leaseVars
<1> USE DEF LeaseNext, Finished
<1>1. ASSUME NEW j \in Jobs, RegisterOp(j) \/ Exhaust(j) \/ Lapse(j) PROVE LeaseNext
      BY <1>1 DEF RegisterOp, Exhaust, Lapse
<1>2. ASSUME NEW w \in Workers, NEW j \in Jobs, Claim(w, j) PROVE LeaseNext
      BY <1>2 DEF Claim
<1>3. ASSUME NEW w \in Workers, Crash(w) PROVE LeaseNext
      BY <1>3 DEF Crash
<1>4. ASSUME NEW w \in Workers, Work(w) PROVE [LeaseNext]_leaseVars
  <2> USE DEF Refuse, Complete
  <2>1. ASSUME ReadActive(w) \/ Interrupt(w) PROVE UNCHANGED leaseVars
        BY <2>1 DEF ReadActive, Interrupt
  <2>2. ASSUME StageSnapshot(w) \/ VerifySnapshot(w) PROVE UNCHANGED leaseVars
        BY <2>2 DEF StageSnapshot, VerifySnapshot, ManifestMatches
  <2>3. ASSUME NEW c \in Chunks, StageChunk(w, c) PROVE UNCHANGED leaseVars
        BY <2>3 DEF StageChunk, WriteBundle, LinkMembership
  <2>4. ASSUME PublishSnapshot(w) PROVE [LeaseNext]_leaseVars
        BY <2>4 DEF PublishSnapshot
  <2>5. ASSUME FinishExisting(w) PROVE [LeaseNext]_leaseVars
        BY <2>5 DEF FinishExisting
  <2>6. ASSUME DeleteDocument(w) PROVE [LeaseNext]_leaseVars
        BY <2>6 DEF DeleteDocument
  <2>7. ASSUME Report(w) PROVE LeaseNext
    <3>1. RecordFailure(w, TRUE) \/ RecordFailure(w, FALSE)
      <4>1. CASE pc[w] = "error"
            BY <2>7, <4>1 DEF Report
      <4>2. CASE pc[w] # "error"
            BY <2>7, <4>2 DEF Report
      <4>3. QED
            BY <4>1, <4>2
    <3>2. QED
          BY <3>1
  <2>8. QED
        BY <1>4, <2>1, <2>2, <2>3, <2>4, <2>5, <2>6, <2>7 DEF Work
<1>5. ASSUME CiteSource \/ SettleReview \/ RetireDocument PROVE UNCHANGED leaseVars
      BY <1>5 DEF CiteSource, SettleReview, RetireDocument
<1>6. CASE UNCHANGED vars
      BY <1>6 DEF vars
<1>7. QED
      BY <1>1, <1>2, <1>3, <1>4, <1>5, <1>6 DEF Next

LEMMA LifecycleInvInit == Init => LifecycleInv
<1> SUFFICES ASSUME Init PROVE LifecycleInv
    OBVIOUS
<1>1. LeaseInv
      BY LeaseInvInit DEF Init
<1>2. LifecycleTypeOK
  <2>1. plan \in [Jobs -> [expected : Snapshots \cup {NoSnapshot},
                            gen : 0..MaxGeneration]]
        BY ConstantFacts DEF Init, NoPlan
  <2>2. tombGen \in 0..MaxGeneration /\ corpusRev \in Nat
        BY ConstantFacts DEF Init
  <2>3. docPolicy \in Policies /\ docTitle \in Titles /\ chunkPolicy \in [Chunks -> Policies]
        BY ConstantFacts DEF Init
  <2>4. QED
        BY <1>1, <2>1, <2>2, <2>3 DEF Init, LifecycleTypeOK, LeaseInv, NullGen
<1>3. CallsMatchJobs
      BY <1>1, JobLeaseAssumption
      DEF Init, LeaseInit, CallsMatchJobs, Busy, JobOf, NoClaim, Phases
<1>4. StoreInv
      BY DEF Init, LeaseInit, StoreInv, SourceShape, MembersExist, ScopeIsActive,
         AccessAgrees, ActiveIsComplete, PublishedIsActive, GenerationAgrees,
         EffectOnce, CitedSurvives
<1>5. QED
      BY <1>1, <1>2, <1>3, <1>4 DEF LifecycleInv, StoreInv, LeaseInv

-----------------------------------------------------------------------------
(* Steps that leave the store alone.                                       *)

PlanType == [Jobs -> [expected : Snapshots \cup {NoSnapshot}, gen : 0..MaxGeneration]]
PcType   == [Workers -> {"idle"} \cup Phases \cup Raised]

\* The same jobs have SUCCEEDED.
SameSuccesses == \A j \in Jobs : status'[j] = "SUCCEEDED" <=> status[j] = "SUCCEEDED"

LEMMA QuietStep ==
    ASSUME LifecycleInv, LeaseInv',
           UNCHANGED <<sourceVars, buildVars, governVars, applied>>,
           plan' \in PlanType, pc' \in PcType, CallsMatchJobs', SameSuccesses
    PROVE  LifecycleInv'
<1> USE DEF LifecycleInv, sourceVars, buildVars, governVars
<1>1. LifecycleTypeOK'
      BY DEF LifecycleTypeOK, LeaseInv, PlanType, PcType
<1>2. SourceShape' /\ MembersExist' /\ ScopeIsActive' /\ AccessAgrees'
      BY DEF SourceShape, MembersExist, ScopeIsActive, AccessAgrees
<1>3. ActiveIsComplete' /\ PublishedIsActive' /\ GenerationAgrees' /\ CitedSurvives'
      BY DEF ActiveIsComplete, PublishedIsActive, GenerationAgrees, CitedSurvives
<1>4. EffectOnce'
      BY DEF EffectOnce, SameSuccesses
<1>5. QED
      BY <1>1, <1>2, <1>3, <1>4 DEF LeaseInv

LEMMA JobSteps ==
    ASSUME LifecycleInv, LeaseInv', NEW j \in Jobs,
           RegisterOp(j) \/ Exhaust(j) \/ Lapse(j)
    PROVE  LifecycleInv'
<1> USE DEF LifecycleInv, LifecycleTypeOK, LeaseTypeOK
<1>0. held' = held /\ pc' = pc
      BY DEF RegisterOp, Exhaust, Lapse, RegisterJob, ExhaustJob, LapseLease
<1>1. CASE RegisterOp(j)
  <2>1. Generation \in 0..MaxGeneration /\ Generation < MaxGeneration
        BY <1>1 DEF RegisterOp, Generation
  <2>2. plan' \in PlanType
        BY <1>1, <2>1 DEF RegisterOp, PlanType
  <2>3. CallsMatchJobs' /\ SameSuccesses
        BY <1>0, <1>1, <2>1
        DEF RegisterOp, RegisterJob, CallsMatchJobs, SameSuccesses, Busy, JobOf
  <2>4. QED
        BY <1>0, <1>1, <2>2, <2>3, QuietStep DEF RegisterOp, PcType
<1>2. CASE Exhaust(j) \/ Lapse(j)
  <2>1. plan' = plan /\ status[j] # "ABSENT" /\ status[j] # "SUCCEEDED"
        BY <1>2 DEF Exhaust, Lapse, ExhaustJob, LapseLease, Claimable
  <2>2. CallsMatchJobs' /\ SameSuccesses
        BY <1>0, <1>2, <2>1
        DEF Exhaust, Lapse, ExhaustJob, LapseLease, CallsMatchJobs, SameSuccesses,
            Busy, JobOf
  <2>3. QED
        BY <1>0, <1>2, <2>1, <2>2, QuietStep DEF Exhaust, Lapse, PlanType, PcType
<1>3. QED
      BY <1>1, <1>2

LEMMA CallSteps ==
    ASSUME LifecycleInv, LeaseInv', NEW w \in Workers,
           \/ \E j \in Jobs : Claim(w, j)
           \/ Refuse(w) /\ pc[w] \in Phases
           \/ Interrupt(w) \/ Report(w) \/ Crash(w)
    PROVE  LifecycleInv'
<1> USE JobLeaseAssumption
        DEF LifecycleInv, LifecycleTypeOK, LeaseTypeOK, PlanType, PcType, GoTo
<1>1. ASSUME NEW j \in Jobs, Claim(w, j) PROVE LifecycleInv'
  <2>1. /\ UNCHANGED <<plan, sourceVars, buildVars, governVars, applied>>
        /\ pc' \in PcType
        BY <1>1 DEF Claim, Phases
  <2>2. CallsMatchJobs' /\ SameSuccesses
        BY <1>1 DEF Claim, ClaimJob, Claimable, CallsMatchJobs, SameSuccesses,
                    Busy, JobOf, Phases, Upserts
  <2>3. QED
        BY <2>1, <2>2, QuietStep
<1>2. CASE (Refuse(w) /\ pc[w] \in Phases) \/ Interrupt(w)
  <2>1. /\ UNCHANGED <<leaseVars, plan, sourceVars, buildVars, governVars, applied>>
        /\ \E place \in Raised : pc' = [pc EXCEPT ![w] = place]
        /\ pc[w] \in Phases
        BY <1>2 DEF Refuse, Interrupt, Raised
  <2>2. pc' \in PcType
        BY <2>1
  <2>3. CallsMatchJobs' /\ SameSuccesses
        BY <2>1 DEF leaseVars, CallsMatchJobs, SameSuccesses, Busy, JobOf, Phases, Raised
  <2>4. QED
        BY <2>1, <2>2, <2>3, QuietStep
<1>3. CASE Report(w) \/ Crash(w)
  <2>1. /\ UNCHANGED <<plan, sourceVars, buildVars, governVars, applied>>
        /\ pc' = [pc EXCEPT ![w] = "idle"]
        BY <1>3 DEF Report, Crash
  <2>2. /\ held' = [held EXCEPT ![w] = NoClaim]
        /\ SameSuccesses
        /\ \A j \in Jobs : status'[j] = "ABSENT" <=> status[j] = "ABSENT"
    <3>1. CASE Crash(w)
          BY <3>1 DEF Crash, CrashWorker, SameSuccesses
    <3>2. CASE Report(w)
      <4>1. PICK r \in BOOLEAN : RecordFailure(w, r)
        <5>1. CASE pc[w] = "error"
              BY <3>2, <5>1 DEF Report
        <5>2. CASE pc[w] # "error"
              BY <3>2, <5>2 DEF Report
        <5>3. QED
              BY <5>1, <5>2
      <4>2. CASE UNCHANGED status
            BY <4>1, <4>2 DEF RecordFailure, SameSuccesses
      <4>3. CASE /\ status[JobOf(w)] = "RUNNING"
                 /\ \E s \in {"FAILED_PERMANENT", "RETRY_WAIT"} :
                       status' = [status EXCEPT ![JobOf(w)] = s]
            BY <4>1, <4>3, HeldType DEF RecordFailure, SameSuccesses
      <4>4. QED
            BY <4>1, <4>2, <4>3 DEF RecordFailure
    <3>3. QED
          BY <1>3, <3>1, <3>2
  <2>3. CallsMatchJobs'
        BY <2>1, <2>2 DEF CallsMatchJobs, Busy, JobOf, NoClaim, Phases
  <2>4. pc' \in PcType
        BY <2>1
  <2>5. QED
        BY <2>1, <2>2, <2>3, <2>4, QuietStep
<1>4. QED
      BY <1>1, <1>2, <1>3

-----------------------------------------------------------------------------
(* Building a snapshot.                                                    *)

(* A call in a phase of an upload runs an upload; moving it to another of  *)
(* these phases keeps calls and jobs matched.                              *)
LEMMA UploadCall ==
    ASSUME LifecycleInv, NEW w \in Workers, pc[w] \in Phases \ {"delete"}
    PROVE  JobOf(w) \in Upserts /\ JobOf(w) \in Jobs /\ Busy(w)
BY DEF LifecycleInv, CallsMatchJobs, Upserts, Phases

LEMMA UploadMoves ==
    ASSUME LifecycleInv, NEW w \in Workers, pc[w] \in Phases \ {"delete"},
           NEW place \in (Phases \ {"delete"}) \cup Raised, GoTo(w, place),
           UNCHANGED <<leaseVars, plan>>
    PROVE  CallsMatchJobs' /\ SameSuccesses /\ pc' \in PcType
BY UploadCall
   DEF LifecycleInv, LifecycleTypeOK, CallsMatchJobs, SameSuccesses, PcType, GoTo,
       leaseVars, Busy, JobOf, Phases, Raised

LEMMA ReadStep ==
    ASSUME LifecycleInv, LeaseInv', NEW w \in Workers, ReadActive(w)
    PROVE  LifecycleInv'
<1>1. /\ UNCHANGED <<leaseVars, plan, sourceVars, buildVars, governVars, applied>>
      /\ \E place \in {"conflict", "existing", "stage"} : GoTo(w, place)
      /\ pc[w] \in Phases \ {"delete"}
      BY DEF ReadActive, Phases
<1>2. CallsMatchJobs' /\ SameSuccesses /\ pc' \in PcType
      BY <1>1, UploadMoves DEF Phases, Raised
<1>3. QED
      BY <1>1, <1>2, QuietStep DEF LifecycleInv, LifecycleTypeOK, PlanType

LEMMA StageSnapshotStep ==
    ASSUME LifecycleInv, LeaseInv', NEW w \in Workers, StageSnapshot(w)
    PROVE  LifecycleInv'
<1> DEFINE s == Target[JobOf(w)]
<1>1. pc[w] = "stage" /\ pc[w] \in Phases \ {"delete"} /\ s \in Snapshots
      BY UploadCall, ConstantFacts DEF StageSnapshot, InPhase, Phases
<1>2. CASE Refuse(w)
      BY <1>1, <1>2, CallSteps
<1>3. CASE ~Refuse(w)
  <2>1. /\ snap' = [snap EXCEPT ![s] = IF @ = "ABSENT" THEN "BUILDING" ELSE @]
        /\ \E place \in {"verify", "chunks"} : GoTo(w, place)
        /\ UNCHANGED <<leaseVars, plan, sourceVars, members, chunks,
                       chunkPolicy, tasks, governVars, applied>>
        BY <1>3 DEF StageSnapshot, NextChunkOrVerify, Merged
  <2>2. CallsMatchJobs' /\ SameSuccesses /\ pc' \in PcType
        BY <1>1, <2>1, UploadMoves DEF Phases
  <2> USE <1>1, <2>1, <2>2 DEF LifecycleInv, sourceVars, governVars, leaseVars
  <2>3. LifecycleTypeOK'
        BY DEF LifecycleTypeOK, LeaseInv, PcType
  <2>4. SourceShape' /\ MembersExist' /\ ScopeIsActive' /\ AccessAgrees'
        BY DEF SourceShape, MembersExist, ScopeIsActive, AccessAgrees
  <2>5. ActiveIsComplete' /\ PublishedIsActive' /\ GenerationAgrees' /\ CitedSurvives'
        BY DEF ActiveIsComplete, PublishedIsActive, GenerationAgrees, CitedSurvives,
               LifecycleTypeOK
  <2>6. EffectOnce'
        BY DEF EffectOnce
  <2>7. QED
        BY <2>3, <2>4, <2>5, <2>6 DEF LeaseInv
<1>4. QED
      BY <1>2, <1>3

LEMMA StageChunkStep ==
    ASSUME LifecycleInv, LeaseInv', NEW w \in Workers, NEW c \in Chunks, StageChunk(w, c)
    PROVE  LifecycleInv'
<1> DEFINE j == JobOf(w)
           s == Target[j]
<1>1. /\ pc[w] = "chunks" /\ pc[w] \in Phases \ {"delete"}
      /\ j \in Jobs /\ s \in Snapshots /\ c \in ChunksOf[s]
      BY UploadCall, ConstantFacts
         DEF StageChunk, WriteBundle, LinkMembership, InPhase, Phases
<1>2. CASE Refuse(w)
      BY <1>1, <1>2, CallSteps
<1>3. CASE ~Refuse(w)
  <2>1. /\ docState' = IF docState = "ABSENT" THEN "STAGED" ELSE docState
        /\ chunks' = chunks \cup {c}
        /\ members' = [members EXCEPT ![s] = @ \cup {c}]
        /\ tasks' = [tasks EXCEPT ![j] = @ \cup {c}]
        /\ \E place \in {"verify", "chunks"} : GoTo(w, place)
        /\ UNCHANGED <<leaseVars, plan, docGen, tombGen, docTitle, docPolicy, active,
                       scope, corpusRev, snap, chunkPolicy, governVars, applied>>
        BY <1>3 DEF StageChunk, WriteBundle, LinkMembership, NextChunkOrVerify
  <2>2. CallsMatchJobs' /\ SameSuccesses /\ pc' \in PcType
        BY <1>1, <2>1, UploadMoves DEF Phases
  <2> USE <1>1, <2>1, <2>2 DEF LifecycleInv, governVars, leaseVars
  <2>3. LifecycleTypeOK'
        BY DEF LifecycleTypeOK, LeaseInv, PcType
  <2>4. SourceShape' /\ MembersExist' /\ ScopeIsActive' /\ AccessAgrees'
        BY DEF SourceShape, MembersExist, ScopeIsActive, AccessAgrees, LifecycleTypeOK
  <2>5. ActiveIsComplete' /\ PublishedIsActive' /\ GenerationAgrees' /\ CitedSurvives'
        BY DEF ActiveIsComplete, PublishedIsActive, GenerationAgrees, CitedSurvives,
               LifecycleTypeOK, MembersExist
  <2>6. EffectOnce'
        BY DEF EffectOnce
  <2>7. QED
        BY <2>3, <2>4, <2>5, <2>6 DEF LeaseInv
<1>4. QED
      BY <1>2, <1>3

LEMMA VerifyStep ==
    ASSUME LifecycleInv, LeaseInv', NEW w \in Workers, VerifySnapshot(w)
    PROVE  LifecycleInv'
<1> DEFINE s == Target[JobOf(w)]
<1>1. pc[w] = "verify" /\ pc[w] \in Phases \ {"delete"} /\ s \in Snapshots
      BY UploadCall, ConstantFacts DEF VerifySnapshot, ManifestMatches, InPhase, Phases
<1>2. CASE Refuse(w) \/ Interrupt(w)
      BY <1>1, <1>2, CallSteps
<1>3. CASE ~(Refuse(w) \/ Interrupt(w))
  <2>1. /\ snap' = [snap EXCEPT ![s] = "READY"]
        /\ GoTo(w, "publish")
        /\ UNCHANGED <<leaseVars, plan, sourceVars, members, chunks,
                       chunkPolicy, tasks, governVars, applied>>
        BY <1>1, <1>3 DEF VerifySnapshot, ManifestMatches, Interrupt
  <2>2. CallsMatchJobs' /\ SameSuccesses /\ pc' \in PcType
        BY <1>1, <2>1, UploadMoves DEF Phases
  <2> USE <1>1, <2>1, <2>2 DEF LifecycleInv, sourceVars, governVars, leaseVars
  <2>3. LifecycleTypeOK'
        BY DEF LifecycleTypeOK, LeaseInv, PcType
  <2>4. SourceShape' /\ MembersExist' /\ ScopeIsActive' /\ AccessAgrees'
        BY DEF SourceShape, MembersExist, ScopeIsActive, AccessAgrees
  <2>5. ActiveIsComplete' /\ PublishedIsActive' /\ GenerationAgrees' /\ CitedSurvives'
        BY DEF ActiveIsComplete, PublishedIsActive, GenerationAgrees, CitedSurvives,
               LifecycleTypeOK
  <2>6. EffectOnce'
        BY DEF EffectOnce
  <2>7. QED
        BY <2>3, <2>4, <2>5, <2>6 DEF LeaseInv
<1>4. QED
      BY <1>2, <1>3

-----------------------------------------------------------------------------
(* Closing a job with its effect.                                          *)

(* The job of a completed call was running and ends as stated; no other    *)
(* job changes.                                                            *)
LEMMA CompleteFacts ==
    ASSUME LifecycleInv, NEW w \in Workers, NEW outcome \in Finished, Complete(w, outcome)
    PROVE  /\ JobOf(w) \in Jobs /\ status[JobOf(w)] = "RUNNING"
           /\ status' = [status EXCEPT ![JobOf(w)] = outcome]
           /\ pc' \in PcType /\ CallsMatchJobs'
           /\ UNCHANGED <<plan, cited, openReview>>
<1> USE DEF LifecycleInv, LifecycleTypeOK, LeaseTypeOK, Complete, FinishJob, OwnsJob,
            GoTo, governVars, Finished
<1>1. JobOf(w) \in Jobs /\ status[JobOf(w)] = "RUNNING"
      BY HeldType
<1>2. status' = [status EXCEPT ![JobOf(w)] = outcome] /\ pc' = [pc EXCEPT ![w] = "idle"]
      OBVIOUS
<1>3. CallsMatchJobs'
      BY <1>1, <1>2, JobLeaseAssumption
      DEF CallsMatchJobs, NoClaim, Busy, JobOf, Phases
<1>4. QED
      BY <1>1, <1>2, <1>3 DEF PcType

(* The generation a running job was registered with leaves room for one    *)
(* more.                                                                   *)
LEMMA PlanBounds ==
    ASSUME LifecycleInv, NEW j \in Jobs, status[j] # "ABSENT"
    PROVE  plan[j].gen \in 0..MaxGeneration /\ plan[j].gen + 1 \in 0..MaxGeneration
BY ConstantFacts DEF LifecycleInv, LifecycleTypeOK, CallsMatchJobs

(* The counter of effects moves with the status.                           *)
LEMMA EffectCounted ==
    ASSUME LifecycleInv, NEW j \in Jobs, status[j] = "RUNNING",
           status' = [status EXCEPT ![j] = "SUCCEEDED"],
           applied' = [applied EXCEPT ![j] = @ + 1]
    PROVE  EffectOnce' /\ applied' \in [Jobs -> Nat]
BY DEF LifecycleInv, LifecycleTypeOK, LeaseTypeOK, EffectOnce

(* A job that ends without an effect changes nothing else.                 *)
LEMMA NoopStep ==
    ASSUME LifecycleInv, LeaseInv', NEW w \in Workers, Complete(w, "NOOP"),
           UNCHANGED <<sourceVars, buildVars, applied>>
    PROVE  LifecycleInv'
<1>1. /\ JobOf(w) \in Jobs /\ status[JobOf(w)] = "RUNNING"
      /\ status' = [status EXCEPT ![JobOf(w)] = "NOOP"]
      /\ pc' \in PcType /\ CallsMatchJobs'
      /\ UNCHANGED <<plan, cited, openReview>>
      BY CompleteFacts DEF Finished
<1>2. SameSuccesses
      BY <1>1 DEF SameSuccesses, LifecycleInv, LifecycleTypeOK, LeaseTypeOK
<1>3. QED
      BY <1>1, <1>2, QuietStep DEF governVars, LifecycleInv, LifecycleTypeOK, PlanType

LEMMA PublishStep ==
    ASSUME LifecycleInv, LeaseInv', NEW w \in Workers, PublishSnapshot(w)
    PROVE  LifecycleInv'
<1> DEFINE j == JobOf(w)
           s == Target[j]
           old == IF active = NoSnapshot THEN {} ELSE members[active]
<1>1. /\ pc[w] \in Phases /\ j \in Upserts /\ j \in Jobs /\ s \in Snapshots
      /\ PlanPolicy[j] \in Policies /\ PlanTitle[j] \in Titles
      /\ ChunksOf[s] \subseteq Chunks
      BY UploadCall, ConstantFacts DEF PublishSnapshot, InPhase, Phases
<1>2. CASE Refuse(w)
      BY <1>1, <1>2, CallSteps
<1>3. CASE ~Refuse(w)
  <2>1. /\ snap[s] \in {"READY", "PUBLISHED"}
        /\ Generation = plan[j].gen
        /\ active # s
        /\ members[s] = ChunksOf[s]
        BY <1>3 DEF PublishSnapshot, PublishAllowed
  <2>2. /\ docState' = "ACTIVE" /\ docGen' = plan[j].gen
        /\ docTitle' = PlanTitle[j] /\ docPolicy' = PlanPolicy[j]
        /\ active' = s
        /\ snap' = [t \in Snapshots |-> IF t = s THEN "PUBLISHED"
                                        ELSE IF t = active THEN "RETIRED"
                                        ELSE snap[t]]
        /\ chunkPolicy' = [c \in Chunks |-> IF c \in ChunksOf[s] \cap chunks
                                            THEN PlanPolicy[j] ELSE chunkPolicy[c]]
        /\ scope' = (scope \cup (ChunksOf[s] \cap chunks)) \ (old \ ChunksOf[s])
        /\ corpusRev' = corpusRev + 1
        /\ applied' = [applied EXCEPT ![j] = @ + 1]
        /\ Complete(w, "SUCCEEDED")
        /\ UNCHANGED <<tombGen, members, chunks, tasks>>
        BY <1>3 DEF PublishSnapshot, StatesAfter, PolicyAfter, ScopeAfter, ScopeWith,
                    AdvanceRevision
  <2>3. /\ status[j] = "RUNNING" /\ pc' \in PcType /\ CallsMatchJobs'
        /\ EffectOnce' /\ applied' \in [Jobs -> Nat]
        /\ UNCHANGED <<plan, cited, openReview>>
        /\ plan[j].gen \in 0..MaxGeneration
        BY <2>2, CompleteFacts, EffectCounted, PlanBounds DEF Finished
  <2>4. scope' = ChunksOf[s] /\ ChunksOf[s] \subseteq chunks
        BY <1>1, <2>1, <2>2
        DEF LifecycleInv, ScopeIsActive, ActiveIsComplete, MembersExist
  <2> USE <1>1, <2>1, <2>2, <2>3, <2>4, ConstantFacts DEF LifecycleInv
  <2>5. LifecycleTypeOK'
        BY DEF LifecycleTypeOK, LeaseInv, PcType
  <2>6. SourceShape' /\ MembersExist' /\ ScopeIsActive' /\ AccessAgrees'
        BY DEF SourceShape, MembersExist, ScopeIsActive, AccessAgrees, LifecycleTypeOK,
               NullGen
  <2>7. ActiveIsComplete' /\ PublishedIsActive' /\ GenerationAgrees' /\ CitedSurvives'
        BY DEF ActiveIsComplete, PublishedIsActive, GenerationAgrees, CitedSurvives,
               LifecycleTypeOK, Generation, MembersExist
  <2>8. QED
        BY <2>5, <2>6, <2>7 DEF LeaseInv
<1>4. QED
      BY <1>2, <1>3

LEMMA FinishExistingStep ==
    ASSUME LifecycleInv, LeaseInv', NEW w \in Workers, FinishExisting(w)
    PROVE  LifecycleInv'
<1> DEFINE j == JobOf(w)
           s == Target[j]
<1>1. /\ pc[w] \in Phases /\ j \in Upserts /\ j \in Jobs /\ s \in Snapshots
      /\ PlanPolicy[j] \in Policies /\ PlanTitle[j] \in Titles
      /\ ChunksOf[s] \subseteq Chunks
      BY UploadCall, ConstantFacts DEF FinishExisting, InPhase, Phases
<1>2. CASE Refuse(w)
      BY <1>1, <1>2, CallSteps
<1>3. CASE /\ Complete(w, "NOOP")
           /\ UNCHANGED <<sourceVars, buildVars, applied>>
      BY <1>3, NoopStep
<1>4. CASE ~Refuse(w) /\ ~(Complete(w, "NOOP") /\ UNCHANGED <<sourceVars, buildVars, applied>>)
  <2>1. /\ active = s /\ docState # "ABSENT"
        /\ ChunksOf[s] \subseteq chunks
        BY <1>1, <1>4 DEF FinishExisting, ReplayAllowed, LifecycleInv, MembersExist
  <2>2. /\ docTitle' = PlanTitle[j] /\ docPolicy' = PlanPolicy[j]
        /\ chunkPolicy' = [c \in Chunks |-> IF c \in ChunksOf[s] \cap chunks
                                            THEN PlanPolicy[j] ELSE chunkPolicy[c]]
        /\ scope' = scope \cup (ChunksOf[s] \cap chunks)
        /\ corpusRev' = corpusRev + 1
        /\ applied' = [applied EXCEPT ![j] = @ + 1]
        /\ Complete(w, "SUCCEEDED")
        /\ UNCHANGED <<docState, docGen, tombGen, active, snap, members, chunks, tasks>>
        BY <1>4 DEF FinishExisting, PolicyAfter, ScopeWith, AdvanceRevision
  <2>3. /\ status[j] = "RUNNING" /\ pc' \in PcType /\ CallsMatchJobs'
        /\ EffectOnce' /\ applied' \in [Jobs -> Nat]
        /\ UNCHANGED <<plan, cited, openReview>>
        BY <2>2, CompleteFacts, EffectCounted DEF Finished
  <2> USE <1>1, <2>1, <2>2, <2>3, ConstantFacts DEF LifecycleInv
  <2>4. LifecycleTypeOK'
        BY DEF LifecycleTypeOK, LeaseInv, PcType
  <2>5. SourceShape' /\ MembersExist' /\ ScopeIsActive' /\ AccessAgrees'
        BY DEF SourceShape, MembersExist, ScopeIsActive, AccessAgrees, LifecycleTypeOK
  <2>6. ActiveIsComplete' /\ PublishedIsActive' /\ GenerationAgrees' /\ CitedSurvives'
        BY DEF ActiveIsComplete, PublishedIsActive, GenerationAgrees, CitedSurvives
  <2>7. QED
        BY <2>4, <2>5, <2>6 DEF LeaseInv
<1>5. QED
      BY <1>2, <1>3, <1>4

LEMMA DeleteStep ==
    ASSUME LifecycleInv, LeaseInv', NEW w \in Workers, DeleteDocument(w)
    PROVE  LifecycleInv'
<1> DEFINE j == JobOf(w)
<1>1. pc[w] \in Phases
      BY DEF DeleteDocument, InPhase, Phases
<1>2. CASE Refuse(w)
      BY <1>1, <1>2, CallSteps
<1>3. CASE /\ Complete(w, "NOOP")
           /\ UNCHANGED <<sourceVars, buildVars, applied>>
      BY <1>3, NoopStep
<1>4. CASE ~Refuse(w) /\ ~(Complete(w, "NOOP") /\ UNCHANGED <<sourceVars, buildVars, applied>>)
  <2>1. cited = {}
        BY <1>4 DEF DeleteDocument, DeleteAllowed, NoGovernedReferences
  <2>2. /\ tombGen' = plan[j].gen + 1
        /\ docState' = "ABSENT" /\ docGen' = NullGen
        /\ docTitle' = NoTitle /\ docPolicy' = NoPolicy
        /\ active' = NoSnapshot
        /\ snap' = [s \in Snapshots |-> "ABSENT"]
        /\ members' = [s \in Snapshots |-> {}]
        /\ chunks' = {} /\ scope' = {}
        /\ chunkPolicy' = [c \in Chunks |-> NoPolicy]
        /\ tasks' = [i \in Jobs |-> {}]
        /\ corpusRev' = IF docState = "ABSENT" THEN corpusRev ELSE corpusRev + 1
        /\ applied' = [applied EXCEPT ![j] = @ + 1]
        /\ Complete(w, "SUCCEEDED")
        BY <1>4 DEF DeleteDocument, AdvanceRevision
  <2>3. /\ j \in Jobs /\ status[j] = "RUNNING" /\ pc' \in PcType /\ CallsMatchJobs'
        /\ EffectOnce' /\ applied' \in [Jobs -> Nat]
        /\ UNCHANGED <<plan, cited, openReview>>
        /\ plan[j].gen + 1 \in 0..MaxGeneration
        BY <2>2, CompleteFacts, EffectCounted, PlanBounds DEF Finished
  <2> USE <2>1, <2>2, <2>3, ConstantFacts DEF LifecycleInv
  <2>4. LifecycleTypeOK'
        BY DEF LifecycleTypeOK, LeaseInv, PcType
  <2>5. SourceShape' /\ MembersExist' /\ ScopeIsActive' /\ AccessAgrees'
        BY DEF SourceShape, MembersExist, ScopeIsActive, AccessAgrees
  <2>6. ActiveIsComplete' /\ PublishedIsActive' /\ GenerationAgrees' /\ CitedSurvives'
        BY DEF ActiveIsComplete, PublishedIsActive, GenerationAgrees, CitedSurvives
  <2>7. QED
        BY <2>4, <2>5, <2>6 DEF LeaseInv
<1>5. QED
      BY <1>2, <1>3, <1>4

-----------------------------------------------------------------------------
(* Governed knowledge and retirement.                                      *)

LEMMA GovernStep ==
    ASSUME LifecycleInv, LeaseInv', CiteSource \/ SettleReview
    PROVE  LifecycleInv'
<1>1. /\ UNCHANGED <<leaseVars, plan, pc, sourceVars, buildVars, applied>>
      /\ openReview' \in BOOLEAN
      BY DEF CiteSource, SettleReview
<1>2. cited' \subseteq chunks /\ cited' \in SUBSET Chunks
  <2>1. CASE CiteSource
        BY <2>1 DEF CiteSource, LifecycleInv, LifecycleTypeOK, ActiveIsComplete,
                    CitedSurvives
  <2>2. CASE SettleReview
        BY <2>2 DEF SettleReview, LifecycleInv, LifecycleTypeOK, CitedSurvives
  <2>3. QED
        BY <2>1, <2>2
<1> USE <1>1, <1>2 DEF LifecycleInv, leaseVars, sourceVars, buildVars
<1>3. LifecycleTypeOK'
      BY DEF LifecycleTypeOK, LeaseInv
<1>4. CallsMatchJobs' /\ SourceShape' /\ MembersExist' /\ ScopeIsActive' /\ AccessAgrees'
      BY DEF CallsMatchJobs, SourceShape, MembersExist, ScopeIsActive, AccessAgrees,
             Busy, JobOf
<1>5. /\ ActiveIsComplete' /\ PublishedIsActive' /\ GenerationAgrees'
      /\ EffectOnce' /\ CitedSurvives'
      BY DEF ActiveIsComplete, PublishedIsActive, GenerationAgrees, EffectOnce,
             CitedSurvives
<1>6. QED
      BY <1>3, <1>4, <1>5 DEF LeaseInv

LEMMA RetireStep ==
    ASSUME LifecycleInv, LeaseInv', RetireDocument
    PROVE  LifecycleInv'
<1>1. /\ docState = "ACTIVE" /\ active # NoSnapshot
      /\ docGen < MaxGeneration
      /\ docState' = "RETIRED"
      /\ docGen' = docGen + 1 /\ tombGen' = docGen + 1
      /\ active' = NoSnapshot
      /\ snap' = [snap EXCEPT ![active] = "RETIRED"]
      /\ scope' = {}
      /\ corpusRev' = corpusRev + 1
      /\ UNCHANGED <<leaseVars, plan, pc, docTitle, docPolicy, members, chunks,
                     chunkPolicy, tasks, governVars, applied>>
      BY DEF RetireDocument, RetireAllowed, AdvanceRevision
<1>2. docGen \in 0..MaxGeneration /\ docGen + 1 \in 0..MaxGeneration
      BY <1>1, ConstantFacts DEF LifecycleInv, SourceShape, LifecycleTypeOK
<1> USE <1>1, <1>2 DEF LifecycleInv, leaseVars, governVars
<1>3. LifecycleTypeOK'
      BY DEF LifecycleTypeOK, LeaseInv
<1>4. CallsMatchJobs' /\ SourceShape' /\ MembersExist' /\ ScopeIsActive' /\ AccessAgrees'
      BY ConstantFacts
      DEF CallsMatchJobs, SourceShape, MembersExist, ScopeIsActive, AccessAgrees,
          Busy, JobOf, NullGen
<1>5. /\ ActiveIsComplete' /\ PublishedIsActive' /\ GenerationAgrees'
      /\ EffectOnce' /\ CitedSurvives'
      BY DEF ActiveIsComplete, PublishedIsActive, GenerationAgrees, EffectOnce,
             CitedSurvives, LifecycleTypeOK
<1>6. QED
      BY <1>3, <1>4, <1>5 DEF LeaseInv

-----------------------------------------------------------------------------

LEMMA LifecycleInvStep == LifecycleInv /\ [Next]_vars => LifecycleInv'
<1> SUFFICES ASSUME LifecycleInv, [Next]_vars PROVE LifecycleInv'
    OBVIOUS
<1>1. LeaseInv'
      BY StepIsLeaseStep, LeaseInvStep DEF LifecycleInv, LifecycleTypeOK, LeaseInv
<1>2. ASSUME NEW j \in Jobs, RegisterOp(j) \/ Exhaust(j) \/ Lapse(j)
      PROVE  LifecycleInv'
      BY <1>1, <1>2, JobSteps
<1>3. ASSUME NEW w \in Workers, Work(w) PROVE LifecycleInv'
  <2>1. CASE ReadActive(w)
        BY <1>1, <2>1, ReadStep
  <2>2. CASE StageSnapshot(w)
        BY <1>1, <2>2, StageSnapshotStep
  <2>3. ASSUME NEW c \in Chunks, StageChunk(w, c) PROVE LifecycleInv'
        BY <1>1, <2>3, StageChunkStep
  <2>4. CASE VerifySnapshot(w)
        BY <1>1, <2>4, VerifyStep
  <2>5. CASE PublishSnapshot(w)
        BY <1>1, <2>5, PublishStep
  <2>6. CASE FinishExisting(w)
        BY <1>1, <2>6, FinishExistingStep
  <2>7. CASE DeleteDocument(w)
        BY <1>1, <2>7, DeleteStep
  <2>8. CASE Interrupt(w) \/ Report(w)
        BY <1>1, <2>8, CallSteps
  <2>9. QED
        BY <1>3, <2>1, <2>2, <2>3, <2>4, <2>5, <2>6, <2>7, <2>8 DEF Work
<1>4. ASSUME NEW w \in Workers, Crash(w) \/ \E j \in Jobs : Claim(w, j)
      PROVE  LifecycleInv'
      BY <1>1, <1>4, CallSteps
<1>5. CASE CiteSource \/ SettleReview
      BY <1>1, <1>5, GovernStep
<1>6. CASE RetireDocument
      BY <1>1, <1>6, RetireStep
<1>7. CASE UNCHANGED vars
  <2>1. CallsMatchJobs' /\ SameSuccesses
        BY <1>7 DEF LifecycleInv, vars, leaseVars, CallsMatchJobs, SameSuccesses,
                    Busy, JobOf
  <2>2. QED
        BY <1>1, <1>7, <2>1, QuietStep
        DEF vars, LifecycleInv, LifecycleTypeOK, PlanType, PcType
<1>8. QED
      BY <1>2, <1>3, <1>4, <1>5, <1>6, <1>7 DEF Next

(* Whatever the interleaving of calls, crashes, takeovers, deletions and   *)
(* retirements of ingestion/service.py and ingestion/retirement.py, for    *)
(* any numbers of them: the retrieval scope is the active snapshot with    *)
(* the document's access policy, the active snapshot is complete, an       *)
(* operation has its effect once, and evidence is not deleted.             *)
THEOREM LifecycleInvariance == Spec => []LifecycleInv
BY LifecycleInvInit, LifecycleInvStep, PTL DEF Spec

(* The BM25 partition and its access policies: what retrieval may return   *)
(* of this source is exactly the active snapshot, under the document's     *)
(* policy (the scope and access writes of publication, replay, deletion    *)
(* and retirement).                                                        *)
THEOREM RetrievalAgrees == Spec => [](ScopeIsActive /\ AccessAgrees)
<1>1. LifecycleInv => ScopeIsActive /\ AccessAgrees
      BY DEF LifecycleInv
<1>2. QED
      BY <1>1, LifecycleInvariance, PTL

(* At-least-once execution of an ingestion job changes the corpus at most  *)
(* once, and if the job SUCCEEDED, once.                                   *)
THEOREM EffectIsOnce == Spec => []EffectOnce
<1>1. LifecycleInv => EffectOnce
      BY DEF LifecycleInv
<1>2. QED
      BY <1>1, LifecycleInvariance, PTL

(* Physical deletion never removes what a governed revision cites.         *)
THEOREM EvidenceIsKept == Spec => []CitedSurvives
<1>1. LifecycleInv => CitedSurvives
      BY DEF LifecycleInv
<1>2. QED
      BY <1>1, LifecycleInvariance, PTL

(* The fencing theorem of the leased jobs holds of the whole lifecycle.    *)
THEOREM LifecycleFencing == Spec => [](AtMostOneOwner)
<1>1. LifecycleInv => AtMostOneOwner
      BY LeaseInvFences DEF LifecycleInv, LifecycleTypeOK, LeaseInv
<1>2. QED
      BY <1>1, LifecycleInvariance, PTL

-----------------------------------------------------------------------------
(* What a step may never do.                                               *)

\* The steps that leave what readers of the corpus see.
SourceKept == UNCHANGED <<active, scope, corpusRev, docTitle, docPolicy>>

(* Of all steps only four change what a reader sees: those that close a    *)
(* job with its effect, and retirement.                                    *)
LEMMA KeptOrClosed ==
    ASSUME [Next]_vars
    PROVE  \/ SourceKept
           \/ \E w \in Workers :
                 \/ PublishSnapshot(w) \/ FinishExisting(w) \/ DeleteDocument(w)
           \/ RetireDocument
<1> USE DEF SourceKept, sourceVars
<1>1. ASSUME NEW j \in Jobs, RegisterOp(j) \/ Exhaust(j) \/ Lapse(j) PROVE SourceKept
      BY <1>1 DEF RegisterOp, Exhaust, Lapse
<1>2. ASSUME NEW w \in Workers, Crash(w) \/ \E j \in Jobs : Claim(w, j) PROVE SourceKept
      BY <1>2 DEF Crash, Claim
<1>3. ASSUME NEW w \in Workers, Work(w),
             ~PublishSnapshot(w), ~FinishExisting(w), ~DeleteDocument(w)
      PROVE  SourceKept
  <2>1. CASE ReadActive(w) \/ Interrupt(w) \/ Report(w)
        BY <2>1 DEF ReadActive, Interrupt, Report
  <2>2. CASE StageSnapshot(w) \/ VerifySnapshot(w)
        BY <2>2 DEF StageSnapshot, VerifySnapshot, ManifestMatches, Refuse
  <2>3. CASE \E c \in Chunks : StageChunk(w, c)
        BY <2>3 DEF StageChunk, WriteBundle, LinkMembership, Refuse
  <2>4. QED
        BY <1>3, <2>1, <2>2, <2>3 DEF Work
<1>4. CASE CiteSource \/ SettleReview
      BY <1>4 DEF CiteSource, SettleReview
<1>5. CASE UNCHANGED vars
      BY <1>5 DEF vars
<1>6. QED
      BY <1>1, <1>2, <1>3, <1>4, <1>5 DEF Next

(* A revision of the corpus is never taken back, and whatever a reader of  *)
(* the published corpus can see changes with it                            *)
(* (_advance_corpus_revision_tx).                                          *)
THEOREM RevisionCovers == Spec => RevisionCoversChange
<1> DEFINE Covered == /\ corpusRev' >= corpusRev
                      /\ corpusRev' = corpusRev =>
                           UNCHANGED <<active, scope, docTitle, docPolicy>>
<1>1. ASSUME LifecycleInv, [Next]_vars PROVE [Covered]_vars
  <2>1. corpusRev \in Nat
        BY <1>1 DEF LifecycleInv, LifecycleTypeOK
  <2>2. CASE SourceKept
        BY <2>1, <2>2 DEF SourceKept
  <2>3. ASSUME NEW w \in Workers, PublishSnapshot(w) PROVE Covered
        BY <2>1, <2>3 DEF PublishSnapshot, AdvanceRevision, Refuse, sourceVars
  <2>4. ASSUME NEW w \in Workers, FinishExisting(w) PROVE Covered
        BY <2>1, <2>4 DEF FinishExisting, AdvanceRevision, Refuse, sourceVars
  <2>5. ASSUME NEW w \in Workers, DeleteDocument(w) PROVE Covered
    <3>1. CASE UNCHANGED sourceVars
          BY <2>1, <3>1 DEF sourceVars
    <3>2. CASE /\ corpusRev' = IF docState = "ABSENT" THEN corpusRev ELSE corpusRev + 1
               /\ active' = NoSnapshot /\ scope' = {}
               /\ docTitle' = NoTitle /\ docPolicy' = NoPolicy
      <4>1. docState = "ABSENT" =>
                 /\ active = NoSnapshot /\ scope = {}
                 /\ docTitle = NoTitle /\ docPolicy = NoPolicy
            BY <1>1 DEF LifecycleInv, SourceShape, ScopeIsActive
      <4>2. QED
            BY <2>1, <3>2, <4>1
    <3>3. QED
          BY <2>5, <3>1, <3>2 DEF DeleteDocument, AdvanceRevision, Refuse
  <2>6. CASE RetireDocument
        BY <2>1, <2>6 DEF RetireDocument, AdvanceRevision
  <2>7. QED
        BY <1>1, <2>2, <2>3, <2>4, <2>5, <2>6, KeptOrClosed
<1>2. QED
      BY <1>1, LifecycleInvariance, PTL DEF Spec, RevisionCoversChange

(* While the document exists its access policy never goes back to an older *)
(* version and a version never changes meaning, whatever the order in      *)
(* which publications and replays arrive.                                  *)
THEOREM PoliciesOnlyAdvance == Spec => PolicyMonotone
<1> DEFINE Advances ==
        docState # "ABSENT" /\ docState' # "ABSENT" =>
          /\ docPolicy'.version >= docPolicy.version
          /\ docPolicy'.version = docPolicy.version => docPolicy' = docPolicy
<1>1. ASSUME LifecycleInv, [Next]_vars PROVE [Advances]_vars
  <2>1. docPolicy.version \in Nat
    <3>1. docPolicy \in Policies
          BY <1>1 DEF LifecycleInv, LifecycleTypeOK
    <3>2. QED
          BY <3>1, LifecycleAssumption DEF Policies
  <2>2. docPolicy' = docPolicy => Advances
        BY <2>1
  <2>3. ASSUME NEW w \in Workers, PublishSnapshot(w) PROVE Advances
    <3>1. CASE Refuse(w)
          BY <2>2, <3>1 DEF Refuse, sourceVars
    <3>2. CASE PolicyAccepted(PlanPolicy[JobOf(w)]) /\ docPolicy' = PlanPolicy[JobOf(w)]
          BY <3>2 DEF PolicyAccepted
    <3>3. QED
          BY <2>3, <3>1, <3>2 DEF PublishSnapshot, PublishAllowed
  <2>4. ASSUME NEW w \in Workers, FinishExisting(w) PROVE Advances
    <3>1. CASE UNCHANGED sourceVars
          BY <2>2, <3>1 DEF sourceVars
    <3>2. CASE PolicyAccepted(PlanPolicy[JobOf(w)]) /\ docPolicy' = PlanPolicy[JobOf(w)]
          BY <3>2 DEF PolicyAccepted
    <3>3. QED
          BY <2>4, <3>1, <3>2 DEF FinishExisting, ReplayAllowed, Refuse
  <2>5. ASSUME NEW w \in Workers, DeleteDocument(w) PROVE Advances
    <3>1. CASE UNCHANGED sourceVars
          BY <2>2, <3>1 DEF sourceVars
    <3>2. CASE docState' = "ABSENT"
          BY <3>2
    <3>3. QED
          BY <2>5, <3>1, <3>2 DEF DeleteDocument, Refuse
  <2>6. CASE RetireDocument
        BY <2>2, <2>6 DEF RetireDocument
  <2>7. QED
        BY <1>1, <2>2, <2>3, <2>4, <2>5, <2>6, KeptOrClosed DEF SourceKept
<1>2. QED
      BY <1>1, LifecycleInvariance, PTL DEF Spec, PolicyMonotone

(* A stale operation cannot resurrect or overwrite: the active pointer     *)
(* moves to a snapshot only by a live job that expected the pointer it     *)
(* replaces and the current generation (_publish_snapshot_tx).             *)
THEOREM PublicationsAreFresh == Spec => NoLostPublication
<1> DEFINE Fresh ==
        active' \notin {active, NoSnapshot} =>
          \E j \in Upserts : /\ status[j] = "RUNNING" /\ live[j]
                             /\ status'[j] = "SUCCEEDED"
                             /\ Target[j] = active'
                             /\ plan[j] = [expected |-> active, gen |-> Generation]
<1>1. ASSUME LifecycleInv, [Next]_vars PROVE [Fresh]_vars
  <2>1. CASE SourceKept \/ RetireDocument
        BY <2>1 DEF SourceKept, RetireDocument
  <2>2. ASSUME NEW w \in Workers, DeleteDocument(w) PROVE Fresh
        BY <2>2 DEF DeleteDocument, Refuse, sourceVars
  <2>3. ASSUME NEW w \in Workers, FinishExisting(w) PROVE Fresh
        BY <2>3 DEF FinishExisting, Refuse, sourceVars
  <2>4. ASSUME NEW w \in Workers, PublishSnapshot(w) PROVE Fresh
    <3> DEFINE j == JobOf(w)
    <3>1. j \in Upserts /\ j \in Jobs
          BY <1>1, <2>4, UploadCall DEF PublishSnapshot, InPhase, Phases
    <3>2. CASE Refuse(w)
          BY <3>2 DEF Refuse, sourceVars
    <3>3. CASE ~Refuse(w)
      <4>1. /\ status[j] = "RUNNING" /\ live[j]
            /\ Generation = plan[j].gen /\ active = plan[j].expected
            /\ active' = Target[j]
            /\ status' = [status EXCEPT ![j] = "SUCCEEDED"]
            BY <2>4, <3>3 DEF PublishSnapshot, PublishAllowed, InPhase, OwnsJob,
                              Complete, FinishJob
      <4>2. plan[j] = [expected |-> active, gen |-> Generation]
            BY <1>1, <3>1, <4>1 DEF LifecycleInv, LifecycleTypeOK
      <4>3. status'[j] = "SUCCEEDED"
            BY <1>1, <3>1, <4>1 DEF LifecycleInv, LifecycleTypeOK, LeaseTypeOK
      <4>4. QED
            BY <3>1, <4>1, <4>2, <4>3
    <3>4. QED
          BY <3>2, <3>3
  <2>5. QED
        BY <1>1, <2>1, <2>2, <2>3, <2>4, KeptOrClosed
<1>2. QED
      BY <1>1, LifecycleInvariance, PTL DEF Spec, NoLostPublication

-----------------------------------------------------------------------------

(* The stored chunks of a version come from one splitter, whatever uploads *)
(* of it run at once (_write_bundle_tx).                                   *)
THEOREM Partition == Spec => []OnePartition
<1>1. Init => OnePartition
      BY DEF Init, OnePartition
<1>2. ASSUME OnePartition, chunks' = chunks PROVE OnePartition'
      BY <1>2 DEF OnePartition
<1>3. ASSUME LifecycleInv, OnePartition, NEW w \in Workers, NEW c \in Chunks, StageChunk(w, c)
      PROVE  OnePartition'
  <2> DEFINE s == Target[JobOf(w)]
  <2>1. s \in Snapshots
        BY <1>3, UploadCall, ConstantFacts
           DEF StageChunk, WriteBundle, LinkMembership, InPhase, Phases
  <2>2. CASE chunks' = chunks
        BY <1>2, <1>3, <2>2
  <2>3. CASE chunks' # chunks
    <3>1. ~OtherPartition(s) /\ chunks' = chunks \cup {c} /\ c \in ChunksOf[s]
          BY <1>3, <2>3 DEF StageChunk, WriteBundle, LinkMembership, Refuse, buildVars
    <3>2. \A u \in Snapshots :
             VersionOf[u] = VersionOf[s] => ChunksOf[u] \cap chunks' \subseteq ChunksOf[s]
          BY <2>1, <3>1, LifecycleAssumption DEF OtherPartition
    <3>3. \A u \in Snapshots : VersionOf[u] # VersionOf[s] => c \notin ChunksOf[u]
          BY <2>1, <3>1, LifecycleAssumption
    <3>4. SUFFICES ASSUME NEW r \in Snapshots
                   PROVE \E t \in Snapshots :
                           /\ VersionOf[t] = VersionOf[r]
                           /\ \A u \in Snapshots : VersionOf[u] = VersionOf[r] =>
                                 ChunksOf[u] \cap chunks' \subseteq ChunksOf[t]
          BY DEF OnePartition
    <3>5. CASE VersionOf[r] = VersionOf[s]
          BY <2>1, <3>2, <3>5
    <3>6. CASE VersionOf[r] # VersionOf[s]
      <4>1. PICK t \in Snapshots :
               /\ VersionOf[t] = VersionOf[r]
               /\ \A u \in Snapshots : VersionOf[u] = VersionOf[r] =>
                     ChunksOf[u] \cap chunks \subseteq ChunksOf[t]
            BY <1>3 DEF OnePartition
      <4>2. QED
            BY <3>1, <3>3, <3>6, <4>1
    <3>7. QED
          BY <3>5, <3>6
  <2>4. QED
        BY <2>2, <2>3
<1>4. ASSUME OnePartition, NEW w \in Workers, DeleteDocument(w) PROVE OnePartition'
  <2>1. CASE chunks' = {}
        BY <1>4, <2>1 DEF OnePartition
  <2>2. CASE chunks' = chunks
        BY <1>2, <1>4, <2>2
  <2>3. QED
        BY <1>4, <2>1, <2>2 DEF DeleteDocument, Refuse, buildVars
<1>5. ASSUME LifecycleInv, OnePartition, [Next]_vars PROVE OnePartition'
  <2>1. ASSUME NEW j \in Jobs, RegisterOp(j) \/ Exhaust(j) \/ Lapse(j)
        PROVE  chunks' = chunks
        BY <2>1 DEF RegisterOp, Exhaust, Lapse, buildVars
  <2>2. ASSUME NEW w \in Workers, Crash(w) \/ \E j \in Jobs : Claim(w, j)
        PROVE  chunks' = chunks
        BY <2>2 DEF Crash, Claim, buildVars
  <2>3. ASSUME NEW w \in Workers,
               \/ ReadActive(w) \/ StageSnapshot(w) \/ VerifySnapshot(w)
               \/ Interrupt(w) \/ Report(w)
        PROVE  chunks' = chunks
        BY <2>3
           DEF ReadActive, StageSnapshot, VerifySnapshot, ManifestMatches,
               Interrupt, Report,
                    Refuse, buildVars
  <2>4. ASSUME NEW w \in Workers, PublishSnapshot(w) \/ FinishExisting(w)
        PROVE  chunks' = chunks
        BY <2>4 DEF PublishSnapshot, FinishExisting, Refuse, buildVars
  <2>5. CASE CiteSource \/ SettleReview \/ RetireDocument \/ UNCHANGED vars
        BY <1>2, <1>5, <2>5 DEF CiteSource, SettleReview, RetireDocument, vars, buildVars
  <2>6. QED
        BY <1>2, <1>3, <1>4, <1>5, <2>1, <2>2, <2>3, <2>4, <2>5 DEF Next, Work
<1>6. QED
      BY <1>1, <1>5, LifecycleInvariance, PTL DEF Spec

-----------------------------------------------------------------------------
(***************************************************************************)
(* Every step is a step of the register or leaves it alone.                *)
(***************************************************************************)

Submitted == {j \in Jobs : status[j] # "ABSENT"}
Done      == {j \in Jobs : status[j] \in Finished}

\* What the register sees of a job stays.
SameAnswers ==
    \A j \in Jobs : /\ status'[j] = "ABSENT" <=> status[j] = "ABSENT"
                    /\ status'[j] \in Finished <=> status[j] \in Finished

RegisterKept == UNCHANGED SR!registerVars

LEMMA RegisterInitialised == Init => SR!RegisterInit
BY DEF Init, LeaseInit, SR!RegisterInit, NoPlan, Generation, Finished

LEMMA KeptStep ==
    ASSUME SameAnswers, UNCHANGED <<active, docGen, tombGen, corpusRev, plan>>
    PROVE  RegisterKept
<1>1. Submitted' = Submitted /\ Done' = Done
      BY DEF Submitted, Done, SameAnswers
<1>2. Generation' = Generation
      BY DEF Generation
<1>3. QED
      BY <1>1, <1>2 DEF RegisterKept, SR!registerVars, Submitted, Done

(* The job of a call that completes gets its answer.                       *)
LEMMA CompleteAnswers ==
    ASSUME LifecycleInv, NEW w \in Workers, NEW outcome \in Finished, Complete(w, outcome),
           NEW j \in Jobs, j = JobOf(w)
    PROVE  SR!Answer(j)
<1>1. /\ status[j] = "RUNNING" /\ plan' = plan
      /\ status' = [status EXCEPT ![j] = outcome]
      BY CompleteFacts
<1>2. status \in [Jobs -> {"ABSENT"} \cup Pending \cup Terminal]
      BY DEF LifecycleInv, LifecycleTypeOK, LeaseTypeOK
<1>3. j \in Submitted /\ j \notin Done
      BY <1>1 DEF Submitted, Done, Finished
<1>4. Submitted' = Submitted
      BY <1>1, <1>2 DEF Submitted, Finished
<1>5. Done' = Done \cup {j}
      BY <1>1, <1>2 DEF Done
<1>6. QED
      BY <1>1, <1>3, <1>4, <1>5 DEF SR!Answer, Submitted, Done

LEMMA CallHasJob ==
    ASSUME LifecycleInv, NEW w \in Workers, Busy(w)
    PROVE  \E j \in Jobs : j = JobOf(w)
BY DEF LifecycleInv, LifecycleTypeOK, LeaseTypeOK, Busy, JobOf

(* The plan of a call is fresh exactly when it carries what is stored.     *)
LEMMA FreshPlan ==
    ASSUME LifecycleInv, NEW j \in Jobs,
           plan[j].expected = active, plan[j].gen = Generation
    PROVE  SR!Fresh(j)
BY DEF LifecycleInv, LifecycleTypeOK, SR!Fresh

\* The generation of a stored document is its tombstone's.
LEMMA GenerationIsTombstone ==
    ASSUME LifecycleInv PROVE Generation = tombGen
BY DEF LifecycleInv, GenerationAgrees, Generation

LEMMA PublishIsSwitch ==
    ASSUME LifecycleInv, LifecycleInv', NEW w \in Workers, PublishSnapshot(w), ~Refuse(w),
           NEW j \in Jobs, j = JobOf(w)
    PROVE  SR!Switch(j)
<1>1. /\ active # Target[j] /\ active = plan[j].expected /\ Generation = plan[j].gen
      /\ active' = Target[j] /\ tombGen' = tombGen /\ corpusRev' = corpusRev + 1
      /\ Complete(w, "SUCCEEDED")
      BY DEF PublishSnapshot, PublishAllowed, AdvanceRevision
<1>2. j \in Upserts
      BY UploadCall DEF PublishSnapshot, InPhase, Phases
<1>3. SR!Answer(j) /\ SR!Fresh(j)
      BY <1>1, CompleteAnswers, FreshPlan, <1>2 DEF Finished, Upserts
<1>4. Generation' = Generation
      BY <1>1, GenerationIsTombstone DEF LifecycleInv, GenerationAgrees, Generation
<1>5. QED
      BY <1>1, <1>2, <1>3, <1>4 DEF SR!Switch, Upserts

LEMMA ReplayIsTouch ==
    ASSUME LifecycleInv, NEW w \in Workers, FinishExisting(w), ~Refuse(w),
           NEW j \in Jobs, j = JobOf(w)
    PROVE  SR!Touch(j) \/ SR!Agree(j)
<1>1. /\ active = Target[j] /\ Generation = plan[j].gen
      BY DEF FinishExisting, ReplayAllowed
<1>2. j \in Upserts /\ Kind[j] = "UPSERT" /\ j \in Jobs
      BY UploadCall DEF FinishExisting, InPhase, Phases, Upserts
<1>3. CASE Complete(w, "NOOP") /\ UNCHANGED <<sourceVars, buildVars, applied>>
  <2>1. SR!Answer(j) /\ UNCHANGED <<active, docGen, tombGen, corpusRev>>
        BY <1>3, CompleteAnswers DEF Finished, sourceVars
  <2>2. QED
        BY <1>1, <1>2, <2>1 DEF SR!Agree, Generation
<1>4. CASE ~(Complete(w, "NOOP") /\ UNCHANGED <<sourceVars, buildVars, applied>>)
  <2>1. /\ plan[j].expected = active
        /\ Complete(w, "SUCCEEDED")
        /\ UNCHANGED <<active, docGen, tombGen>> /\ corpusRev' = corpusRev + 1
        BY <1>1, <1>4 DEF FinishExisting, AdvanceRevision
  <2>2. SR!Answer(j) /\ SR!Fresh(j)
        BY <1>1, <1>2, <2>1, CompleteAnswers, FreshPlan DEF Finished
  <2>3. QED
        BY <1>1, <1>2, <2>1, <2>2 DEF SR!Touch, Generation
<1>5. QED
      BY <1>3, <1>4

LEMMA DeleteIsRemove ==
    ASSUME LifecycleInv, NEW w \in Workers, DeleteDocument(w), ~Refuse(w),
           NEW j \in Jobs, j = JobOf(w)
    PROVE  SR!Remove(j) \/ SR!Agree(j)
<1>1. j \in Jobs \ Upserts
      BY DEF LifecycleInv, CallsMatchJobs, DeleteDocument, InPhase
<1>2. Kind[j] = "DELETE"
      BY <1>1, LifecycleAssumption DEF Upserts
<1>3. CASE Complete(w, "NOOP") /\ UNCHANGED <<sourceVars, buildVars, applied>>
                              /\ docState = "ABSENT"
  <2>1. SR!Answer(j) /\ UNCHANGED <<active, docGen, tombGen, corpusRev>>
        BY <1>3, CompleteAnswers DEF Finished, sourceVars
  <2>2. active = NoSnapshot
        BY <1>3 DEF LifecycleInv, SourceShape
  <2>3. QED
        BY <1>1, <1>2, <2>1, <2>2 DEF SR!Agree, Generation
<1>4. CASE ~(Complete(w, "NOOP") /\ UNCHANGED <<sourceVars, buildVars, applied>>
                                /\ docState = "ABSENT")
  <2>1. /\ plan[j].expected = active /\ plan[j].gen = Generation
        /\ tombGen' = plan[j].gen + 1 /\ docGen' = NullGen
        /\ active' = NoSnapshot
        /\ corpusRev' = IF docState = "ABSENT" THEN corpusRev ELSE corpusRev + 1
        /\ Complete(w, "SUCCEEDED")
        BY <1>4 DEF DeleteDocument, DeleteAllowed, NoGovernedReferences, AdvanceRevision
  <2>2. SR!Answer(j) /\ SR!Fresh(j)
        BY <1>1, <2>1, CompleteAnswers, FreshPlan DEF Finished
  <2>3. Generation' = Generation + 1
        BY <2>1 DEF Generation
  <2>4. corpusRev' = corpusRev + 1 \/ (active = NoSnapshot /\ corpusRev' = corpusRev)
        BY <2>1 DEF LifecycleInv, SourceShape, LifecycleTypeOK
  <2>5. QED
        BY <1>1, <1>2, <2>1, <2>2, <2>3, <2>4 DEF SR!Remove
<1>5. QED
      BY <1>3, <1>4

LEMMA RetireIsRetire ==
    ASSUME LifecycleInv, RetireDocument
    PROVE  SR!Retire
<1>1. /\ active # NoSnapshot /\ docState = "ACTIVE"
      /\ active' = NoSnapshot /\ docGen' = docGen + 1 /\ tombGen' = docGen + 1
      /\ corpusRev' = corpusRev + 1
      /\ UNCHANGED <<status, plan>>
      BY DEF RetireDocument, RetireAllowed, AdvanceRevision, leaseVars
<1>2. docGen \in 0..MaxGeneration
      BY <1>1 DEF LifecycleInv, SourceShape, LifecycleTypeOK
<1>3. Generation = docGen /\ Generation' = docGen + 1
      BY <1>1, <1>2, ConstantFacts DEF Generation, NullGen
<1>4. Submitted' = Submitted /\ Done' = Done
      BY <1>1 DEF Submitted, Done
<1>5. QED
      BY <1>1, <1>3, <1>4 DEF SR!Retire, Submitted, Done

LEMMA RegisterIsSubmit ==
    ASSUME LifecycleInv, NEW j \in Jobs, RegisterOp(j)
    PROVE  SR!Submit(j)
<1>1. /\ status[j] = "ABSENT" /\ status' = [status EXCEPT ![j] = "QUEUED"]
      /\ plan' = [plan EXCEPT ![j] = [expected |-> active, gen |-> Generation]]
      /\ UNCHANGED <<active, docGen, tombGen, corpusRev>>
      BY DEF RegisterOp, RegisterJob, sourceVars
<1>2. Submitted' = Submitted \cup {j} /\ Done' = Done /\ j \notin Submitted
      BY <1>1 DEF LifecycleInv, LifecycleTypeOK, LeaseTypeOK, Submitted, Done, Finished
<1>3. QED
      BY <1>1, <1>2 DEF SR!Submit, Submitted, Done, Generation

(* Everything else is invisible to the register.                           *)
LEMMA JobStepsKept ==
    ASSUME LifecycleInv, NEW j \in Jobs, Exhaust(j) \/ Lapse(j)
    PROVE  RegisterKept
<1>1. SameAnswers
      BY DEF LifecycleInv, LifecycleTypeOK, LeaseTypeOK, Exhaust, Lapse, ExhaustJob,
             LapseLease, Claimable, SameAnswers, Finished
<1>2. QED
      BY <1>1, KeptStep DEF Exhaust, Lapse, sourceVars

LEMMA CallStepsKept ==
    ASSUME LifecycleInv, NEW w \in Workers,
           \/ \E j \in Jobs : Claim(w, j)
           \/ Refuse(w) \/ Interrupt(w) \/ Report(w) \/ Crash(w)
    PROVE  RegisterKept
<1>1. UNCHANGED <<active, docGen, tombGen, corpusRev, plan>>
      BY DEF Claim, Refuse, Interrupt, Report, Crash, sourceVars
<1>2. SameAnswers
  <2> USE DEF LifecycleInv, LifecycleTypeOK, LeaseTypeOK
  <2>1. ASSUME NEW j \in Jobs, Claim(w, j) PROVE SameAnswers
        BY <2>1 DEF Claim, ClaimJob, Claimable, SameAnswers, Finished
  <2>2. CASE Refuse(w) \/ Interrupt(w) \/ Crash(w)
        BY <2>2 DEF Refuse, Interrupt, Crash, CrashWorker, leaseVars, SameAnswers
  <2>3. CASE Report(w)
    <3>1. PICK r \in BOOLEAN : RecordFailure(w, r)
      <4>1. CASE pc[w] = "error"
            BY <2>3, <4>1 DEF Report
      <4>2. CASE pc[w] # "error"
            BY <2>3, <4>2 DEF Report
      <4>3. QED
            BY <4>1, <4>2
    <3>2. CASE UNCHANGED status
          BY <3>2 DEF SameAnswers
    <3>3. CASE /\ status[JobOf(w)] = "RUNNING"
               /\ \E s \in {"FAILED_PERMANENT", "RETRY_WAIT"} :
                     status' = [status EXCEPT ![JobOf(w)] = s]
          BY <3>3 DEF SameAnswers, Finished
    <3>4. QED
          BY <3>1, <3>2, <3>3 DEF RecordFailure
  <2>4. QED
        BY <2>1, <2>2, <2>3
<1>3. QED
      BY <1>1, <1>2, KeptStep

LEMMA BuildStepsKept ==
    ASSUME LifecycleInv, NEW w \in Workers,
           \/ ReadActive(w) \/ StageSnapshot(w) \/ VerifySnapshot(w)
           \/ \E c \in Chunks : StageChunk(w, c)
    PROVE  RegisterKept
<1>1. /\ UNCHANGED <<active, docGen, tombGen, corpusRev, plan>>
      /\ UNCHANGED leaseVars
      BY
         DEF ReadActive, StageSnapshot, StageChunk, WriteBundle,
             LinkMembership, VerifySnapshot, ManifestMatches, Refuse,
             sourceVars
<1>2. QED
      BY <1>1, KeptStep DEF leaseVars, SameAnswers

LEMMA RegisterStep ==
    ASSUME LifecycleInv, [Next]_vars
    PROVE  [SR!RegisterNext]_(SR!registerVars)
<1> USE DEF SR!RegisterNext
<1>0. LifecycleInv'
      BY LifecycleInvStep
<1>1. ASSUME NEW j \in Jobs, RegisterOp(j) PROVE SR!RegisterNext
      BY <1>1, RegisterIsSubmit
<1>2. ASSUME NEW j \in Jobs, Exhaust(j) \/ Lapse(j) PROVE RegisterKept
      BY <1>2, JobStepsKept
<1>3. ASSUME NEW w \in Workers, Crash(w) \/ \E j \in Jobs : Claim(w, j) PROVE RegisterKept
      BY <1>3, CallStepsKept
<1>4. ASSUME NEW w \in Workers, Work(w) PROVE SR!RegisterNext \/ RegisterKept
  <2>1. CASE Refuse(w) \/ Interrupt(w) \/ Report(w)
        BY <2>1, CallStepsKept
  <2>2. CASE \/ ReadActive(w) \/ StageSnapshot(w) \/ VerifySnapshot(w)
             \/ \E c \in Chunks : StageChunk(w, c)
        BY <2>2, BuildStepsKept
  <2>3. CASE /\ PublishSnapshot(w) \/ FinishExisting(w) \/ DeleteDocument(w)
             /\ ~Refuse(w)
    <3>1. Busy(w)
          BY <2>3 DEF PublishSnapshot, FinishExisting, DeleteDocument, InPhase,
                      LifecycleInv, CallsMatchJobs
    <3>2. PICK j \in Jobs : j = JobOf(w)
          BY <3>1, CallHasJob
    <3>3. SR!Switch(j) \/ SR!Touch(j) \/ SR!Agree(j) \/ SR!Remove(j)
          BY <1>0, <2>3, <3>2, PublishIsSwitch, ReplayIsTouch, DeleteIsRemove
    <3>4. QED
          BY <3>3
  <2>4. QED
        BY <1>4, <2>1, <2>2, <2>3 DEF Work
<1>5. CASE CiteSource \/ SettleReview
      BY <1>5, KeptStep
         DEF CiteSource, SettleReview, leaseVars, sourceVars, SameAnswers,
             RegisterKept
<1>6. CASE RetireDocument
      BY <1>6, RetireIsRetire
<1>7. CASE UNCHANGED vars
      BY <1>7, KeptStep DEF vars, leaseVars, sourceVars, SameAnswers, RegisterKept
<1>8. QED
      BY <1>1, <1>2, <1>3, <1>4, <1>5, <1>6, <1>7 DEF Next, RegisterKept

(* Whatever the interleaving of calls, retries, crashes, takeovers and     *)
(* retirements, a source behaves as a register with compare-and-swap whose *)
(* operations take effect in one step, at most once, and only on what      *)
(* their caller saw: the whole of ingestion/service.py and                 *)
(* ingestion/retirement.py against SourceRegister.                         *)
THEOREM Refinement == Spec => ImplementsRegister
<1>1. LifecycleInv /\ [Next]_vars => [SR!RegisterNext]_(SR!registerVars)
      BY RegisterStep
<1>2. QED
      BY <1>1, RegisterInitialised, LifecycleInvariance, PTL
      DEF Spec, ImplementsRegister, SR!RegisterSpec
=============================================================================
