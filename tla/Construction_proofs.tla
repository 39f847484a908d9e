-------------------------- MODULE Construction_proofs --------------------------
(***************************************************************************)
(* The preparation of uploads and the construction of knowledge from them, *)
(* for any number of jobs, workers, chunks, runs and generations.          *)
(*                                                                         *)
(* PreparationInv says what a call of the pipeline knows between two of    *)
(* its transactions, and why its staging finds every artifact it derived   *)
(* still cached while the source is of its generation: what it has is      *)
(* linked to its tasks, and only a deletion of its own document takes the  *)
(* links.  AuditInv says what a thread of a construction knows of its      *)
(* chunk: past the audit it holds the only one there is.  ConstructionInv  *)
(* ties a job to its preparation: a call is at its chunks only after that  *)
(* succeeded, and once the source has moved on no job that was prepared is *)
(* open.                                                                   *)
(*                                                                         *)
(* A deletion elsewhere takes the audits of all constructions (the run     *)
(* construction_audit shows it, AuditsAreKept).  What rests on the audits  *)
(* holds while that does not happen; those theorems say so.                *)
(***************************************************************************)
EXTENDS Construction, JobLease_proofs, FiniteSetTheorems

-----------------------------------------------------------------------------
(***************************************************************************)
(* The preparation (pipeline.py): the inductive invariant, and one lemma for *)
(* each of its transactions.                                               *)
(***************************************************************************)

\* Where no claim is held, and where the call is in the loop.
AtRest == {"idle", "claim", "returned", "raised"}
Looping == {"start", "read", "derive", "link", "complete", "ingest"}
Ending == {"finish", "failing", "refused", "report", "reject"}

PreparationTypeOK ==
    /\ gen \in [Documents -> Nat]
    /\ stored \in [Documents -> SUBSET (Texts \X Payloads)]
    /\ plan = [j \in Jobs |-> plan[j]]
    /\ upsert \in [Jobs -> {"ABSENT", "OPEN", "SUCCEEDED", "FAILED"}]
    /\ artifact \in [Keys -> Payloads \cup {NoPayload}]
    /\ uses \subseteq Jobs \X Keys
    /\ at \in [Workers -> AtRest \cup Looping \cup Ending]
    /\ got \in [Workers -> Seq(Payloads)]
    /\ asked \in [Workers -> Jobs \cup {NoJob}]

\* A call that runs holds the claim of the job it asked for, and one that has
\* returned leaves it finished.
CallSound(w) ==
    /\ IF at[w] \in AtRest THEN ~Busy(w) ELSE JobOf(w) = asked[w]
    /\ at[w] # "idle" => asked[w] \in Jobs /\ status[asked[w]] # "ABSENT"
    /\ at[w] = "returned" => status[asked[w]] = "SUCCEEDED"

\* How many artifacts it has then, two for each chunk.
Size(j) == 2 * Len(TextsOf[j])
LoopSound(w) ==
    /\ at[w] \in {"idle", "claim"} => got[w] = <<>>
    /\ at[w] \in {"start", "read", "derive"} => Len(got[w]) < Size(asked[w])
    /\ at[w] \in {"link", "complete"} => Len(got[w]) \in 1..Size(asked[w])
    /\ at[w] = "complete" => Len(got[w]) % 2 = 0
    /\ at[w] = "ingest" => Len(got[w]) = Size(asked[w])

\* What it has is linked to its tasks, while the source is what it was.
LinksSound(w) ==
    at[w] \in Looping /\ Fresh(asked[w]) =>
        \A n \in 1..Len(got[w]) :
            n < Len(got[w]) \/ at[w] # "link" => <<asked[w], KeyAt(asked[w], n)>> \in uses

CacheSound ==
    /\ \A j \in Jobs : plan[j].gen \in Nat /\ plan[j].gen <= gen[DocumentOf[j]]
    /\ \A u \in uses : artifact[u[2]] # NoPayload
    /\ \A d \in Documents : \A v \in stored[d] :
          \E j \in JobsOf(d) : <<j, <<"EMBEDDING", v[1]>>>> \in uses

PreparationInv ==
    /\ LeaseInv
    /\ PreparationTypeOK
    /\ \A w \in Workers : CallSound(w) /\ LoopSound(w) /\ LinksSound(w)
    /\ CacheSound
    /\ OneVectorPerText

\* A job that exists stays, and one that ended stays as it ended.
LEMMA StatusLasts ==
  ASSUME LeaseInv, [LeaseNext]_leaseVars, NEW j \in Jobs
  PROVE  /\ status[j] # "ABSENT" => status'[j] # "ABSENT"
         /\ status[j] \in Terminal => status'[j] = status[j]
<1>1. status[j] \in Terminal => status'[j] = status[j]
  BY FinalStep
<1>2. LeaseTypeOK
  BY DEF LeaseInv
<1>3. ASSUME NEW i \in Jobs, RegisterJob(i) \/ ExhaustJob(i) \/ LapseLease(i), status[j] # "ABSENT"
      PROVE  status'[j] # "ABSENT"
  BY <1>2, <1>3 DEF LeaseTypeOK, RegisterJob, ExhaustJob, LapseLease
<1>4. ASSUME NEW w \in Workers, NEW i \in Jobs, ClaimJob(w, i), status[j] # "ABSENT"
      PROVE  status'[j] # "ABSENT"
  BY <1>2, <1>4 DEF LeaseTypeOK, ClaimJob
<1>5. ASSUME NEW w \in Workers, NEW s \in Finished, FinishJob(w, s), status[j] # "ABSENT"
      PROVE  status'[j] # "ABSENT"
  BY <1>2, <1>5 DEF LeaseTypeOK, FinishJob, Finished
<1>6. ASSUME NEW w \in Workers, NEW r \in BOOLEAN, RecordFailure(w, r), status[j] # "ABSENT"
      PROVE  status'[j] # "ABSENT"
  BY <1>2, <1>6 DEF LeaseTypeOK, RecordFailure
<1>7. ASSUME NEW w \in Workers, CrashWorker(w) PROVE status'[j] = status[j]
  BY <1>7 DEF CrashWorker
<1>8. CASE UNCHANGED leaseVars
  BY <1>1, <1>8 DEF leaseVars
<1> QED
  BY <1>1, <1>3, <1>4, <1>5, <1>6, <1>7, <1>8 DEF LeaseNext

\* What a call knows lasts while others take steps.
LEMMA CallKept ==
  ASSUME PreparationInv, [LeaseNext]_leaseVars, NEW v \in Workers,
         held'[v] = held[v] /\ at'[v] = at[v] /\ got'[v] = got[v] /\ asked'[v] = asked[v]
  PROVE  CallSound(v)' /\ LoopSound(v)'
<1>1. CallSound(v) /\ LoopSound(v)
  BY DEF PreparationInv
<1>2. asked[v] \in Jobs => (status[asked[v]] # "ABSENT" => status'[asked[v]] # "ABSENT")
                        /\ (status[asked[v]] = "SUCCEEDED" => status'[asked[v]] = "SUCCEEDED")
  BY StatusLasts DEF PreparationInv, Terminal
<1>3. CallSound(v)'
  BY <1>1, <1>2 DEF CallSound, Busy, JobOf
<1>4. LoopSound(v)'
  BY <1>1 DEF LoopSound
<1> QED
  BY <1>3, <1>4

\* A step of one call.
LEMMA CallStep ==
  ASSUME PreparationInv, NEW w \in Workers, [LeaseNext]_leaseVars, PreparationTypeOK', gen' = gen,
         \A j \in Jobs : status[j] # "ABSENT" => plan'[j] = plan[j],
         uses \subseteq uses',
         \A v \in Workers \ {w} :
            held'[v] = held[v] /\ at'[v] = at[v] /\ got'[v] = got[v] /\ asked'[v] = asked[v],
         CallSound(w)', LoopSound(w)', LinksSound(w)', CacheSound', OneVectorPerText'
  PROVE  PreparationInv'
<1>1. LeaseInv'
  BY LeaseInvStep DEF PreparationInv
<1>2. ASSUME NEW v \in Workers, v # w
      PROVE  CallSound(v)' /\ LoopSound(v)' /\ LinksSound(v)'
  <2>1. CallSound(v) /\ LinksSound(v)
    BY DEF PreparationInv
  <2>2. held'[v] = held[v] /\ at'[v] = at[v] /\ got'[v] = got[v] /\ asked'[v] = asked[v]
    BY <1>2
  <2>3. CallSound(v)' /\ LoopSound(v)'
    BY <2>2, CallKept
  <2>4. LinksSound(v)'
    <3>1. CASE at[v] \in Looping
      <4>1. asked[v] \in Jobs /\ status[asked[v]] # "ABSENT"
        BY <2>1, <3>1 DEF CallSound, Looping
      <4>2. Fresh(asked[v])' => Fresh(asked[v])
        BY <2>2, <4>1 DEF Fresh
      <4> QED
        BY <2>1, <2>2, <3>1, <4>2 DEF LinksSound, KeyAt, ChunkAt
    <3>2. CASE at[v] \notin Looping
      BY <2>2, <3>2 DEF LinksSound
    <3> QED
      BY <3>1, <3>2
  <2> QED
    BY <2>3, <2>4
<1> QED
  BY <1>1, <1>2 DEF PreparationInv

\* The cache where a step leaves it alone.
LEMMA CacheUnchanged ==
  ASSUME PreparationInv, UNCHANGED <<gen, stored, plan, artifact, uses>>
  PROVE  CacheSound' /\ OneVectorPerText'
BY DEF PreparationInv, CacheSound, OneVectorPerText, JobsOf

\* A step of one call that leaves the cache alone.
LEMMA QuietStep ==
  ASSUME PreparationInv, NEW w \in Workers, [LeaseNext]_leaseVars,
         UNCHANGED <<gen, stored, plan, artifact, uses>>,
         upsert' \in [Jobs -> {"ABSENT", "OPEN", "SUCCEEDED", "FAILED"}],
         at' \in [Workers -> AtRest \cup Looping \cup Ending],
         got' \in [Workers -> Seq(Payloads)],
         asked' \in [Workers -> Jobs \cup {NoJob}],
         \A v \in Workers \ {w} :
            held'[v] = held[v] /\ at'[v] = at[v] /\ got'[v] = got[v] /\ asked'[v] = asked[v],
         CallSound(w)', LoopSound(w)', LinksSound(w)'
  PROVE  PreparationInv'
<1>1. PreparationTypeOK'
  BY DEF PreparationInv, PreparationTypeOK
<1>2. CacheSound' /\ OneVectorPerText'
  BY CacheUnchanged
<1> QED
  BY <1>1, <1>2, CallStep

\* An error: the call leaves the loop with the claim it has.
LEMMA FailingStep ==
  ASSUME PreparationInv, NEW w \in Workers, at[w] \in Looping \cup Ending,
         at' \in {[at EXCEPT ![w] = p] : p \in Ending},
         UNCHANGED <<leaseVars, gen, stored, plan, artifact, uses, got, asked>>,
         upsert' \in [Jobs -> {"ABSENT", "OPEN", "SUCCEEDED", "FAILED"}]
  PROVE  PreparationInv'
<1>1. PICK p \in Ending : at' = [at EXCEPT ![w] = p]
  OBVIOUS
<1>2. /\ at \in [Workers -> AtRest \cup Looping \cup Ending]
      /\ got \in [Workers -> Seq(Payloads)]
      /\ asked \in [Workers -> Jobs \cup {NoJob}]
  BY DEF PreparationInv, PreparationTypeOK
<1>3. at' \in [Workers -> AtRest \cup Looping \cup Ending] /\ at'[w] = p
  BY <1>1, <1>2
<1>4. CallSound(w)
  BY DEF PreparationInv
<1>5. CallSound(w)' /\ LoopSound(w)' /\ LinksSound(w)'
  BY <1>3, <1>4 DEF CallSound, LoopSound, LinksSound, leaseVars, JobOf, Busy, AtRest, Looping, Ending
<1>6. /\ [LeaseNext]_leaseVars
      /\ \A v \in Workers \ {w} :
            held'[v] = held[v] /\ at'[v] = at[v] /\ got'[v] = got[v] /\ asked'[v] = asked[v]
  BY <1>1, <1>2 DEF leaseVars
<1> QED
  BY <1>2, <1>3, <1>5, <1>6, QuietStep

\* The artifacts of a job in the order of the loop.
LEMMA KindsAreTwo ==
  /\ Len(Kinds) = 2 /\ Kinds[1] = "EXTRACTION" /\ Kinds[2] = "EMBEDDING" /\ DOMAIN Kinds = {1, 2}
BY DEF Kinds

LEMMA SizeOfJob ==
  ASSUME NEW j \in Jobs
  PROVE  /\ TextsOf[j] \in Seq(Texts) /\ Len(TextsOf[j]) \in Nat \ {0}
         /\ Chunks(j) = 1..Len(TextsOf[j])
         /\ Size(j) \in Nat /\ Size(j) >= 2
<1>1. TextsOf[j] \in Seq(Texts) /\ TextsOf[j] # <<>>
  BY PreparationAssumption
<1>2. Len(TextsOf[j]) \in Nat /\ Len(TextsOf[j]) # 0 /\ DOMAIN TextsOf[j] = 1..Len(TextsOf[j])
  BY <1>1
<1> QED
  BY <1>1, <1>2 DEF Size, Chunks

LEMMA KeyOfJob ==
  ASSUME NEW j \in Jobs, NEW n \in 1..Size(j)
  PROVE  /\ ChunkAt(n) \in Chunks(j)
         /\ KeyAt(j, n) \in Keys /\ KeyAt(j, n)[1] \in {"EXTRACTION", "EMBEDDING"}
         /\ KeyAt(j, n) = <<KeyAt(j, n)[1], KeyAt(j, n)[2]>> /\ KeyAt(j, n)[2] \in Texts
<1>1. PICK m : m = Len(TextsOf[j])
  OBVIOUS
<1>2. m \in Nat \ {0} /\ Size(j) = 2 * m /\ Chunks(j) = 1..m /\ TextsOf[j] \in Seq(Texts)
      /\ Len(TextsOf[j]) = m
  BY <1>1, SizeOfJob DEF Size
<1>3. n \in 1..(2 * m)
  BY <1>2
<1>4. ((n - 1) \div 2) + 1 \in 1..m /\ ((n - 1) % 2) + 1 \in {1, 2}
  BY <1>2, <1>3
<1>5. ChunkAt(n) \in 1..m
  BY <1>4, KindsAreTwo DEF ChunkAt
<1>6. PICK t : t = TextsOf[j][ChunkAt(n)]
  OBVIOUS
<1>7. t \in Texts
  BY <1>2, <1>5, <1>6
<1>8. PICK k : k = Kinds[((n - 1) % Len(Kinds)) + 1]
  OBVIOUS
<1>9. k \in {"EXTRACTION", "EMBEDDING"}
  BY <1>4, <1>8, KindsAreTwo
<1>10. KeyAt(j, n) = <<k, t>>
  BY <1>6, <1>8 DEF KeyAt
<1>11. <<k, t>> \in Keys
  BY <1>7, <1>9, KindsAreTwo DEF Keys
<1> QED
  BY <1>2, <1>5, <1>7, <1>9, <1>10, <1>11

-----------------------------------------------------------------------------

\* A call that is not at rest.
LEMMA RunningCall ==
  ASSUME PreparationInv, NEW w \in Workers, at[w] \notin AtRest
  PROVE  /\ asked[w] \in Jobs /\ JobOf(w) = asked[w] /\ held[w].job = asked[w]
         /\ status[asked[w]] # "ABSENT"
<1>1. CallSound(w)
  BY DEF PreparationInv
<1> QED
  BY <1>1 DEF CallSound, JobOf, AtRest

\* The payloads of a call, its last chunk and the one it works at.
LEMMA GotTyped ==
  ASSUME PreparationInv, NEW w \in Workers
  PROVE  got[w] \in Seq(Payloads) /\ Len(got[w]) \in Nat
BY DEF PreparationInv, PreparationTypeOK

LEMMA RefusedPreserves ==
  ASSUME PreparationInv, NEW w \in Workers, at[w] \in Looping, NEW i, Refused(w, i)
  PROVE  PreparationInv'
<1>1. at' \in {[at EXCEPT ![w] = p] : p \in Ending}
  BY DEF Refused, Fail, GoTo, Ending
<1> QED
  BY <1>1, FailingStep DEF Refused, sourceVars, workVars, cacheVars, PreparationInv, PreparationTypeOK

LEMMA ClaimPreserves ==
  ASSUME PreparationInv, NEW w \in Workers, ClaimPreparation(w)
  PROVE  PreparationInv'
<1>1. PICK j : j = asked[w]
  OBVIOUS
<1>2. /\ at[w] = "claim" /\ ClaimJob(w, j) /\ at' = [at EXCEPT ![w] = "start"]
      /\ UNCHANGED <<sourceVars, workVars, cacheVars, got, asked>>
  BY <1>1 DEF ClaimPreparation, At, GoTo
<1>3. PreparationTypeOK /\ LeaseTypeOK /\ CallSound(w) /\ LoopSound(w)
  BY DEF PreparationInv, LeaseInv
<1>4. j \in Jobs /\ got[w] = <<>>
  BY <1>1, <1>2, <1>3 DEF CallSound, LoopSound
<1>5. [LeaseNext]_leaseVars
  BY <1>2, <1>4 DEF LeaseNext
<1>6. /\ held'[w].job = j /\ status'[j] = "RUNNING"
      /\ \A v \in Workers \ {w} : held'[v] = held[v]
  BY <1>2, <1>3, <1>4 DEF ClaimJob, LeaseTypeOK
<1>7. at'[w] = "start" /\ at' \in [Workers -> AtRest \cup Looping \cup Ending]
      /\ \A v \in Workers \ {w} : at'[v] = at[v]
  BY <1>2, <1>3 DEF PreparationTypeOK, Looping
<1>8. CallSound(w)'
  BY <1>1, <1>2, <1>4, <1>6, <1>7 DEF CallSound, JobOf, AtRest
<1>9. LoopSound(w)'
  BY <1>1, <1>2, <1>4, <1>7, SizeOfJob DEF LoopSound, Size
<1>10. LinksSound(w)'
  BY <1>2, <1>4, <1>7 DEF LinksSound
<1> QED
  BY <1>2, <1>3, <1>5, <1>6, <1>7, <1>8, <1>9, <1>10, QuietStep
     DEF sourceVars, workVars, cacheVars, PreparationTypeOK

\* The call ends up at rest: whatever it was, it holds no claim.
LEMMA RestingStep ==
  ASSUME PreparationInv, NEW w \in Workers, [LeaseNext]_leaseVars, NEW p \in AtRest,
         at' = [at EXCEPT ![w] = p], UNCHANGED <<gen, stored, plan, upsert, artifact, uses>>,
         got' \in [Workers -> Seq(Payloads)], asked' \in [Workers -> Jobs \cup {NoJob}],
         \A v \in Workers \ {w} : held'[v] = held[v] /\ got'[v] = got[v] /\ asked'[v] = asked[v],
         ~Busy(w)', p \in {"idle", "claim"} => got'[w] = <<>>,
         p # "idle" => asked'[w] \in Jobs /\ status'[asked'[w]] # "ABSENT",
         p = "returned" => status'[asked'[w]] = "SUCCEEDED"
  PROVE  PreparationInv'
<1>1. PreparationTypeOK
  BY DEF PreparationInv
<1>2. at'[w] = p /\ at' \in [Workers -> AtRest \cup Looping \cup Ending]
      /\ \A v \in Workers \ {w} : at'[v] = at[v]
  BY <1>1 DEF PreparationTypeOK
<1>3. CallSound(w)'
  BY <1>2 DEF CallSound
<1>4. LoopSound(w)' /\ LinksSound(w)'
  BY <1>2 DEF LoopSound, LinksSound, AtRest, Looping
<1> QED
  BY <1>1, <1>2, <1>3, <1>4, QuietStep DEF PreparationTypeOK

LEMMA ClaimRefusedPreserves ==
  ASSUME PreparationInv, NEW w \in Workers, ClaimRefused(w) \/ ReplayPreparation(w)
  PROVE  PreparationInv'
<1>1. PreparationTypeOK /\ LeaseTypeOK /\ CallSound(w) /\ LeaseInv
  BY DEF PreparationInv, LeaseInv
<1>2. at[w] = "claim" /\ UNCHANGED <<sourceVars, workVars, cacheVars, got, asked>>
  BY DEF ClaimRefused, ReplayPreparation, At
<1>3. asked[w] \in Jobs /\ status[asked[w]] # "ABSENT" /\ ~Busy(w)
  BY <1>1, <1>2 DEF CallSound, AtRest
<1>4. CASE ClaimRefused(w)
  <2>1. at' = [at EXCEPT ![w] = "raised"] /\ held' = held
    BY <1>4 DEF ClaimRefused, GoTo, ExhaustJob, leaseVars
  <2>2. [LeaseNext]_leaseVars
    BY <1>3, <1>4 DEF ClaimRefused, LeaseNext
  <2>3. status'[asked[w]] # "ABSENT"
    BY <1>1, <1>3, <2>2, StatusLasts
  <2> QED
    BY <1>1, <1>2, <1>3, <2>1, <2>2, <2>3, RestingStep
       DEF AtRest, PreparationTypeOK, Busy, JobOf, sourceVars, workVars, cacheVars
<1>5. CASE ReplayPreparation(w)
  <2>1. PICK p \in {"returned", "raised"} : at' = [at EXCEPT ![w] = p]
    BY <1>5 DEF ReplayPreparation, GoTo
  <2>2. UNCHANGED leaseVars /\ status[asked[w]] = "SUCCEEDED"
    BY <1>5 DEF ReplayPreparation
  <2> QED
    BY <1>1, <1>2, <1>3, <2>1, <2>2, RestingStep
       DEF AtRest, PreparationTypeOK, Busy, JobOf, sourceVars, workVars, cacheVars, leaseVars
<1> QED
  BY <1>4, <1>5

LEMMA LeavePreserves ==
  ASSUME PreparationInv, NEW w \in Workers, Leave(w) \/ CrashPreparation(w)
  PROVE  PreparationInv'
<1>1. PreparationTypeOK /\ LeaseTypeOK /\ CallSound(w)
  BY DEF PreparationInv, LeaseInv
<1>2. Forget(w) /\ UNCHANGED <<sourceVars, workVars, cacheVars>>
  BY DEF Leave, CrashPreparation
<1>3. /\ [LeaseNext]_leaseVars /\ ~Busy(w)'
      /\ \A v \in Workers \ {w} : held'[v] = held[v]
  <2>1. CASE Leave(w)
    BY <1>1, <2>1 DEF Leave, CallSound, AtRest, leaseVars, Busy, JobOf
  <2>2. CASE CrashWorker(w)
    BY <1>1, <2>2 DEF CrashWorker, LeaseNext, LeaseTypeOK, Busy, JobOf, NoClaim
  <2>3. CASE ~Busy(w) /\ UNCHANGED leaseVars
    BY <2>3 DEF leaseVars, Busy, JobOf
  <2> QED
    BY <2>1, <2>2, <2>3 DEF CrashPreparation
<1>4. /\ at' = [at EXCEPT ![w] = "idle"] /\ got'[w] = <<>>
      /\ got' \in [Workers -> Seq(Payloads)] /\ asked' \in [Workers -> Jobs \cup {NoJob}]
      /\ \A v \in Workers \ {w} : got'[v] = got[v] /\ asked'[v] = asked[v]
  <2>1. <<>> \in Seq(Payloads)
    OBVIOUS
  <2> QED
    BY <1>1, <1>2, <2>1 DEF PreparationTypeOK, Forget, GoTo
<1> QED
  BY <1>2, <1>3, <1>4, RestingStep DEF AtRest, sourceVars, workVars, cacheVars

\* The call goes on in the loop and changes nothing but that.
LEMMA LoopingStep ==
  ASSUME PreparationInv, NEW w \in Workers, at[w] \in Looping, NEW p \in Looping \cup Ending,
         at' = [at EXCEPT ![w] = p],
         UNCHANGED <<leaseVars, gen, stored, plan, upsert, artifact, uses, asked>>,
         got' \in [Workers -> Seq(Payloads)],
         \A v \in Workers \ {w} : got'[v] = got[v],
         LoopSound(w)', LinksSound(w)'
  PROVE  PreparationInv'
<1>1. PreparationTypeOK /\ CallSound(w)
  BY DEF PreparationInv
<1>2. at'[w] = p /\ at' \in [Workers -> AtRest \cup Looping \cup Ending]
      /\ \A v \in Workers \ {w} : at'[v] = at[v]
  BY <1>1 DEF PreparationTypeOK
<1>3. CallSound(w)'
  BY <1>1, <1>2 DEF CallSound, leaseVars, JobOf, Busy, AtRest, Looping, Ending
<1>4. /\ [LeaseNext]_leaseVars
      /\ \A v \in Workers \ {w} : held'[v] = held[v] /\ asked'[v] = asked[v]
  BY DEF leaseVars
<1> QED
  BY <1>1, <1>2, <1>3, <1>4, QuietStep DEF PreparationTypeOK

LEMMA StartPreserves ==
  ASSUME PreparationInv, NEW w \in Workers, StartTask(w)
  PROVE  PreparationInv'
<1>1. at[w] = "start" /\ at[w] \in Looping
  BY DEF StartTask, At, Looping
<1>2. CASE Refused(w, Chunk(w))
  BY <1>1, <1>2, RefusedPreserves
<1>3. CASE ~Refused(w, Chunk(w))
  <2>1. /\ at' = [at EXCEPT ![w] = "read"]
        /\ UNCHANGED <<leaseVars, sourceVars, plan, upsert, cacheVars, got, asked>>
    BY <1>3 DEF StartTask, GoTo
  <2>2. LoopSound(w) /\ LinksSound(w) /\ PreparationTypeOK
    BY DEF PreparationInv
  <2>3. at'[w] = "read"
    BY <2>1, <2>2 DEF PreparationTypeOK
  <2>4. LoopSound(w)'
    BY <1>1, <2>1, <2>2, <2>3 DEF LoopSound
  <2>5. LinksSound(w)'
    BY <1>1, <2>1, <2>2, <2>3
       DEF LinksSound, Looping, Fresh, sourceVars, cacheVars, KeyAt, ChunkAt
  <2> QED
    BY <1>1, <2>1, <2>2, <2>4, <2>5, LoopingStep
       DEF Looping, PreparationTypeOK, sourceVars, cacheVars
<1> QED
  BY <1>2, <1>3

\* One more payload.
LEMMA OneMore ==
  ASSUME PreparationInv, NEW w \in Workers, NEW payload \in Payloads,
         got' = [got EXCEPT ![w] = Append(@, payload)]
  PROVE  /\ got' \in [Workers -> Seq(Payloads)] /\ Len(got'[w]) = Len(got[w]) + 1
         /\ Len(got[w]) \in Nat
         /\ \A v \in Workers \ {w} : got'[v] = got[v]
         /\ got'[w][Len(got[w]) + 1] = payload
         /\ \A n \in 1..Len(got[w]) : got'[w][n] = got[w][n]
<1>1. got \in [Workers -> Seq(Payloads)]
  BY DEF PreparationInv, PreparationTypeOK
<1>2. got'[w] = Append(got[w], payload) /\ got[w] \in Seq(Payloads)
      /\ \A v \in Workers \ {w} : got'[v] = got[v]
  BY <1>1
<1>3. Append(got[w], payload) \in Seq(Payloads)
  BY <1>2
<1>4. got' \in [Workers -> Seq(Payloads)]
  BY <1>1, <1>3
<1> QED
  BY <1>2, <1>4

\* What the loop wants next is one of the job's artifacts.
LEMMA WantedKey ==
  ASSUME PreparationInv, NEW w \in Workers, at[w] \in {"start", "read", "derive"}
  PROVE  /\ Len(got[w]) \in Nat /\ Len(got[w]) + 1 \in 1..Size(asked[w])
         /\ Wanted(w) = KeyAt(asked[w], Len(got[w]) + 1)
         /\ Wanted(w) \in Keys /\ Wanted(w)[1] \in {"EXTRACTION", "EMBEDDING"}
<1>1. asked[w] \in Jobs /\ JobOf(w) = asked[w]
  BY RunningCall DEF AtRest
<1>2. Len(got[w]) \in Nat /\ LoopSound(w)
  BY GotTyped DEF PreparationInv
<1>3. Len(got[w]) + 1 \in 1..Size(asked[w])
  BY <1>1, <1>2, SizeOfJob DEF LoopSound
<1> QED
  BY <1>1, <1>2, <1>3, KeyOfJob DEF Wanted

LEMMA ReadPreserves ==
  ASSUME PreparationInv, NEW w \in Workers, ReadArtifact(w)
  PROVE  PreparationInv'
<1>1. at[w] = "read" /\ at[w] \in Looping /\ UNCHANGED <<leaseVars, sourceVars, workVars, cacheVars, asked>>
  BY DEF ReadArtifact, At, Looping
<1>2. LoopSound(w) /\ LinksSound(w) /\ PreparationTypeOK
  BY DEF PreparationInv
<1>3. /\ Len(got[w]) \in Nat /\ Len(got[w]) + 1 \in 1..Size(asked[w])
      /\ Wanted(w) \in Keys
  BY <1>1, WantedKey
<1>4. asked[w] \in Jobs
  BY <1>1, RunningCall DEF AtRest
<1>5. Size(asked[w]) \in Nat
  BY <1>4, SizeOfJob
<1>6. CASE artifact[Wanted(w)] = NoPayload
  <2>1. at' = [at EXCEPT ![w] = "derive"] /\ got' = got
    BY <1>6 DEF ReadArtifact, GoTo
  <2>2. at'[w] = "derive"
    BY <1>2, <2>1 DEF PreparationTypeOK
  <2>3. LoopSound(w)'
    BY <1>1, <1>2, <2>1, <2>2 DEF LoopSound
  <2>4. LinksSound(w)'
    BY <1>1, <1>2, <2>1, <2>2
       DEF LinksSound, Looping, Fresh, sourceVars, workVars, cacheVars, KeyAt, ChunkAt
  <2> QED
    BY <1>1, <1>2, <2>1, <2>3, <2>4, LoopingStep
       DEF Looping, PreparationTypeOK, sourceVars, workVars, cacheVars
<1>7. CASE artifact[Wanted(w)] # NoPayload
  <2>1. PICK payload : payload = artifact[Wanted(w)]
    OBVIOUS
  <2>2. payload \in Payloads
    BY <1>2, <1>3, <1>7, <2>1 DEF PreparationTypeOK
  <2>3. at' = [at EXCEPT ![w] = "link"] /\ got' = [got EXCEPT ![w] = Append(@, payload)]
    BY <1>7, <2>1 DEF ReadArtifact, GoTo
  <2>4. at'[w] = "link"
    BY <1>2, <2>3 DEF PreparationTypeOK
  <2>5. /\ got' \in [Workers -> Seq(Payloads)] /\ Len(got'[w]) = Len(got[w]) + 1
        /\ \A v \in Workers \ {w} : got'[v] = got[v]
    BY <2>2, <2>3, OneMore
  <2>6. LoopSound(w)'
    BY <1>1, <1>3, <2>4, <2>5 DEF LoopSound, Size
  <2>7. ASSUME Fresh(asked[w])', NEW n \in 1..Len(got'[w]), n < Len(got'[w])
        PROVE  <<asked[w], KeyAt(asked[w], n)>> \in uses
    BY <1>1, <1>2, <1>3, <2>5, <2>7 DEF LinksSound, Looping, Fresh, sourceVars, workVars
  <2>8. LinksSound(w)'
    BY <1>1, <2>4, <2>7 DEF LinksSound, cacheVars, KeyAt, ChunkAt
  <2> QED
    BY <1>1, <2>3, <2>5, <2>6, <2>8, LoopingStep DEF Looping, sourceVars, workVars, cacheVars
<1> QED
  BY <1>6, <1>7

LEMMA AfterArtifact ==
  ASSUME NEW j \in Jobs, NEW n \in 1..Size(j)
  PROVE  /\ After(n) \in {"complete", "read"}
         /\ After(n) = "complete" => n % 2 = 0
         /\ After(n) = "read" => n < Size(j)
<1>1. PICK m : m = Len(TextsOf[j])
  OBVIOUS
<1>2. m \in Nat /\ Size(j) = 2 * m
  BY <1>1, SizeOfJob DEF Size
<1>3. n % 2 # 0 => n < 2 * m
  BY <1>2
<1> QED
  BY <1>2, <1>3, KindsAreTwo DEF After

\* A step that writes to the cache or links to it.
LEMMA CachingStep ==
  ASSUME PreparationInv, NEW w \in Workers, at[w] \in Looping, NEW p \in Looping,
         at' = [at EXCEPT ![w] = p],
         UNCHANGED <<leaseVars, gen, stored, plan, upsert, asked>>,
         artifact' \in [Keys -> Payloads \cup {NoPayload}],
         \A k \in Keys : artifact[k] # NoPayload => artifact'[k] = artifact[k],
         NEW j \in Jobs, NEW k \in Keys, uses' = uses \cup {<<j, k>>}, artifact'[k] # NoPayload,
         got' \in [Workers -> Seq(Payloads)],
         \A v \in Workers \ {w} : got'[v] = got[v],
         LoopSound(w)', LinksSound(w)'
  PROVE  PreparationInv'
<1>1. PreparationTypeOK /\ CallSound(w) /\ CacheSound /\ OneVectorPerText
  BY DEF PreparationInv
<1>2. at'[w] = p /\ at' \in [Workers -> AtRest \cup Looping \cup Ending]
      /\ \A v \in Workers \ {w} : at'[v] = at[v]
  BY <1>1 DEF PreparationTypeOK
<1>3. CallSound(w)'
  BY <1>1, <1>2 DEF CallSound, leaseVars, JobOf, Busy, AtRest, Looping
<1>4. /\ [LeaseNext]_leaseVars
      /\ \A v \in Workers \ {w} : held'[v] = held[v] /\ asked'[v] = asked[v]
  BY DEF leaseVars
<1>5. PreparationTypeOK'
  BY <1>1, <1>2 DEF PreparationTypeOK
<1>6. \A u \in uses : u[2] \in Keys
  BY <1>1 DEF PreparationTypeOK
<1>7. CacheSound'
  <2>1. \A u \in uses' : artifact'[u[2]] # NoPayload
    BY <1>1, <1>6 DEF CacheSound
  <2>2. \A i \in Jobs : plan'[i].gen \in Nat /\ plan'[i].gen <= gen'[DocumentOf[i]]
    BY <1>1 DEF CacheSound
  <2>3. \A d \in Documents : \A v \in stored'[d] :
          \E i \in JobsOf(d) : <<i, <<"EMBEDDING", v[1]>>>> \in uses'
    BY <1>1 DEF CacheSound
  <2> QED
    BY <2>1, <2>2, <2>3 DEF CacheSound, JobsOf
<1>8. ASSUME NEW d \in Documents, NEW v \in stored[d]
      PROVE  artifact'[<<"EMBEDDING", v[1]>>] = v[2]
  <2>1. PICK i \in JobsOf(d) : <<i, <<"EMBEDDING", v[1]>>>> \in uses
    BY <1>1 DEF CacheSound
  <2>2. <<"EMBEDDING", v[1]>> \in Keys /\ artifact[<<"EMBEDDING", v[1]>>] # NoPayload
    BY <1>1, <1>6, <2>1 DEF CacheSound
  <2> QED
    BY <1>1, <2>2 DEF OneVectorPerText
<1>9. OneVectorPerText'
  BY <1>8 DEF OneVectorPerText
<1> QED
  BY <1>2, <1>3, <1>4, <1>5, <1>7, <1>9, CallStep

LEMMA PersistPreserves ==
  ASSUME PreparationInv, NEW w \in Workers, PersistArtifact(w)
  PROVE  PreparationInv'
<1>1. at[w] = "derive" /\ at[w] \in Looping
  BY DEF PersistArtifact, At, Looping
<1>2. LoopSound(w) /\ LinksSound(w) /\ PreparationTypeOK
  BY DEF PreparationInv
<1>3. PICK k : k = Wanted(w)
  OBVIOUS
<1>4. /\ Len(got[w]) \in Nat /\ Len(got[w]) + 1 \in 1..Size(asked[w])
      /\ k = KeyAt(asked[w], Len(got[w]) + 1) /\ k \in Keys /\ k[1] \in {"EXTRACTION", "EMBEDDING"}
  BY <1>1, <1>3, WantedKey
<1>5. asked[w] \in Jobs /\ JobOf(w) = asked[w]
  BY <1>1, RunningCall DEF AtRest
<1>6. CASE Refused(w, Chunk(w))
  BY <1>1, <1>6, RefusedPreserves
<1>7. CASE ~Refused(w, Chunk(w))
  <2>1. PICK out \in Outputs[k[1]] :
          /\ IF artifact[k] \in {NoPayload, out}
             THEN /\ artifact' = [artifact EXCEPT ![k] = out]
                  /\ uses' = uses \cup {<<asked[w], k>>}
                  /\ Take(w, out)
             ELSE Fail(w, FALSE) /\ UNCHANGED <<cacheVars, got>>
          /\ UNCHANGED <<leaseVars, sourceVars, workVars, asked>>
    BY <1>3, <1>5, <1>7 DEF PersistArtifact
  <2>2. out \in Payloads /\ out # NoPayload
    BY <1>4, <2>1, PreparationAssumption, KindsAreTwo DEF Payloads
  <2>3. CASE artifact[k] \notin {NoPayload, out}
    <3>1. at' \in {[at EXCEPT ![w] = p] : p \in Ending}
      BY <2>1, <2>3 DEF Fail, GoTo, Ending
    <3> QED
      BY <1>1, <1>2, <2>1, <2>3, <3>1, FailingStep
         DEF PreparationTypeOK, sourceVars, workVars, cacheVars
  <2>4. CASE artifact[k] \in {NoPayload, out}
    <3>1. PICK n : n = Len(got[w]) + 1
      OBVIOUS
    <3>2. PICK p : p = After(n)
      OBVIOUS
    <3>3. /\ artifact' = [artifact EXCEPT ![k] = out]
          /\ uses' = uses \cup {<<asked[w], k>>}
          /\ got' = [got EXCEPT ![w] = Append(@, out)]
          /\ at' = [at EXCEPT ![w] = p]
          /\ UNCHANGED <<leaseVars, sourceVars, workVars, asked>>
      BY <2>1, <2>4, <3>1, <3>2 DEF Take, GoTo
    <3>4. n \in 1..Size(asked[w])
      BY <1>4, <3>1
    <3>5. p \in {"complete", "read"} /\ (p = "complete" => n % 2 = 0) /\ (p = "read" => n < Size(asked[w]))
      BY <1>5, <3>2, <3>4, AfterArtifact
    <3>6. at'[w] = p
      BY <1>2, <3>3 DEF PreparationTypeOK
    <3>7. /\ got' \in [Workers -> Seq(Payloads)] /\ Len(got'[w]) = n
          /\ \A v \in Workers \ {w} : got'[v] = got[v]
      BY <2>2, <3>1, <3>3, OneMore
    <3>8. LoopSound(w)'
      BY <3>3, <3>4, <3>5, <3>6, <3>7 DEF LoopSound, Size
    <3>9. ASSUME Fresh(asked[w])', NEW m \in 1..n
          PROVE  <<asked[w], KeyAt(asked[w], m)>> \in uses'
      <4>1. CASE m = n
        BY <1>4, <3>1, <3>3, <4>1
      <4>2. CASE m # n
        <5>1. m \in 1..Len(got[w])
          BY <1>4, <3>1, <4>2
        <5> QED
          BY <1>1, <1>2, <3>3, <3>9, <5>1 DEF LinksSound, Looping, Fresh, sourceVars, workVars
      <4> QED
        BY <4>1, <4>2
    <3>10. LinksSound(w)'
      BY <3>3, <3>7, <3>9 DEF LinksSound, KeyAt, ChunkAt
    <3>11. /\ artifact' \in [Keys -> Payloads \cup {NoPayload}] /\ artifact'[k] # NoPayload
           /\ \A l \in Keys : artifact[l] # NoPayload => artifact'[l] = artifact[l]
      BY <1>2, <1>4, <2>2, <2>4, <3>3 DEF PreparationTypeOK
    <3> QED
      BY <1>1, <1>4, <1>5, <3>3, <3>5, <3>7, <3>8, <3>10, <3>11, CachingStep
         DEF Looping, sourceVars, workVars
  <2> QED
    BY <2>3, <2>4
<1> QED
  BY <1>6, <1>7

LEMMA LinkPreserves ==
  ASSUME PreparationInv, NEW w \in Workers, LinkArtifact(w)
  PROVE  PreparationInv'
<1>1. at[w] = "link" /\ at[w] \in Looping
  BY DEF LinkArtifact, At, Looping
<1>2. LoopSound(w) /\ LinksSound(w) /\ PreparationTypeOK
  BY DEF PreparationInv
<1>3. asked[w] \in Jobs /\ JobOf(w) = asked[w]
  BY <1>1, RunningCall DEF AtRest
<1>4. PICK n : n = Len(got[w])
  OBVIOUS
<1>5. n \in 1..Size(asked[w])
  BY <1>1, <1>2, <1>4 DEF LoopSound
<1>6. PICK k : k = Taken(w)
  OBVIOUS
<1>7. k = KeyAt(asked[w], n) /\ k \in Keys
  BY <1>3, <1>4, <1>5, <1>6, KeyOfJob DEF Taken
<1>8. CASE Refused(w, Last(w))
  BY <1>1, <1>8, RefusedPreserves
<1>9. CASE ~Refused(w, Last(w)) /\ artifact[k] = NoPayload
  <2>1. /\ at' \in {[at EXCEPT ![w] = p] : p \in Ending}
        /\ UNCHANGED <<leaseVars, sourceVars, workVars, cacheVars, got, asked>>
    BY <1>6, <1>9 DEF LinkArtifact, Fail, GoTo, Ending, cacheVars
  <2> QED
    BY <1>1, <1>2, <2>1, FailingStep DEF PreparationTypeOK, sourceVars, workVars, cacheVars
<1>10. CASE ~Refused(w, Last(w)) /\ artifact[k] # NoPayload
  <2>1. PICK p : p = After(n)
    OBVIOUS
  <2>2. /\ uses' = uses \cup {<<asked[w], k>>} /\ at' = [at EXCEPT ![w] = p]
        /\ UNCHANGED <<leaseVars, sourceVars, workVars, artifact, got, asked>>
    BY <1>3, <1>4, <1>6, <1>10, <2>1 DEF LinkArtifact, Linked, GoTo
  <2>3. p \in {"complete", "read"} /\ (p = "complete" => n % 2 = 0) /\ (p = "read" => n < Size(asked[w]))
    BY <1>3, <1>5, <2>1, AfterArtifact
  <2>4. at'[w] = p
    BY <1>2, <2>2 DEF PreparationTypeOK
  <2>5. LoopSound(w)'
    BY <1>4, <1>5, <2>2, <2>3, <2>4 DEF LoopSound, Size
  <2>6. ASSUME Fresh(asked[w])', NEW m \in 1..n
        PROVE  <<asked[w], KeyAt(asked[w], m)>> \in uses'
    <3>1. CASE m = n
      BY <1>7, <2>2, <3>1
    <3>2. CASE m # n
      <4>1. m < n
        BY <1>5, <3>2
      <4> QED
        BY <1>1, <1>2, <1>4, <2>2, <2>6, <4>1 DEF LinksSound, Looping, Fresh, sourceVars, workVars
    <3> QED
      BY <3>1, <3>2
  <2>7. LinksSound(w)'
    BY <1>4, <2>2, <2>6 DEF LinksSound, KeyAt, ChunkAt
  <2> QED
    BY <1>1, <1>2, <1>3, <1>7, <1>10, <2>2, <2>3, <2>5, <2>7, CachingStep
       DEF Looping, sourceVars, workVars, PreparationTypeOK
<1> QED
  BY <1>8, <1>9, <1>10

LEMMA CompletePreserves ==
  ASSUME PreparationInv, NEW w \in Workers, CompleteTask(w)
  PROVE  PreparationInv'
<1>1. at[w] = "complete" /\ at[w] \in Looping
  BY DEF CompleteTask, At, Looping
<1>2. LoopSound(w) /\ LinksSound(w) /\ PreparationTypeOK
  BY DEF PreparationInv
<1>3. asked[w] \in Jobs /\ JobOf(w) = asked[w]
  BY <1>1, RunningCall DEF AtRest
<1>4. PICK n, m : n = Len(got[w]) /\ m = Len(TextsOf[asked[w]])
  OBVIOUS
<1>5. n \in 1..(2 * m) /\ n % 2 = 0 /\ m \in Nat /\ Size(asked[w]) = 2 * m
      /\ Chunks(asked[w]) = 1..m
  BY <1>1, <1>2, <1>3, <1>4, SizeOfJob DEF LoopSound, Size
<1>6. CASE Refused(w, Last(w))
  BY <1>1, <1>6, RefusedPreserves
<1>7. CASE ~Refused(w, Last(w))
  <2>1. PICK p : p = IF Chunk(w) \in Chunks(asked[w]) THEN "start" ELSE "ingest"
    OBVIOUS
  <2>2. /\ at' = [at EXCEPT ![w] = p]
        /\ UNCHANGED <<leaseVars, sourceVars, plan, upsert, cacheVars, got, asked>>
    BY <1>3, <1>7, <2>1 DEF CompleteTask, GoTo
  <2>3. Chunk(w) = ((n + 1 - 1) \div 2) + 1
    BY <1>4, KindsAreTwo DEF Chunk, ChunkAt
  <2>4. (p = "start" => n < 2 * m) /\ (p = "ingest" => n = 2 * m) /\ p \in {"start", "ingest"}
    BY <1>5, <2>1, <2>3
  <2>5. at'[w] = p
    BY <1>2, <2>2 DEF PreparationTypeOK
  <2>6. LoopSound(w)'
    BY <1>4, <1>5, <2>2, <2>4, <2>5 DEF LoopSound, Size
  <2>7. LinksSound(w)'
    BY <1>1, <1>2, <2>2, <2>4, <2>5
       DEF LinksSound, Looping, Fresh, sourceVars, cacheVars, KeyAt, ChunkAt
  <2> QED
    BY <1>1, <1>2, <2>2, <2>4, <2>6, <2>7, LoopingStep
       DEF Looping, PreparationTypeOK, sourceVars, cacheVars
<1> QED
  BY <1>6, <1>7

-----------------------------------------------------------------------------

\* Under a source that has not changed the cache still has every payload of the
\* call, so that the staging of ingest() has nothing to write.
LEMMA CacheAtIngest ==
  ASSUME PreparationInv, NEW w \in Workers, at[w] = "ingest", Fresh(asked[w]), Compatible(w)
  PROVE  /\ \A n \in 1..Len(got[w]) : <<asked[w], KeyAt(asked[w], n)>> \in uses
         /\ \A n \in 1..Len(got[w]) : artifact[KeyAt(asked[w], n)] = got[w][n]
         /\ \A k \in KeysOf(asked[w]) : <<asked[w], k>> \in uses /\ artifact[k] # NoPayload
<1>1. asked[w] \in Jobs /\ JobOf(w) = asked[w]
  BY RunningCall DEF AtRest
<1>2. got[w] \in Seq(Payloads) /\ Len(got[w]) = Size(asked[w])
  BY GotTyped DEF PreparationInv, LoopSound
<1>3. \A n \in 1..Len(got[w]) : <<asked[w], KeyAt(asked[w], n)>> \in uses
  BY DEF PreparationInv, LinksSound, Looping
<1>4. \A u \in uses : artifact[u[2]] # NoPayload
  BY DEF PreparationInv, CacheSound
<1>5. ASSUME NEW n \in 1..Len(got[w])
      PROVE  artifact[KeyAt(asked[w], n)] = got[w][n]
  <2>1. PICK k : k = KeyAt(asked[w], n)
    OBVIOUS
  <2>2. artifact[k] # NoPayload
    BY <1>3, <1>4, <2>1
  <2>3. n \in DOMAIN got[w]
    BY <1>2
  <2> QED
    BY <1>1, <2>1, <2>2, <2>3 DEF Compatible
<1>6. ASSUME NEW k \in KeysOf(asked[w])
      PROVE  <<asked[w], k>> \in uses /\ artifact[k] # NoPayload
  <2>1. PICK n \in 1..(2 * Len(TextsOf[asked[w]])) : k = KeyAt(asked[w], n)
    BY <1>6, KindsAreTwo DEF KeysOf
  <2>2. <<asked[w], k>> \in uses
    BY <1>2, <1>3, <2>1 DEF Size
  <2> QED
    BY <1>4, <2>2
<1> QED
  BY <1>3, <1>5, <1>6

LEMMA IngestPreserves ==
  ASSUME PreparationInv, NEW w \in Workers, Ingest(w)
  PROVE  PreparationInv'
<1>1. at[w] = "ingest" /\ at[w] \in Looping
  BY DEF Ingest, At, Looping
<1>2. PreparationTypeOK /\ CallSound(w) /\ CacheSound /\ OneVectorPerText
  BY DEF PreparationInv
<1>3. asked[w] \in Jobs /\ JobOf(w) = asked[w]
  BY <1>1, RunningCall DEF AtRest
<1>4. PICK j, d : j = asked[w] /\ d = DocumentOf[j]
  OBVIOUS
<1>5. j \in Jobs /\ d \in Documents
  BY <1>3, <1>4, PreparationAssumption
<1>6. UNCHANGED <<leaseVars, gen, plan, task, got, asked>>
  BY DEF Ingest
<1>7. CASE /\ at' \in {[at EXCEPT ![w] = p] : p \in Ending}
           /\ UNCHANGED <<stored, cacheVars>>
           /\ upsert' = upsert \/ \E s \in {"SUCCEEDED", "FAILED"} : upsert' = [upsert EXCEPT ![j] = s]
  <2>1. upsert' \in [Jobs -> {"ABSENT", "OPEN", "SUCCEEDED", "FAILED"}]
    BY <1>2, <1>7 DEF PreparationTypeOK
  <2> QED
    BY <1>1, <1>6, <1>7, <2>1, FailingStep DEF cacheVars
<1>8. CASE /\ Fresh(j) /\ Compatible(w)
           /\ upsert' = [upsert EXCEPT ![j] = "SUCCEEDED"]
           /\ stored' = [stored EXCEPT ![d] = @ \cup Vectors(w)]
           /\ artifact' = [k \in Keys |->
                    IF artifact[k] = NoPayload /\ k \in KeysOf(j)
                    THEN got[w][CHOOSE n \in DOMAIN got[w] : KeyAt(j, n) = k]
                    ELSE artifact[k]]
           /\ uses' = uses \cup {<<j, k>> : k \in KeysOf(j)}
           /\ at' = [at EXCEPT ![w] = "finish"]
  <2>1. /\ \A n \in 1..Len(got[w]) : <<j, KeyAt(j, n)>> \in uses
        /\ \A n \in 1..Len(got[w]) : artifact[KeyAt(j, n)] = got[w][n]
        /\ \A k \in KeysOf(j) : <<j, k>> \in uses /\ artifact[k] # NoPayload
    BY <1>1, <1>4, <1>8, CacheAtIngest
  <2>2. uses' = uses
    BY <1>8, <2>1
  <2>3. artifact' = artifact
    <3>1. artifact' = [k \in Keys |-> artifact[k]]
      BY <1>8, <2>1
    <3> QED
      BY <1>2, <3>1 DEF PreparationTypeOK
  <2>4. ASSUME NEW v \in Vectors(w)
        PROVE  /\ v \in Texts \X Payloads /\ <<j, <<"EMBEDDING", v[1]>>>> \in uses
               /\ artifact[<<"EMBEDDING", v[1]>>] = v[2]
    <3>1. PICK n \in Positions(w, "EMBEDDING") : v = <<KeyAt(j, n)[2], got[w][n]>>
      BY <1>3, <1>4 DEF Vectors
    <3>2. n \in 1..Len(got[w]) /\ KeyAt(j, n)[1] = "EMBEDDING" /\ got[w][n] \in Payloads
      BY <1>3, <1>4, <3>1, GotTyped DEF Positions
    <3>3. PICK k : k = KeyAt(j, n)
      OBVIOUS
    <3>4. n \in 1..Size(j)
      BY <1>1, <1>4, <3>2 DEF PreparationInv, LoopSound
    <3>5. k = <<"EMBEDDING", k[2]>> /\ k[2] \in Texts
      BY <1>5, <3>2, <3>3, <3>4, KeyOfJob
    <3>6. v[1] = k[2] /\ v[2] = got[w][n] /\ v = <<v[1], v[2]>>
      BY <3>1, <3>3
    <3> QED
      BY <2>1, <3>2, <3>3, <3>5, <3>6
  <2>5. at'[w] = "finish" /\ at' \in [Workers -> AtRest \cup Looping \cup Ending]
        /\ \A v \in Workers \ {w} : at'[v] = at[v]
    BY <1>2, <1>8 DEF PreparationTypeOK, Ending
  <2>6. \A e \in Documents : stored'[e] = IF e = d THEN stored[d] \cup Vectors(w) ELSE stored[e]
    BY <1>2, <1>8 DEF PreparationTypeOK
  <2>7. stored' \in [Documents -> SUBSET (Texts \X Payloads)]
    <3>1. stored[d] \cup Vectors(w) \in SUBSET (Texts \X Payloads)
      BY <1>2, <1>5, <2>4 DEF PreparationTypeOK
    <3> QED
      BY <1>2, <1>8, <3>1 DEF PreparationTypeOK
  <2>8. PreparationTypeOK'
    BY <1>2, <1>6, <1>8, <2>2, <2>3, <2>5, <2>7 DEF PreparationTypeOK
  <2>9. CacheSound'
    <3>1. j \in JobsOf(d)
      BY <1>4, <1>5 DEF JobsOf
    <3>2. ASSUME NEW e \in Documents, NEW v \in stored'[e]
          PROVE  \E i \in JobsOf(e) : <<i, <<"EMBEDDING", v[1]>>>> \in uses
      <4>1. CASE v \in stored[e]
        BY <1>2, <4>1 DEF CacheSound
      <4>2. CASE v \notin stored[e]
        <5>1. e = d /\ v \in Vectors(w)
          BY <2>6, <4>2
        <5> QED
          BY <2>4, <3>1, <5>1
      <4> QED
        BY <4>1, <4>2
    <3> QED
      BY <1>2, <1>6, <2>2, <2>3, <3>2 DEF CacheSound, JobsOf
  <2>10. OneVectorPerText'
    BY <1>2, <2>3, <2>4, <2>6 DEF OneVectorPerText
  <2>11. CallSound(w)' /\ LoopSound(w)' /\ LinksSound(w)'
    BY <1>1, <1>2, <1>6, <2>5
       DEF CallSound, LoopSound, LinksSound, leaseVars, JobOf, Busy, AtRest, Looping
  <2>12. /\ [LeaseNext]_leaseVars
         /\ \A v \in Workers \ {w} :
               held'[v] = held[v] /\ at'[v] = at[v] /\ got'[v] = got[v] /\ asked'[v] = asked[v]
    BY <1>6, <2>5 DEF leaseVars
  <2>13. gen' = gen /\ \A i \in Jobs : status[i] # "ABSENT" => plan'[i] = plan[i]
    BY <1>6
  <2>14. uses \subseteq uses'
    BY <2>2
  <2> QED
    BY <2>8, <2>9, <2>10, <2>11, <2>12, <2>13, <2>14, CallStep
<1>9. \A p \in {"finish", "refused"} :
         [at EXCEPT ![w] = p] \in {[at EXCEPT ![w] = q] : q \in Ending}
  BY DEF Ending
<1>10. JobOf(w) = j /\ DocumentOf[JobOf(w)] = d
  BY <1>3, <1>4
<1>11. CASE GoTo(w, "finish") /\ UNCHANGED <<active, stored, upsert, cacheVars>>
  BY <1>7, <1>9, <1>11 DEF GoTo
<1>12. CASE /\ upsert' = [upsert EXCEPT ![JobOf(w)] = "SUCCEEDED"]
            /\ GoTo(w, "finish") /\ UNCHANGED <<active, stored, cacheVars>>
  BY <1>7, <1>9, <1>10, <1>12 DEF GoTo
<1>13. CASE /\ upsert' = [upsert EXCEPT ![JobOf(w)] = "FAILED"]
            /\ Fail(w, FALSE) /\ UNCHANGED <<active, stored, cacheVars>>
  BY <1>7, <1>9, <1>10, <1>13 DEF GoTo, Fail
<1>14. ASSUME ~(GoTo(w, "finish") /\ UNCHANGED <<active, stored, upsert, cacheVars>>),
              ~(/\ upsert' = [upsert EXCEPT ![JobOf(w)] = "SUCCEEDED"]
                /\ GoTo(w, "finish") /\ UNCHANGED <<active, stored, cacheVars>>),
              ~(/\ upsert' = [upsert EXCEPT ![JobOf(w)] = "FAILED"]
                /\ Fail(w, FALSE) /\ UNCHANGED <<active, stored, cacheVars>>)
       PROVE  PreparationInv'
  <2>1. /\ Fresh(JobOf(w)) /\ Compatible(w)
        /\ upsert' = [upsert EXCEPT ![JobOf(w)] = "SUCCEEDED"]
        /\ stored' = [stored EXCEPT ![DocumentOf[JobOf(w)]] = @ \cup Vectors(w)]
        /\ artifact' = [k \in Keys |->
                 IF artifact[k] = NoPayload /\ k \in KeysOf(JobOf(w))
                 THEN got[w][CHOOSE n \in DOMAIN got[w] : KeyAt(JobOf(w), n) = k]
                 ELSE artifact[k]]
        /\ uses' = uses \cup {<<JobOf(w), k>> : k \in KeysOf(JobOf(w))}
        /\ GoTo(w, "finish")
    BY <1>14, Zenon DEF Ingest
  <2> QED
    BY <1>8, <1>10, <2>1 DEF GoTo
<1> QED
  BY <1>11, <1>12, <1>13, <1>14

\* The other ways out of the loop.
LEMMA EndingPreserves ==
  ASSUME PreparationInv, NEW w \in Workers,
         ProviderFails(w) \/ IngestInterrupted(w) \/ MarkTaskFailed(w)
  PROVE  PreparationInv'
<1>1. PreparationTypeOK
  BY DEF PreparationInv
<1>2. at[w] \in Looping \cup Ending
  BY DEF ProviderFails, IngestInterrupted, MarkTaskFailed, At, Looping, Ending
<1>3. at' \in {[at EXCEPT ![w] = p] : p \in Ending}
  BY DEF ProviderFails, IngestInterrupted, MarkTaskFailed, Fail, GoTo, Ending
<1>4. UNCHANGED <<leaseVars, gen, stored, plan, artifact, uses, got, asked>>
  BY DEF ProviderFails, IngestInterrupted, MarkTaskFailed, sourceVars, workVars, cacheVars
<1>5. upsert' = upsert \/ upsert' = [upsert EXCEPT ![JobOf(w)] = "OPEN"]
  BY DEF ProviderFails, IngestInterrupted, MarkTaskFailed, workVars
<1>6. upsert' \in [Jobs -> {"ABSENT", "OPEN", "SUCCEEDED", "FAILED"}]
  BY <1>1, <1>5 DEF PreparationTypeOK
<1> QED
  BY <1>2, <1>3, <1>4, <1>6, FailingStep

LEMMA FinishPreserves ==
  ASSUME PreparationInv, NEW w \in Workers, FinishPreparation(w)
  PROVE  PreparationInv'
<1>1. PreparationTypeOK /\ LeaseTypeOK /\ LeaseInv
  BY DEF PreparationInv, LeaseInv
<1>2. at[w] = "finish" /\ at[w] \in Ending /\ UNCHANGED <<sourceVars, workVars, cacheVars, got, asked>>
  BY DEF FinishPreparation, At, Ending
<1>3. PICK j : j = asked[w]
  OBVIOUS
<1>4. j \in Jobs /\ JobOf(w) = j
  BY <1>2, <1>3, RunningCall DEF AtRest
<1>5. CASE FinishJob(w, "SUCCEEDED") /\ at' = [at EXCEPT ![w] = "returned"]
  <2>1. [LeaseNext]_leaseVars
    BY <1>5 DEF LeaseNext, Finished
  <2>2. /\ ~Busy(w)' /\ status'[j] = "SUCCEEDED"
        /\ \A v \in Workers \ {w} : held'[v] = held[v]
    BY <1>1, <1>4, <1>5 DEF FinishJob, LeaseTypeOK, Busy, JobOf, NoClaim
  <2> QED
    BY <1>1, <1>2, <1>3, <1>4, <1>5, <2>1, <2>2, RestingStep
       DEF AtRest, PreparationTypeOK, sourceVars, workVars, cacheVars
<1>6. CASE UNCHANGED leaseVars /\ at' \in {[at EXCEPT ![w] = p] : p \in Ending}
  BY <1>1, <1>2, <1>6, FailingStep DEF PreparationTypeOK, sourceVars, workVars, cacheVars
<1> QED
  BY <1>5, <1>6 DEF FinishPreparation, Fail, GoTo, Ending

LEMMA ReportPreserves ==
  ASSUME PreparationInv, NEW w \in Workers, ReportFailure(w)
  PROVE  PreparationInv'
<1>1. PreparationTypeOK /\ LeaseTypeOK /\ LeaseInv
  BY DEF PreparationInv, LeaseInv
<1>2. /\ at[w] \in Ending /\ at' = [at EXCEPT ![w] = "raised"]
      /\ UNCHANGED <<sourceVars, workVars, cacheVars, got, asked>>
  BY DEF ReportFailure, Ending, GoTo
<1>3. asked[w] \in Jobs /\ status[asked[w]] # "ABSENT"
  BY <1>2, RunningCall DEF AtRest, Ending
<1>4. PICK r \in BOOLEAN : RecordFailure(w, r)
  <2>1. PICK r : r = At(w, "report")
    OBVIOUS
  <2>2. RecordFailure(w, r)
    BY <2>1 DEF ReportFailure
  <2>3. r \in BOOLEAN
    BY <2>1 DEF At
  <2> QED
    BY <2>2, <2>3
<1>5. [LeaseNext]_leaseVars
  BY <1>4 DEF LeaseNext
<1>6. ~Busy(w)' /\ \A v \in Workers \ {w} : held'[v] = held[v]
  BY <1>1, <1>4 DEF RecordFailure, LeaseTypeOK, Busy, JobOf, NoClaim
<1>7. status'[asked[w]] # "ABSENT"
  BY <1>1, <1>3, <1>5, StatusLasts
<1> QED
  BY <1>1, <1>2, <1>3, <1>5, <1>6, <1>7, RestingStep
     DEF AtRest, PreparationTypeOK, sourceVars, workVars, cacheVars

LEMMA PreparePreserves ==
  ASSUME PreparationInv, NEW w \in Workers, Prepare(w)
  PROVE  PreparationInv'
BY ClaimPreserves, ClaimRefusedPreserves, StartPreserves, ReadPreserves, EndingPreserves,
   PersistPreserves, LinkPreserves, CompletePreserves, IngestPreserves, FinishPreserves,
   ReportPreserves DEF Prepare

\* A call begins with the job, registered now or found.
LEMMA EnsurePreserves ==
  ASSUME PreparationInv, NEW w \in Workers, NEW j \in Jobs, NEW p, EnsurePreparation(w, j, p)
  PROVE  PreparationInv'
<1>1. PreparationTypeOK /\ LeaseTypeOK /\ LeaseInv /\ CallSound(w) /\ LoopSound(w)
      /\ CacheSound /\ OneVectorPerText
  BY DEF PreparationInv, LeaseInv
<1>2. /\ at[w] = "idle" /\ p.gen = gen[DocumentOf[j]]
      /\ at' = [at EXCEPT ![w] = "claim"] /\ asked' = [asked EXCEPT ![w] = j]
      /\ UNCHANGED <<sourceVars, upsert, cacheVars, got>>
  BY DEF EnsurePreparation, At, GoTo
<1>3. [LeaseNext]_leaseVars /\ held' = held
  BY DEF EnsurePreparation, LeaseNext, RegisterJob, leaseVars
<1>4. status'[j] # "ABSENT"
  BY <1>1 DEF EnsurePreparation, RegisterJob, LeaseTypeOK, leaseVars
<1>5. /\ plan' = [i \in Jobs |-> plan'[i]]
      /\ \A i \in Jobs : plan'[i] = plan[i] \/ (status[i] = "ABSENT" /\ i = j /\ plan'[i] = p)
  BY <1>1 DEF EnsurePreparation, RegisterJob, PreparationTypeOK
<1>6. /\ at'[w] = "claim" /\ asked'[w] = j
      /\ at' \in [Workers -> AtRest \cup Looping \cup Ending]
      /\ asked' \in [Workers -> Jobs \cup {NoJob}]
      /\ \A v \in Workers \ {w} : at'[v] = at[v] /\ asked'[v] = asked[v]
  BY <1>1, <1>2 DEF PreparationTypeOK, AtRest
<1>7. PreparationTypeOK'
  BY <1>1, <1>2, <1>5, <1>6 DEF PreparationTypeOK, sourceVars, cacheVars
<1>8. ASSUME NEW i \in Jobs
      PROVE  plan'[i].gen \in Nat /\ plan'[i].gen <= gen[DocumentOf[i]]
  <2>1. plan'[i].gen = plan[i].gen \/ plan'[i].gen = gen[DocumentOf[i]]
    BY <1>2, <1>5
  <2>2. gen[DocumentOf[i]] \in Nat
    BY <1>1, PreparationAssumption DEF PreparationTypeOK
  <2> QED
    BY <1>1, <2>1, <2>2 DEF CacheSound
<1>9. CacheSound' /\ OneVectorPerText'
  BY <1>1, <1>2, <1>8 DEF CacheSound, OneVectorPerText, JobsOf, sourceVars, cacheVars
<1>10. got'[w] = <<>>
  BY <1>1, <1>2 DEF LoopSound
<1>11. CallSound(w)' /\ LoopSound(w)' /\ LinksSound(w)'
  BY <1>1, <1>2, <1>3, <1>4, <1>6, <1>10 DEF CallSound, LoopSound, LinksSound, AtRest, Looping, Busy, JobOf
<1> QED
  BY <1>2, <1>3, <1>5, <1>6, <1>7, <1>9, <1>11, CallStep DEF sourceVars, cacheVars

\* The deletion takes the vectors of the document with the uses that kept their
\* artifacts, and makes its plans stale.
LEMMA DeletePreserves ==
  ASSUME PreparationInv, NEW d \in Documents, DeleteSource(d)
  PROVE  PreparationInv'
<1>1. PICK left : left = {u \in uses : u[1] \notin JobsOf(d)}
  OBVIOUS
<1>2. /\ gen' = [gen EXCEPT ![d] = @ + 1]
      /\ stored' = [stored EXCEPT ![d] = {}]
      /\ uses' = left /\ artifact' = Collected(d, left)
      /\ UNCHANGED <<leaseVars, plan, upsert, at, got, asked>>
  BY <1>1 DEF DeleteSource, callVars
<1>3. PreparationTypeOK /\ CacheSound /\ OneVectorPerText /\ LeaseInv
  BY DEF PreparationInv
<1>4. /\ gen' \in [Documents -> Nat] /\ gen'[d] = gen[d] + 1
      /\ \A e \in Documents \ {d} : gen'[e] = gen[e]
      /\ \A e \in Documents : gen[e] \in Nat /\ gen[e] <= gen'[e]
  BY <1>2, <1>3 DEF PreparationTypeOK
<1>5. \A k \in Keys : /\ artifact'[k] \in {artifact[k], NoPayload}
                      /\ (\E u \in left : u[2] = k) => artifact'[k] = artifact[k]
  <2>1. \A u \in left : u = <<u[1], u[2]>> /\ u[1] \in Jobs
    BY <1>1, <1>3 DEF PreparationTypeOK
  <2> QED
    BY <1>2, <2>1 DEF Collected
<1>6. artifact' = [k \in Keys |-> artifact'[k]]
  BY <1>2 DEF Collected
<1>7. PreparationTypeOK'
  <2>1. artifact' \in [Keys -> Payloads \cup {NoPayload}]
    BY <1>3, <1>5, <1>6 DEF PreparationTypeOK
  <2>2. stored' \in [Documents -> SUBSET (Texts \X Payloads)] /\ uses' \subseteq Jobs \X Keys
    BY <1>1, <1>2, <1>3 DEF PreparationTypeOK
  <2> QED
    BY <1>2, <1>3, <1>4, <2>1, <2>2 DEF PreparationTypeOK
<1>8. CacheSound'
  <2>1. ASSUME NEW j \in Jobs
        PROVE  plan[j].gen \in Nat /\ plan[j].gen <= gen'[DocumentOf[j]]
    <3>1. PICK e \in Documents : e = DocumentOf[j]
      BY PreparationAssumption
    <3>2. plan[j].gen \in Nat /\ plan[j].gen <= gen[e]
      BY <1>3, <3>1 DEF CacheSound
    <3>3. plan[j].gen <= gen'[e]
      BY <1>4, <3>2
    <3> QED
      BY <3>1, <3>2, <3>3
  <2>2. \A u \in uses' : artifact'[u[2]] # NoPayload
    BY <1>1, <1>2, <1>3, <1>5 DEF CacheSound, PreparationTypeOK
  <2>3. ASSUME NEW e \in Documents, NEW v \in stored'[e]
        PROVE  e # d /\ v \in stored[e] /\ \E j \in JobsOf(e) : <<j, <<"EMBEDDING", v[1]>>>> \in left
    <3>1. e # d /\ v \in stored[e]
      BY <1>2, <1>3, <2>3 DEF PreparationTypeOK
    <3>2. PICK j \in JobsOf(e) : <<j, <<"EMBEDDING", v[1]>>>> \in uses
      BY <1>3, <3>1 DEF CacheSound
    <3>3. j \notin JobsOf(d)
      BY <3>1, <3>2 DEF JobsOf
    <3> QED
      BY <1>1, <3>1, <3>2, <3>3
  <2> QED
    BY <1>2, <2>1, <2>2, <2>3 DEF CacheSound, JobsOf
<1>9. OneVectorPerText'
  <2>1. ASSUME NEW e \in Documents, NEW v \in stored'[e]
        PROVE  artifact'[<<"EMBEDDING", v[1]>>] = v[2]
    <3>1. e # d /\ v \in stored[e]
      BY <1>2, <1>3, <2>1 DEF PreparationTypeOK
    <3>2. PICK j \in JobsOf(e) : <<j, <<"EMBEDDING", v[1]>>>> \in uses
      BY <1>3, <3>1 DEF CacheSound
    <3>3. PICK u : u = <<j, <<"EMBEDDING", v[1]>>>>
      OBVIOUS
    <3>4. u \in left /\ u[2] = <<"EMBEDDING", v[1]>> /\ u[2] \in Keys
      BY <1>1, <1>3, <3>1, <3>2, <3>3 DEF JobsOf, PreparationTypeOK
    <3>5. artifact[<<"EMBEDDING", v[1]>>] = v[2]
      BY <1>3, <3>1 DEF OneVectorPerText
    <3> QED
      BY <1>5, <3>4, <3>5
  <2> QED
    BY <2>1 DEF OneVectorPerText
<1>10. ASSUME NEW w \in Workers
       PROVE  CallSound(w)' /\ LoopSound(w)' /\ LinksSound(w)'
  <2>1. CallSound(w) /\ LinksSound(w)
    BY DEF PreparationInv
  <2>2. CallSound(w)' /\ LoopSound(w)'
    BY <1>2, CallKept DEF leaseVars
  <2>3. CASE at[w] \in Looping /\ Fresh(asked[w])'
    <3>1. asked[w] \in Jobs
      BY <2>1, <2>3 DEF CallSound, Looping
    <3>2. DocumentOf[asked[w]] # d
      BY <1>2, <1>3, <1>4, <2>3, <3>1 DEF Fresh, CacheSound, PreparationTypeOK
    <3>3. Fresh(asked[w])
      BY <1>2, <1>4, <2>3, <3>1, <3>2, PreparationAssumption DEF Fresh
    <3>4. \A n : <<asked[w], KeyAt(asked[w], n)>> \in uses => <<asked[w], KeyAt(asked[w], n)>> \in left
      BY <1>1, <3>2 DEF JobsOf
    <3> QED
      BY <1>2, <2>1, <2>2, <2>3, <3>3, <3>4 DEF LinksSound, KeyAt, ChunkAt
  <2>4. CASE ~(at[w] \in Looping /\ Fresh(asked[w])')
    BY <1>2, <2>2, <2>4 DEF LinksSound
  <2> QED
    BY <2>3, <2>4
<1>11. LeaseInv'
  BY <1>2, <1>3, LeaseInvStep DEF leaseVars
<1> QED
  BY <1>7, <1>8, <1>9, <1>10, <1>11 DEF PreparationInv

LEMMA RetirePreserves ==
  ASSUME PreparationInv, NEW d \in Documents, RetireSource(d)
  PROVE  PreparationInv'
<1>1. /\ gen' = [gen EXCEPT ![d] = @ + 1]
      /\ UNCHANGED <<leaseVars, stored, plan, upsert, artifact, uses, at, got, asked>>
  BY DEF RetireSource, callVars, workVars, cacheVars
<1>2. PreparationTypeOK /\ CacheSound /\ OneVectorPerText /\ LeaseInv
  BY DEF PreparationInv
<1>3. /\ gen' \in [Documents -> Nat] /\ gen'[d] = gen[d] + 1
      /\ \A e \in Documents \ {d} : gen'[e] = gen[e]
      /\ \A e \in Documents : gen[e] \in Nat /\ gen[e] <= gen'[e]
  BY <1>1, <1>2 DEF PreparationTypeOK
<1>4. PreparationTypeOK'
  BY <1>1, <1>2, <1>3 DEF PreparationTypeOK
<1>5. CacheSound' /\ OneVectorPerText'
  <2>1. ASSUME NEW j \in Jobs
        PROVE  plan[j].gen \in Nat /\ plan[j].gen <= gen'[DocumentOf[j]]
    <3>1. PICK e \in Documents : e = DocumentOf[j]
      BY PreparationAssumption
    <3>2. plan[j].gen \in Nat /\ plan[j].gen <= gen[e]
      BY <1>2, <3>1 DEF CacheSound
    <3>3. plan[j].gen <= gen'[e]
      BY <1>3, <3>2
    <3> QED
      BY <3>1, <3>2, <3>3
  <2> QED
    BY <1>1, <1>2, <2>1 DEF CacheSound, OneVectorPerText, JobsOf
<1>6. ASSUME NEW w \in Workers
      PROVE  CallSound(w)' /\ LoopSound(w)' /\ LinksSound(w)'
  <2>1. CallSound(w) /\ LinksSound(w)
    BY DEF PreparationInv
  <2>2. CallSound(w)' /\ LoopSound(w)'
    BY <1>1, CallKept DEF leaseVars
  <2>3. CASE at[w] \in Looping /\ Fresh(asked[w])'
    <3>1. asked[w] \in Jobs
      BY <2>1, <2>3 DEF CallSound, Looping
    <3>2. DocumentOf[asked[w]] # d
      BY <1>1, <1>2, <1>3, <2>3, <3>1 DEF Fresh, CacheSound, PreparationTypeOK
    <3>3. Fresh(asked[w])
      BY <1>1, <1>3, <2>3, <3>1, <3>2, PreparationAssumption DEF Fresh
    <3> QED
      BY <1>1, <2>1, <2>2, <2>3, <3>3 DEF LinksSound, KeyAt, ChunkAt
  <2>4. CASE ~(at[w] \in Looping /\ Fresh(asked[w])')
    BY <1>1, <2>2, <2>4 DEF LinksSound
  <2> QED
    BY <2>3, <2>4
<1>7. LeaseInv'
  BY <1>1, <1>2, LeaseInvStep DEF leaseVars
<1> QED
  BY <1>4, <1>5, <1>6, <1>7 DEF PreparationInv

\* A lease lapses, or nothing of the preparation changes.
LEMMA ExpirePreserves ==
  ASSUME PreparationInv, UNCHANGED preparationVars \/ \E j \in Jobs : Expire(j)
  PROVE  PreparationInv'
<1>1. /\ [LeaseNext]_leaseVars /\ held' = held
      /\ UNCHANGED <<gen, stored, plan, upsert, artifact, uses, at, got, asked>>
  BY DEF preparationVars, Expire, LeaseNext, LapseLease, leaseVars, sourceVars, workVars,
         cacheVars, callVars
<1>2. LeaseInv' /\ PreparationTypeOK'
  BY <1>1, LeaseInvStep DEF PreparationInv, PreparationTypeOK
<1>3. CacheSound' /\ OneVectorPerText'
  BY <1>1, CacheUnchanged
<1>4. ASSUME NEW w \in Workers
      PROVE  CallSound(w)' /\ LoopSound(w)' /\ LinksSound(w)'
  <2>1. CallSound(w)' /\ LoopSound(w)'
    BY <1>1, CallKept
  <2>2. LinksSound(w)'
    BY <1>1 DEF PreparationInv, LinksSound, Fresh, KeyAt, ChunkAt
  <2> QED
    BY <2>1, <2>2
<1> QED
  BY <1>2, <1>3, <1>4 DEF PreparationInv

LEMMA PreparationStarts == PreparationInit => PreparationInv
<1> SUFFICES ASSUME PreparationInit PROVE PreparationInv
  OBVIOUS
<1>1. LeaseInv
  BY LeaseInvInit DEF PreparationInit
<1>2. <<>> \in Seq(Payloads)
  OBVIOUS
<1>3. PreparationTypeOK
  BY <1>2 DEF PreparationInit, PreparationTypeOK, AtRest
<1>4. ASSUME NEW w \in Workers PROVE CallSound(w) /\ LoopSound(w) /\ LinksSound(w)
  BY DEF PreparationInit, LeaseInit, CallSound, LoopSound, LinksSound, AtRest, Looping, Busy,
         JobOf, NoClaim
<1>5. CacheSound /\ OneVectorPerText
  BY PreparationAssumption DEF PreparationInit, CacheSound, OneVectorPerText
<1> QED
  BY <1>1, <1>3, <1>4, <1>5 DEF PreparationInv

-----------------------------------------------------------------------------
(***************************************************************************)
(* The audits of the chunks (workflow.py): what a thread holds, and one lemma *)
(* for each step on a chunk.                                               *)
(***************************************************************************)

Audits == [run : Nat, recovered : BOOLEAN, usable : BOOLEAN]

\* Where a thread is before, or without, its audit, and where with it.
Unaudited == {"waiting", "final", "recover", "asking", "report", "done", "failed"}
Judged == {"save", "check", "persist", "outcome"}
Threads == [at : Unaudited \cup Judged,
            run : Nat, tries : Nat, audit : SUBSET Audits, done : SUBSET Audits]

CallsTypeOK ==
    /\ job \in [Constructions -> {"ABSENT", "RUNNING", "RETRY_WAIT", "COMPLETED", "FAILED"}]
    /\ captured = [j \in Constructions |-> captured[j]]
    /\ phase \in [Workers -> {"idle", "observed", "ensured", "preparing", "sync", "chunks", "upload"}]
    /\ doing \in [Workers -> Constructions \cup {NoJob}]
    /\ observed = [w \in Workers |-> observed[w]]
    /\ thread = [w \in Workers |-> thread[w]]

AuditTypeOK ==
    /\ final \in [Pieces -> SUBSET Audits]
    /\ records \in [Pieces -> SUBSET Nat]
    /\ outcome \in [Pieces -> SUBSET Audits]
    /\ lastRun \in Nat
    /\ \A w \in Workers : thread[w] \in [DOMAIN thread[w] -> Threads]
    /\ \A b \in answers : b.run \in Nat

\* Threads are there for the chunks of the construction the call is about.
CallKnown(w) ==
    /\ phase[w] \notin {"idle", "upload"} => doing[w] \in Constructions
    /\ DOMAIN thread[w] = IF In(w, "chunks") THEN Chunks(doing[w]) ELSE {}

\* An audit of a model's answers has them behind it, and what could be used has
\* records.
Kept(c, a) == Mode[c[1]] = "FEEDBACK" => \E b \in answers : b.chunk = c /\ b.run = a.run
Rests(c, a) == Kept(c, a) /\ (a.usable => a.run \in records[c])

\* A thread that is past the audit of its chunk has the only one, if no deletion
\* took it.
Sound(c, mine) ==
    /\ mine.at \in {"save", "check", "persist", "outcome"} => \E a \in Audits : mine.audit = {a}
    /\ c \notin collected =>
          /\ mine.at \in {"check", "persist", "outcome"} => mine.audit = final[c]
          /\ mine.at \in {"persist", "outcome"} => \A a \in mine.audit : Kept(c, a)
          /\ mine.at = "persist" => \A a \in mine.audit : a.usable
          /\ mine.at = "outcome" => \A a \in mine.audit : Rests(c, a)
ThreadSound(w, i) == Sound(Piece(w, i), thread[w][i])

ChunkSound(c) ==
    /\ \A a, b \in final[c] : a = b
    /\ \A a, b \in outcome[c] : a = b
    /\ job[c[1]] = "COMPLETED" => outcome[c] # {}
    /\ c \notin collected =>
          /\ records[c] \subseteq {a.run : a \in final[c]}
          /\ outcome[c] \subseteq final[c]
          /\ \A a \in outcome[c] : Rests(c, a)

AuditInv ==
    /\ CallsTypeOK /\ AuditTypeOK
    /\ \A w \in Workers : CallKnown(w) /\ \A i \in DOMAIN thread[w] : ThreadSound(w, i)
    /\ \A c \in Pieces : ChunkSound(c)

\* Thread i of call w becomes new, and the call stays at its chunks.
Working(w, i, new) ==
    /\ In(w, "chunks") /\ i \in DOMAIN thread[w] /\ new \in Threads
    /\ thread' = [thread EXCEPT ![w] = [@ EXCEPT ![i] = new]]
    /\ UNCHANGED <<preparationVars, captured, collected, phase, doing, observed>>

\* What every other thread and chunk relies on.
Growing ==
    /\ collected \subseteq collected'
    /\ \A c \in Pieces \ collected' :
          /\ final[c] # {} => final'[c] = final[c]
          /\ records[c] \subseteq records'[c]
          /\ \A b \in answers : b.chunk = c => b \in answers'

LEMMA WorkingThread ==
  ASSUME CallsTypeOK, AuditTypeOK, NEW w \in Workers, NEW i, NEW new, Working(w, i, new)
  PROVE  /\ thread' = [v \in Workers |-> thread'[v]]
         /\ \A v \in Workers : thread'[v] \in [DOMAIN thread[v] -> Threads]
         /\ \A v \in Workers : DOMAIN thread'[v] = DOMAIN thread[v]
         /\ \A v \in Workers : \A k \in DOMAIN thread[v] :
               thread'[v][k] = IF v = w /\ k = i THEN new ELSE thread[v][k]
<1>1. thread = [v \in Workers |-> thread[v]] /\ thread[w] \in [DOMAIN thread[w] -> Threads]
      /\ \A v \in Workers : thread[v] \in [DOMAIN thread[v] -> Threads]
  BY DEF CallsTypeOK, AuditTypeOK
<1>2. PICK t : t = [thread[w] EXCEPT ![i] = new]
  OBVIOUS
<1>3. thread' = [thread EXCEPT ![w] = t] /\ i \in DOMAIN thread[w] /\ new \in Threads
  BY <1>2 DEF Working
<1>4. t \in [DOMAIN thread[w] -> Threads] /\ DOMAIN t = DOMAIN thread[w] /\ t[i] = new
      /\ \A k \in DOMAIN thread[w] \ {i} : t[k] = thread[w][k]
  BY <1>1, <1>2, <1>3
<1>5. thread'[w] = t /\ \A v \in Workers \ {w} : thread'[v] = thread[v]
  BY <1>1, <1>3
<1>6. thread' = [v \in Workers |-> thread'[v]]
  BY <1>1, <1>3
<1> QED
  BY <1>1, <1>4, <1>5, <1>6

LEMMA PieceOfThread ==
  ASSUME NEW v \in Workers, CallKnown(v), NEW k \in DOMAIN thread[v]
  PROVE  /\ In(v, "chunks") /\ doing[v] \in Constructions /\ k \in Chunks(doing[v])
         /\ Piece(v, k) \in Pieces /\ Piece(v, k)[1] = doing[v]
<1>1. In(v, "chunks") /\ doing[v] \in Constructions /\ k \in Chunks(doing[v])
  BY DEF CallKnown, In
<1> QED
  BY <1>1 DEF Pieces, Piece

LEMMA SoundKept ==
  ASSUME Growing, NEW c \in Pieces, NEW mine, Sound(c, mine)
  PROVE  Sound(c, mine)'
<1>1. CASE c \in collected'
  BY <1>1 DEF Sound
<1>2. CASE c \notin collected'
  <2>1. c \notin collected
    BY <1>2 DEF Growing
  <2>2. \A a \in Audits : (Kept(c, a) => Kept(c, a)') /\ (Rests(c, a) => Rests(c, a)')
    BY <1>2 DEF Growing, Kept, Rests
  <2>3. mine.at \in {"check", "persist", "outcome"} => final'[c] = final[c]
    BY <1>2, <2>1 DEF Sound, Growing
  <2>4. mine.at \in {"persist", "outcome"} => \A a \in mine.audit : Kept(c, a)'
    BY <2>1, <2>2 DEF Sound
  <2>5. mine.at = "outcome" => \A a \in mine.audit : Rests(c, a)'
    BY <2>1, <2>2 DEF Sound
  <2> QED
    BY <2>1, <2>3, <2>4, <2>5 DEF Sound
<1> QED
  BY <1>1, <1>2

LEMMA ThreadKept ==
  ASSUME AuditInv, Growing, NEW v \in Workers, NEW k \in DOMAIN thread[v],
         thread'[v][k] = thread[v][k], doing'[v] = doing[v]
  PROVE  ThreadSound(v, k)'
<1>1. PICK c, mine : c = Piece(v, k) /\ mine = thread[v][k]
  OBVIOUS
<1>2. CallKnown(v) /\ Sound(c, mine)
  BY <1>1 DEF AuditInv, ThreadSound
<1>3. Sound(c, mine)'
  BY <1>1, <1>2, PieceOfThread, SoundKept
<1>4. Piece(v, k)' = c /\ thread'[v][k] = mine
  BY <1>1 DEF Piece
<1> QED
  BY <1>3, <1>4 DEF ThreadSound

LEMMA ChunkKept ==
  ASSUME AuditInv, Growing, NEW c \in Pieces,
         final'[c] = final[c], records'[c] = records[c], outcome'[c] = outcome[c],
         job'[c[1]] = "COMPLETED" => job[c[1]] = "COMPLETED" \/ outcome[c] # {}
  PROVE  ChunkSound(c)'
<1>1. ChunkSound(c) /\ \A a \in outcome[c] : a \in Audits
  BY DEF AuditInv, AuditTypeOK
<1>2. c \notin collected' => c \notin collected /\ \A a \in Audits : Rests(c, a) => Rests(c, a)'
  BY DEF Growing, Kept, Rests
<1> QED
  BY <1>1, <1>2 DEF ChunkSound

\* One thread of one call goes on.
LEMMA WorkPreserves ==
  ASSUME AuditInv, NEW w \in Workers, NEW i, NEW new, Working(w, i, new), Growing,
         job' \in [Constructions -> {"ABSENT", "RUNNING", "RETRY_WAIT", "COMPLETED", "FAILED"}],
         final' \in [Pieces -> SUBSET Audits], records' \in [Pieces -> SUBSET Nat],
         outcome' \in [Pieces -> SUBSET Audits], lastRun' \in Nat,
         \A b \in answers' : b.run \in Nat,
         NEW c, c = Piece(w, i), Sound(c, new)', \A d \in Pieces : ChunkSound(d)'
  PROVE  AuditInv'
<1>1. CallsTypeOK /\ AuditTypeOK
  BY DEF AuditInv
<1>2. /\ thread' = [v \in Workers |-> thread'[v]]
      /\ \A v \in Workers : thread'[v] \in [DOMAIN thread[v] -> Threads]
      /\ \A v \in Workers : DOMAIN thread'[v] = DOMAIN thread[v]
      /\ \A v \in Workers : \A k \in DOMAIN thread[v] :
            thread'[v][k] = IF v = w /\ k = i THEN new ELSE thread[v][k]
  BY <1>1, WorkingThread
<1>3. UNCHANGED <<captured, phase, doing, observed>>
  BY DEF Working
<1>4. CallsTypeOK' /\ AuditTypeOK'
  BY <1>1, <1>2, <1>3 DEF CallsTypeOK, AuditTypeOK
<1>5. ASSUME NEW v \in Workers PROVE CallKnown(v)'
  BY <1>2, <1>3 DEF AuditInv, CallKnown, In
<1>6. ASSUME NEW v \in Workers, NEW k \in DOMAIN thread'[v] PROVE ThreadSound(v, k)'
  <2>1. CASE v = w /\ k = i
    <3>1. Piece(v, k)' = c /\ thread'[v][k] = new
      BY <1>2, <1>3, <1>6, <2>1 DEF Piece
    <3> QED
      BY <3>1 DEF ThreadSound
  <2>2. CASE ~(v = w /\ k = i)
    BY <1>2, <1>3, <2>2, ThreadKept
  <2> QED
    BY <2>1, <2>2
<1> QED
  BY <1>4, <1>5, <1>6 DEF AuditInv

\* A thread that only reads, or is told, goes on.
LEMMA ThinkPreserves ==
  ASSUME AuditInv, NEW w \in Workers, NEW i, NEW new, Working(w, i, new), UNCHANGED auditVars,
         NEW c, c = Piece(w, i), Sound(c, new)
  PROVE  AuditInv'
<1>1. Growing
  BY DEF Growing, auditVars
<1>2. c \in Pieces
  BY PieceOfThread DEF AuditInv, Working
<1>3. Sound(c, new)'
  BY <1>1, <1>2, SoundKept
<1>4. \A d \in Pieces : ChunkSound(d)'
  BY <1>1, ChunkKept DEF auditVars
<1> QED
  BY <1>1, <1>3, <1>4, WorkPreserves DEF AuditInv, CallsTypeOK, AuditTypeOK, auditVars

\* The forms in which a thread goes on.
LEMMA GoingOn ==
  ASSUME CallsTypeOK, AuditTypeOK, NEW w \in Workers, NEW i \in DOMAIN thread[w],
         In(w, "chunks"), UNCHANGED <<preparationVars, captured, collected, phase, doing, observed>>,
         NEW place \in Unaudited \cup Judged, Go(w, i, place)
  PROVE  \E new : /\ Working(w, i, new) /\ new.at = place
                  /\ new.audit = thread[w][i].audit /\ new.done = thread[w][i].done
<1>1. PICK new : new = [thread[w][i] EXCEPT !.at = place]
  OBVIOUS
<1>2. new \in Threads /\ new.at = place
      /\ new.audit = thread[w][i].audit /\ new.done = thread[w][i].done
  <2>1. thread[w][i] \in Threads
    BY DEF AuditTypeOK
  <2> QED
    BY <1>1, <2>1 DEF Threads
<1>3. thread' = [thread EXCEPT ![w] = [@ EXCEPT ![i] = new]]
  BY <1>1 DEF Go, CallsTypeOK
<1> QED
  BY <1>2, <1>3 DEF Working

LEMMA GoingOnWith ==
  ASSUME CallsTypeOK, AuditTypeOK, NEW w \in Workers, NEW i \in DOMAIN thread[w],
         In(w, "chunks"), UNCHANGED <<preparationVars, captured, collected, phase, doing, observed>>,
         NEW place \in Judged, NEW a \in Audits, GoWith(w, i, place, a)
  PROVE  \E new : Working(w, i, new) /\ new.at = place /\ new.audit = {a}
<1>1. PICK new : new = [thread[w][i] EXCEPT !.at = place, !.audit = {a}]
  OBVIOUS
<1>2. new \in Threads /\ new.at = place /\ new.audit = {a}
  <2>1. thread[w][i] \in Threads
    BY DEF AuditTypeOK
  <2>2. place \in Unaudited \cup Judged /\ {a} \in SUBSET Audits
    OBVIOUS
  <2> QED
    BY <1>1, <2>1, <2>2 DEF Threads
<1>3. thread' = [thread EXCEPT ![w] = [@ EXCEPT ![i] = new]]
  BY <1>1 DEF GoWith, CallsTypeOK
<1> QED
  BY <1>2, <1>3 DEF Working

LEMMA Asking ==
  ASSUME CallsTypeOK, AuditTypeOK, NEW w \in Workers, NEW i \in DOMAIN thread[w],
         In(w, "chunks"), UNCHANGED <<preparationVars, captured, collected, phase, doing, observed>>,
         NEW run \in Nat, NEW n \in Nat, Ask(w, i, run, n)
  PROVE  \E new : Working(w, i, new) /\ new.at \in {"failed", "asking"}
<1>1. PICK place : place = IF Stopped(w) THEN "failed" ELSE "asking"
  OBVIOUS
<1>2. PICK new : new = [thread[w][i] EXCEPT !.at = place, !.run = run, !.tries = n]
  OBVIOUS
<1>3. new \in Threads /\ new.at \in {"failed", "asking"}
  <2>1. thread[w][i] \in Threads
    BY DEF AuditTypeOK
  <2>2. place \in {"failed", "asking"}
    BY <1>1
  <2> QED
    BY <1>2, <2>1, <2>2 DEF Threads, Unaudited
<1>4. thread' = [thread EXCEPT ![w] = [@ EXCEPT ![i] = new]]
  BY <1>1, <1>2 DEF Ask, CallsTypeOK
<1> QED
  BY <1>3, <1>4 DEF Working

LEMMA UnauditedSound ==
  ASSUME NEW c, NEW mine, mine.at \in Unaudited
  PROVE  Sound(c, mine)
BY DEF Sound, Unaudited

\* What the actions on a chunk have in common.
LEMMA AtPiece ==
  ASSUME AuditInv, NEW w \in Workers, NEW i, NEW place, Thread(w, i, place)
  PROVE  /\ CallsTypeOK /\ AuditTypeOK /\ In(w, "chunks") /\ i \in DOMAIN thread[w]
         /\ thread[w][i] \in Threads /\ thread[w][i].at = place
         /\ Piece(w, i) \in Pieces /\ doing[w] \in Constructions /\ Piece(w, i)[1] = doing[w]
         /\ ChunkSound(Piece(w, i)) /\ Sound(Piece(w, i), thread[w][i])
<1>1. CallsTypeOK /\ AuditTypeOK /\ CallKnown(w) /\ In(w, "chunks") /\ i \in DOMAIN thread[w]
      /\ thread[w][i].at = place /\ ThreadSound(w, i)
  BY DEF AuditInv, Thread
<1>2. Piece(w, i) \in Pieces /\ doing[w] \in Constructions /\ Piece(w, i)[1] = doing[w]
  BY <1>1, PieceOfThread
<1>3. thread[w][i] \in Threads
  BY <1>1 DEF AuditTypeOK
<1> QED
  BY <1>1, <1>2, <1>3 DEF AuditInv, ThreadSound

LEMMA ReadingPreserves ==
  ASSUME AuditInv, NEW w \in Workers, NEW i, ReadOutcome(w, i) \/ MissDeadline(w, i)
  PROVE  AuditInv'
<1>1. PICK place \in {"waiting", "asking"} : Thread(w, i, place)
  BY DEF ReadOutcome, MissDeadline
<1>2. PICK c : c = Piece(w, i)
  OBVIOUS
<1>3. /\ CallsTypeOK /\ AuditTypeOK /\ In(w, "chunks") /\ i \in DOMAIN thread[w]
      /\ thread[w][i] \in Threads /\ c \in Pieces
  BY <1>1, <1>2, AtPiece
<1>4. UNCHANGED <<preparationVars, auditVars, phase, doing, observed>>
  BY DEF ReadOutcome, MissDeadline
<1>5. \E new : Working(w, i, new) /\ new.at \in Unaudited
  <2>1. CASE ReadOutcome(w, i)
    <3>1. PICK readable : readable = Readable(c)
      OBVIOUS
    <3>2. readable \in SUBSET Audits
      BY <1>3, <3>1 DEF Readable, AuditTypeOK
    <3>3. PICK p : p = IF readable # {} /\ Mode[c[1]] # "FEEDBACK" THEN "done" ELSE "final"
      OBVIOUS
    <3>4. PICK new : new = [thread[w][i] EXCEPT !.at = p, !.done = readable]
      OBVIOUS
    <3>5. p \in {"done", "final"}
      BY <3>3
    <3>6. new \in Threads /\ new.at \in Unaudited
      BY <1>3, <3>2, <3>4, <3>5 DEF Threads, Unaudited
    <3>7. thread' = [thread EXCEPT ![w][i].at = p, ![w][i].done = readable]
      BY <1>2, <2>1, <3>1, <3>3 DEF ReadOutcome
    <3>8. thread' = [thread EXCEPT ![w] = [@ EXCEPT ![i] = new]]
      BY <1>3, <3>4, <3>7 DEF CallsTypeOK
    <3> QED
      BY <1>3, <1>4, <3>6, <3>8 DEF Working, auditVars
  <2>2. CASE MissDeadline(w, i)
    BY <1>3, <1>4, <2>2, GoingOn DEF MissDeadline, Unaudited, auditVars
  <2> QED
    BY <2>1, <2>2
<1> QED
  BY <1>2, <1>4, <1>5, ThinkPreserves, UnauditedSound

LEMMA ReadFinalPreserves ==
  ASSUME AuditInv, NEW w \in Workers, NEW i, ReadFinal(w, i)
  PROVE  AuditInv'
<1>1. PICK c : c = Piece(w, i)
  OBVIOUS
<1>2. /\ CallsTypeOK /\ AuditTypeOK /\ In(w, "chunks") /\ i \in DOMAIN thread[w]
      /\ thread[w][i] \in Threads /\ c \in Pieces /\ ChunkSound(c)
  BY <1>1, AtPiece DEF ReadFinal
<1>3. UNCHANGED <<preparationVars, captured, collected, auditVars, phase, doing, observed>>
  BY DEF ReadFinal, auditVars
<1>4. \E new : Working(w, i, new) /\ Sound(c, new)
  <2>1. ASSUME NEW a \in final[c], GoWith(w, i, "check", a)
        PROVE  \E new : Working(w, i, new) /\ Sound(c, new)
    <3>1. a \in Audits /\ final[c] = {a}
      BY <1>2 DEF AuditTypeOK, ChunkSound
    <3>2. PICK new : Working(w, i, new) /\ new.at = "check" /\ new.audit = {a}
      BY <1>2, <1>3, <2>1, <3>1, GoingOnWith DEF Judged
    <3> QED
      BY <3>1, <3>2 DEF Sound
  <2>2. ASSUME GoWith(w, i, "save", SourceAudit)
        PROVE  \E new : Working(w, i, new) /\ Sound(c, new)
    <3>1. PICK a : a = SourceAudit
      OBVIOUS
    <3>2. a \in Audits
      BY <3>1 DEF SourceAudit, Audit, Audits
    <3>3. GoWith(w, i, "save", a)
      BY <2>2, <3>1 DEF GoWith
    <3>4. PICK new : Working(w, i, new) /\ new.at = "save" /\ new.audit = {a}
      BY <1>2, <1>3, <3>2, <3>3, GoingOnWith DEF Judged
    <3> QED
      BY <3>2, <3>4 DEF Sound
  <2>3. ASSUME NEW p \in {"failed", "recover"}, Go(w, i, p)
        PROVE  \E new : Working(w, i, new) /\ Sound(c, new)
    BY <1>2, <1>3, <2>3, GoingOn, UnauditedSound DEF Unaudited
  <2>4. ASSUME Ask(w, i, 0, 0)
        PROVE  \E new : Working(w, i, new) /\ Sound(c, new)
    BY <1>2, <1>3, <2>4, Asking, UnauditedSound DEF Unaudited
  <2> QED
    BY <1>1, <2>1, <2>2, <2>3, <2>4 DEF ReadFinal
<1> QED
  BY <1>1, <1>3, <1>4, ThinkPreserves

LEMMA RecoverPreserves ==
  ASSUME AuditInv, NEW w \in Workers, NEW i, Recover(w, i)
  PROVE  AuditInv'
<1>1. PICK c : c = Piece(w, i)
  OBVIOUS
<1>2. /\ CallsTypeOK /\ AuditTypeOK /\ In(w, "chunks") /\ i \in DOMAIN thread[w]
      /\ thread[w][i] \in Threads
  BY <1>1, AtPiece DEF Recover
<1>3. UNCHANGED <<preparationVars, captured, collected, auditVars, phase, doing, observed>>
  BY DEF Recover, auditVars
<1>4. \E new : Working(w, i, new) /\ Sound(c, new)
  <2>1. ASSUME NEW b \in answers, GoWith(w, i, "save", Audit(b.run, TRUE, b.said = "USABLE"))
        PROVE  \E new : Working(w, i, new) /\ Sound(c, new)
    <3>1. PICK usable : usable = (b.said = "USABLE")
      OBVIOUS
    <3>2. PICK a : a = Audit(b.run, TRUE, usable)
      OBVIOUS
    <3>3. usable \in BOOLEAN
      BY <3>1
    <3>4. a \in Audits
      BY <1>2, <3>2, <3>3 DEF Audit, Audits, AuditTypeOK
    <3>5. GoWith(w, i, "save", a)
      BY <2>1, <3>1, <3>2 DEF GoWith
    <3>6. PICK new : Working(w, i, new) /\ new.at = "save" /\ new.audit = {a}
      BY <1>2, <1>3, <3>4, <3>5, GoingOnWith DEF Judged
    <3> QED
      BY <3>4, <3>6 DEF Sound
  <2>2. ASSUME Go(w, i, "failed")
        PROVE  \E new : Working(w, i, new) /\ Sound(c, new)
    BY <1>2, <1>3, <2>2, GoingOn, UnauditedSound DEF Unaudited
  <2>3. ASSUME Ask(w, i, 0, 0)
        PROVE  \E new : Working(w, i, new) /\ Sound(c, new)
    BY <1>2, <1>3, <2>3, Asking, UnauditedSound DEF Unaudited
  <2>4. \A a \in EndOfRun(Piece(w, i)) : a \in answers
    BY DEF EndOfRun, AnswersOf
  <2> QED
    BY <2>1, <2>2, <2>3, <2>4 DEF Recover, Recovered
<1> QED
  BY <1>1, <1>3, <1>4, ThinkPreserves

LEMMA CheckPreserves ==
  ASSUME AuditInv, NEW w \in Workers, NEW i, CheckAudit(w, i)
  PROVE  AuditInv'
<1>1. PICK c : c = Piece(w, i)
  OBVIOUS
<1>2. /\ CallsTypeOK /\ AuditTypeOK /\ In(w, "chunks") /\ i \in DOMAIN thread[w]
      /\ thread[w][i] \in Threads /\ c \in Pieces /\ ChunkSound(c)
      /\ Sound(c, thread[w][i]) /\ thread[w][i].at = "check"
  BY <1>1, AtPiece DEF CheckAudit
<1>3. UNCHANGED <<preparationVars, captured, collected, auditVars, phase, doing, observed>>
  BY DEF CheckAudit, auditVars
<1>4. PICK p : \E a \in thread[w][i].audit :
        /\ Go(w, i, p)
        /\ LET kept == Mode[c[1]] = "FEEDBACK" => \E b \in AnswersOf(c) : b.run = a.run
           IN  p = CASE ~kept -> "failed"
                     [] kept /\ thread[w][i].done # {} ->
                           IF thread[w][i].done = {a} THEN "done" ELSE "failed"
                     [] kept /\ thread[w][i].done = {} ->
                           IF IsPersisted(c, a) THEN "outcome" ELSE "persist"
  BY <1>1 DEF CheckAudit
<1>4a. PICK a \in thread[w][i].audit :
        /\ Go(w, i, p)
        /\ LET kept == Mode[c[1]] = "FEEDBACK" => \E b \in AnswersOf(c) : b.run = a.run
           IN  p = CASE ~kept -> "failed"
                     [] kept /\ thread[w][i].done # {} ->
                           IF thread[w][i].done = {a} THEN "done" ELSE "failed"
                     [] kept /\ thread[w][i].done = {} ->
                           IF IsPersisted(c, a) THEN "outcome" ELSE "persist"
  BY <1>4
<1>5. thread[w][i].audit = {a} /\ (c \notin collected => final[c] = {a})
  BY <1>4a, <1>2 DEF Sound
<1>6. /\ p \in {"failed", "done", "outcome", "persist"}
      /\ p \in {"outcome", "persist"} => Kept(c, a)
      /\ p = "outcome" => (a.usable => a.run \in records[c])
      /\ p = "persist" => a.usable
  <2>1. p = "failed" \/ p = "done" \/ p = "outcome" \/ p = "persist"
    BY <1>4a
  <2>2. p \in {"outcome", "persist"} => Kept(c, a)
    BY <1>4a DEF Kept, AnswersOf
  <2>3. /\ p = "outcome" => (a.usable => a.run \in records[c])
        /\ p = "persist" => a.usable
    BY <1>4a DEF IsPersisted
  <2> QED
    BY <2>1, <2>2, <2>3
<1>7. PICK new : Working(w, i, new) /\ new.at = p /\ new.audit = {a}
  <2>1. p \in Unaudited \cup Judged
    BY <1>6 DEF Unaudited, Judged
  <2>2. Go(w, i, p)
    BY <1>4a
  <2>3. \E new : /\ Working(w, i, new) /\ new.at = p
                 /\ new.audit = thread[w][i].audit /\ new.done = thread[w][i].done
    BY <1>2, <1>3, <2>1, <2>2, GoingOn
  <2> QED
    BY <1>5, <2>3
<1>8. a \in Audits
  BY <1>2, <1>5 DEF Sound
<1>9. Sound(c, new)
  BY <1>5, <1>6, <1>7, <1>8 DEF Sound, Rests
<1> QED
  BY <1>1, <1>3, <1>7, <1>9, ThinkPreserves

LEMMA AnswerPreserves ==
  ASSUME AuditInv, NEW w \in Workers, NEW i, NEW said \in Said, Answer(w, i, said)
  PROVE  AuditInv'
<1>1. PICK c : c = Piece(w, i)
  OBVIOUS
<1>2. /\ CallsTypeOK /\ AuditTypeOK /\ In(w, "chunks") /\ i \in DOMAIN thread[w]
      /\ thread[w][i] \in Threads /\ c \in Pieces
  BY <1>1, AtPiece DEF Answer
<1>3. /\ UNCHANGED <<preparationVars, captured, collected, phase, doing, observed>>
      /\ UNCHANGED <<job, final, records, outcome>>
  BY DEF Answer
<1>4. PICK run, n : /\ run = IF thread[w][i].run = 0 THEN lastRun + 1 ELSE thread[w][i].run
                    /\ n = thread[w][i].tries + 1
  OBVIOUS
<1>5. run \in Nat /\ n \in Nat
  BY <1>2, <1>4 DEF Threads, AuditTypeOK
<1>6. /\ lastRun' \in {run, lastRun}
      /\ answers' \in {answers, answers \cup {[chunk |-> c, run |-> run, n |-> n, said |-> said]}}
  BY <1>1, <1>4 DEF Answer
<1>7. Growing
  BY <1>3, <1>6 DEF Growing
<1>8. \E new : Working(w, i, new) /\ Sound(c, new)
  <2>1. CASE Go(w, i, "report")
    BY <1>2, <1>3, <2>1, GoingOn, UnauditedSound DEF Unaudited
  <2>2. CASE Ask(w, i, run, n)
    BY <1>2, <1>3, <1>5, <2>2, Asking, UnauditedSound DEF Unaudited
  <2>3. CASE GoWith(w, i, "save", Audit(run, FALSE, said = "USABLE"))
    <3>1. PICK usable : usable = (said = "USABLE")
      OBVIOUS
    <3>2. PICK a : a = Audit(run, FALSE, usable)
      OBVIOUS
    <3>3. usable \in BOOLEAN
      BY <3>1
    <3>4. a \in Audits
      BY <1>5, <3>2, <3>3 DEF Audit, Audits
    <3>5. GoWith(w, i, "save", a)
      BY <2>3, <3>1, <3>2 DEF GoWith
    <3>6. PICK new : Working(w, i, new) /\ new.at = "save" /\ new.audit = {a}
      BY <1>2, <1>3, <3>4, <3>5, GoingOnWith DEF Judged
    <3> QED
      BY <3>4, <3>6 DEF Sound
  <2> QED
    BY <1>1, <1>4, <2>1, <2>2, <2>3 DEF Answer
<1>9. PICK new : Working(w, i, new) /\ Sound(c, new)
  BY <1>8
<1>10. Sound(c, new)'
  BY <1>2, <1>7, <1>9, SoundKept
<1>11. \A d \in Pieces : ChunkSound(d)'
  BY <1>3, <1>7, ChunkKept
<1>12. \A b \in answers' : b.run \in Nat
  BY <1>2, <1>5, <1>6 DEF AuditTypeOK
<1>13. lastRun' \in Nat
  BY <1>2, <1>5, <1>6 DEF AuditTypeOK
<1> QED
  BY <1>1, <1>2, <1>3, <1>7, <1>9, <1>10, <1>11, <1>12, <1>13, WorkPreserves
     DEF CallsTypeOK, AuditTypeOK

LEMMA RetryablePreserves ==
  ASSUME AuditInv, NEW w \in Workers, NEW i, RecordRetryableFailure(w, i)
  PROVE  AuditInv'
<1>1. PICK c : c = Piece(w, i)
  OBVIOUS
<1>2. /\ CallsTypeOK /\ AuditTypeOK /\ In(w, "chunks") /\ i \in DOMAIN thread[w] /\ c \in Pieces
      /\ doing[w] \in Constructions
  BY <1>1, AtPiece DEF RecordRetryableFailure
<1>3. /\ UNCHANGED <<preparationVars, captured, collected, phase, doing, observed>>
      /\ UNCHANGED <<answers, final, records, outcome, lastRun, collected>>
  BY DEF RecordRetryableFailure
<1>4. PICK new : Working(w, i, new) /\ new.at = "failed"
  BY <1>2, <1>3, GoingOn DEF RecordRetryableFailure, Unaudited
<1>5. /\ job' \in [Constructions -> {"ABSENT", "RUNNING", "RETRY_WAIT", "COMPLETED", "FAILED"}]
      /\ \A j \in Constructions : job'[j] = "COMPLETED" => job[j] = "COMPLETED"
  BY <1>2 DEF RecordRetryableFailure, AfterFailure, CallsTypeOK
<1>6. Growing
  BY <1>3 DEF Growing
<1>7. Sound(c, new)'
  BY <1>2, <1>4, <1>6, UnauditedSound, SoundKept DEF Unaudited
<1>8. \A d \in Pieces : d[1] \in Constructions
  BY DEF Pieces
<1>9. \A d \in Pieces : ChunkSound(d)'
  BY <1>3, <1>5, <1>6, <1>8, ChunkKept
<1> QED
  BY <1>1, <1>2, <1>3, <1>4, <1>5, <1>6, <1>7, <1>9, WorkPreserves DEF AuditTypeOK

LEMMA PersistFinalPreserves ==
  ASSUME AuditInv, NEW w \in Workers, NEW i, PersistFinal(w, i)
  PROVE  AuditInv'
<1>1. PICK c : c = Piece(w, i)
  OBVIOUS
<1>2. /\ CallsTypeOK /\ AuditTypeOK /\ In(w, "chunks") /\ i \in DOMAIN thread[w] /\ c \in Pieces
      /\ ChunkSound(c) /\ Sound(c, thread[w][i]) /\ thread[w][i].at = "save"
  BY <1>1, AtPiece DEF PersistFinal
<1>3. /\ UNCHANGED <<preparationVars, captured, collected, phase, doing, observed>>
      /\ UNCHANGED <<job, answers, records, outcome, lastRun, collected>>
  BY DEF PersistFinal
<1>4. PICK a \in Audits : thread[w][i].audit = {a}
  BY <1>2 DEF Sound
<1>5. CASE Go(w, i, "failed") /\ final' = final
  <2>1. PICK new : Working(w, i, new) /\ new.at = "failed"
    BY <1>2, <1>3, <1>5, GoingOn DEF Unaudited
  <2> QED
    BY <1>1, <1>3, <1>5, <2>1, UnauditedSound, ThinkPreserves DEF Unaudited, auditVars
<1>6. CASE /\ final[c] \subseteq {a} /\ final' = [final EXCEPT ![c] = {a}]
           /\ Go(w, i, "check")
  <2>1. PICK new : Working(w, i, new) /\ new.at = "check" /\ new.audit = {a}
    BY <1>2, <1>3, <1>4, <1>6, GoingOn DEF Judged
  <2>2. /\ final' \in [Pieces -> SUBSET Audits] /\ final'[c] = {a}
        /\ \A d \in Pieces \ {c} : final'[d] = final[d]
    BY <1>2, <1>4, <1>6 DEF AuditTypeOK
  <2>3. Growing
    BY <1>3, <1>6, <2>2 DEF Growing
  <2>4. Sound(c, new)'
    BY <1>4, <2>1, <2>2 DEF Sound
  <2>5. \A d \in Pieces \ {c} : ChunkSound(d)'
    BY <1>3, <2>2, <2>3, ChunkKept
  <2>6. ChunkSound(c)'
    <3>1. c \notin collected => \A b \in outcome[c] : Rests(c, b)'
      BY <1>2, <1>3 DEF ChunkSound, Rests, Kept
    <3> QED
      BY <1>2, <1>3, <1>6, <2>2, <3>1 DEF ChunkSound
  <2> QED
    BY <1>1, <1>2, <1>3, <2>1, <2>2, <2>3, <2>4, <2>5, <2>6, WorkPreserves
       DEF AuditTypeOK, CallsTypeOK
<1> QED
  BY <1>1, <1>4, <1>5, <1>6 DEF PersistFinal, Agrees

LEMMA PersistRecordsPreserves ==
  ASSUME AuditInv, NEW w \in Workers, NEW i, PersistRecords(w, i)
  PROVE  AuditInv'
<1>1. PICK c : c = Piece(w, i)
  OBVIOUS
<1>2. /\ CallsTypeOK /\ AuditTypeOK /\ In(w, "chunks") /\ i \in DOMAIN thread[w] /\ c \in Pieces
      /\ ChunkSound(c) /\ Sound(c, thread[w][i]) /\ thread[w][i].at = "persist"
  BY <1>1, AtPiece DEF PersistRecords
<1>3. /\ UNCHANGED <<preparationVars, captured, collected, phase, doing, observed>>
      /\ UNCHANGED <<job, answers, final, outcome, lastRun, collected>>
  BY DEF PersistRecords
<1>4. PICK a \in Audits : /\ thread[w][i].audit = {a}
                          /\ c \notin collected => final[c] = {a} /\ Kept(c, a) /\ a.usable
  BY <1>2 DEF Sound
<1>5. /\ records' \in [Pieces -> SUBSET Nat] /\ records'[c] = records[c] \cup {a.run}
      /\ \A d \in Pieces \ {c} : records'[d] = records[d]
  <2>1. records' = [records EXCEPT ![c] = @ \cup {a.run}]
    BY <1>1, <1>4 DEF PersistRecords
  <2>2. a.run \in Nat
    BY <1>4 DEF Audits
  <2> QED
    BY <1>2, <2>1, <2>2 DEF AuditTypeOK
<1>6. PICK new : Working(w, i, new) /\ new.at = "outcome" /\ new.audit = {a}
  BY <1>2, <1>3, <1>4, GoingOn DEF Judged, PersistRecords
<1>7. Growing
  BY <1>3, <1>5 DEF Growing
<1>8. Sound(c, new)'
  BY <1>3, <1>4, <1>5, <1>6 DEF Sound, Rests, Kept
<1>9. \A d \in Pieces \ {c} : ChunkSound(d)'
  BY <1>3, <1>5, <1>7, ChunkKept
<1>10. ChunkSound(c)'
  <2>1. c \notin collected => \A b \in outcome[c] : Rests(c, b)'
    BY <1>2, <1>3, <1>5 DEF ChunkSound, Rests, Kept
  <2> QED
    BY <1>2, <1>3, <1>4, <1>5, <2>1 DEF ChunkSound
<1> QED
  BY <1>1, <1>2, <1>3, <1>5, <1>6, <1>7, <1>8, <1>9, <1>10, WorkPreserves
     DEF AuditTypeOK, CallsTypeOK

LEMMA PersistOutcomePreserves ==
  ASSUME AuditInv, NEW w \in Workers, NEW i, PersistOutcome(w, i)
  PROVE  AuditInv'
<1>1. PICK c : c = Piece(w, i)
  OBVIOUS
<1>2. /\ CallsTypeOK /\ AuditTypeOK /\ In(w, "chunks") /\ i \in DOMAIN thread[w] /\ c \in Pieces
      /\ ChunkSound(c) /\ Sound(c, thread[w][i]) /\ thread[w][i].at = "outcome"
  BY <1>1, AtPiece DEF PersistOutcome
<1>3. /\ UNCHANGED <<preparationVars, captured, collected, phase, doing, observed>>
      /\ UNCHANGED <<job, answers, final, records, lastRun, collected>>
  BY DEF PersistOutcome
<1>4. PICK a \in Audits : /\ thread[w][i].audit = {a}
                          /\ c \notin collected => final[c] = {a} /\ Rests(c, a)
  BY <1>2 DEF Sound
<1>5. PICK new : Working(w, i, new) /\ new.at \in Unaudited
  BY <1>2, <1>3, GoingOn DEF Unaudited, PersistOutcome
<1>6. CASE outcome' = outcome
  BY <1>1, <1>3, <1>5, <1>6, UnauditedSound, ThinkPreserves DEF auditVars
<1>7. CASE outcome' = [outcome EXCEPT ![c] = {a}]
  <2>1. /\ outcome' \in [Pieces -> SUBSET Audits] /\ outcome'[c] = {a}
        /\ \A d \in Pieces \ {c} : outcome'[d] = outcome[d]
    BY <1>2, <1>4, <1>7 DEF AuditTypeOK
  <2>2. Growing
    BY <1>3 DEF Growing
  <2>3. Sound(c, new)'
    BY <1>2, <1>5, <2>2, UnauditedSound, SoundKept
  <2>4. \A d \in Pieces \ {c} : ChunkSound(d)'
    BY <1>3, <2>1, <2>2, ChunkKept
  <2>5. ChunkSound(c)'
    BY <1>2, <1>3, <1>4, <2>1 DEF ChunkSound, Rests, Kept
  <2> QED
    BY <1>1, <1>2, <1>3, <1>5, <2>1, <2>2, <2>3, <2>4, <2>5, WorkPreserves
       DEF AuditTypeOK, CallsTypeOK
<1> QED
  BY <1>1, <1>4, <1>6, <1>7 DEF PersistOutcome

\* A call comes to its chunks, leaves them, or is not there.
LEMMA CallMoves ==
  ASSUME AuditInv, NEW w \in Workers, UNCHANGED <<answers, final, records, outcome, lastRun, collected>>,
         CallsTypeOK', CallKnown(w)',
         \A v \in Workers \ {w} : phase'[v] = phase[v] /\ doing'[v] = doing[v] /\ thread'[v] = thread[v],
         \/ doing'[w] = doing[w] /\ thread'[w] = thread[w]
         \/ thread'[w] \in [DOMAIN thread'[w] -> {t \in Threads : t.at \in Unaudited}],
         \A c \in Pieces : job'[c[1]] = "COMPLETED" => job[c[1]] = "COMPLETED" \/ outcome[c] # {}
  PROVE  AuditInv'
<1>1. Growing
  BY DEF Growing
<1>2. AuditTypeOK
  BY DEF AuditInv
<1>3. \A v \in Workers : thread'[v] \in [DOMAIN thread'[v] -> Threads]
  <2>1. ASSUME NEW v \in Workers PROVE thread'[v] \in [DOMAIN thread'[v] -> Threads]
    <3>1. CASE thread'[v] = thread[v]
      BY <1>2, <3>1 DEF AuditTypeOK
    <3>2. CASE thread'[v] # thread[v]
      <4>1. thread'[v] \in [DOMAIN thread'[v] -> {t \in Threads : t.at \in Unaudited}]
        BY <3>2
      <4> QED
        BY <4>1
    <3> QED
      BY <3>1, <3>2
  <2> QED
    BY <2>1
<1>4. AuditTypeOK'
  BY <1>2, <1>3 DEF AuditTypeOK
<1>5. ASSUME NEW v \in Workers PROVE CallKnown(v)'
  <2>1. CASE v = w
    BY <2>1
  <2>2. CASE v # w
    BY <2>2 DEF AuditInv, CallKnown, In
  <2> QED
    BY <2>1, <2>2
<1>6. ASSUME NEW v \in Workers, NEW k \in DOMAIN thread'[v] PROVE ThreadSound(v, k)'
  <2>1. CASE doing'[v] = doing[v] /\ thread'[v] = thread[v]
    BY <1>1, <1>6, <2>1, ThreadKept
  <2>2. CASE ~(doing'[v] = doing[v] /\ thread'[v] = thread[v])
    <3>1. thread'[v] \in [DOMAIN thread'[v] -> {t \in Threads : t.at \in Unaudited}]
      BY <2>2
    <3>2. thread'[v][k].at \in Unaudited
      BY <1>6, <3>1
    <3> QED
      BY <3>2 DEF ThreadSound, Sound, Unaudited
  <2> QED
    BY <2>1, <2>2
<1>7. \A c \in Pieces : ChunkSound(c)'
  BY <1>1, ChunkKept
<1> QED
  BY <1>4, <1>5, <1>6, <1>7 DEF AuditInv

\* Neither calls nor jobs.
LEMMA AuditRests ==
  ASSUME AuditInv, UNCHANGED <<auditVars, runVars>>
  PROVE  AuditInv'
<1>1. Growing
  BY DEF Growing, auditVars
<1>2. CallsTypeOK' /\ AuditTypeOK'
  BY DEF AuditInv, CallsTypeOK, AuditTypeOK, auditVars, runVars
<1>3. ASSUME NEW v \in Workers PROVE CallKnown(v)'
  BY DEF AuditInv, CallKnown, In, runVars
<1>4. ASSUME NEW v \in Workers, NEW k \in DOMAIN thread'[v] PROVE ThreadSound(v, k)'
  BY <1>1, <1>4, ThreadKept DEF runVars
<1>5. \A c \in Pieces : ChunkSound(c)'
  BY <1>1, ChunkKept DEF auditVars
<1> QED
  BY <1>2, <1>3, <1>4, <1>5 DEF AuditInv

\* What Done(w) leaves.
LEMMA DoneLeaves ==
  ASSUME CallsTypeOK, NEW w \in Workers, Done(w), captured' = captured,
         job' \in [Constructions -> {"ABSENT", "RUNNING", "RETRY_WAIT", "COMPLETED", "FAILED"}]
  PROVE  /\ CallsTypeOK' /\ CallKnown(w)' /\ DOMAIN thread'[w] = {} /\ phase'[w] = "idle"
         /\ thread'[w] \in [DOMAIN thread'[w] -> {t \in Threads : t.at \in Unaudited}]
         /\ \A v \in Workers \ {w} : phase'[v] = phase[v] /\ doing'[v] = doing[v] /\ thread'[v] = thread[v]
<1>1. /\ phase'[w] = "idle" /\ thread'[w] = <<>>
      /\ \A v \in Workers \ {w} : phase'[v] = phase[v] /\ doing'[v] = doing[v] /\ thread'[v] = thread[v]
  BY DEF CallsTypeOK, Done, Enter
<1>2. CallsTypeOK'
  <2>1. phase' \in [Workers -> {"idle", "observed", "ensured", "preparing", "sync", "chunks", "upload"}]
    BY DEF CallsTypeOK, Done, Enter
  <2>2. doing' \in [Workers -> Constructions \cup {NoJob}]
    BY DEF CallsTypeOK, Done
  <2>3. observed' = [v \in Workers |-> observed'[v]] /\ thread' = [v \in Workers |-> thread'[v]]
    BY DEF CallsTypeOK, Done
  <2> QED
    BY <2>1, <2>2, <2>3 DEF CallsTypeOK
<1>3. DOMAIN thread'[w] = {}
  BY <1>1
<1>4. CallKnown(w)'
  BY <1>1, <1>3 DEF CallKnown, In
<1>5. thread'[w] \in [DOMAIN thread'[w] -> {t \in Threads : t.at \in Unaudited}]
  <2>1. <<>> \in [{} -> {t \in Threads : t.at \in Unaudited}]
    BY DEF Unaudited
  <2> QED
    BY <1>1, <1>3, <2>1
<1> QED
  BY <1>1, <1>2, <1>3, <1>4, <1>5

LEMMA DonePreserves ==
  ASSUME AuditInv, NEW w \in Workers, Done(w),
         UNCHANGED <<captured, answers, final, records, outcome, lastRun, collected>>,
         job' \in [Constructions -> {"ABSENT", "RUNNING", "RETRY_WAIT", "COMPLETED", "FAILED"}],
         \A c \in Pieces : job'[c[1]] = "COMPLETED" => job[c[1]] = "COMPLETED" \/ outcome[c] # {}
  PROVE  AuditInv'
BY DoneLeaves, CallMoves DEF AuditInv

LEMMA JobOfPiece ==
  ASSUME NEW c \in Pieces
  PROVE  c[1] \in Constructions /\ c[1] \in Jobs /\ c[2] \in Chunks(c[1]) /\ c = <<c[1], c[2]>>
BY ConstructionAssumption DEF Pieces

\* The calls that end, and the changes of the job's status.
LEMMA EndsPreserve ==
  ASSUME AuditInv, NEW w \in Workers,
         SyncFailure(w) \/ CompleteJob(w) \/ RaiseFirst(w) \/ Crash(w)
  PROVE  AuditInv'
<1>1. /\ Done(w) /\ UNCHANGED <<captured, answers, final, records, outcome, lastRun, collected>>
  BY DEF SyncFailure, CompleteJob, RaiseFirst, Crash, auditVars
<1>2. CallsTypeOK
  BY DEF AuditInv
<1>3. CASE SyncFailure(w)
  <2>1. PICK j : j = doing[w]
    OBVIOUS
  <2>2. job' = [job EXCEPT ![j] = Synced(j)]
    BY <1>3, <2>1 DEF SyncFailure
  <2>3. Synced(j) \in {"COMPLETED", "FAILED", "RETRY_WAIT"} \/ Synced(j) = job[j]
    BY DEF Synced
  <2>4. Synced(j) = "COMPLETED" => job[j] = "COMPLETED"
    BY DEF Synced
  <2>5. /\ job' \in [Constructions -> {"ABSENT", "RUNNING", "RETRY_WAIT", "COMPLETED", "FAILED"}]
        /\ \A i \in Constructions : job'[i] = "COMPLETED" => job[i] = "COMPLETED"
    BY <1>2, <2>2, <2>3, <2>4 DEF CallsTypeOK
  <2> QED
    BY <1>1, <2>5, DonePreserves, JobOfPiece
<1>4. CASE CompleteJob(w)
  <2>1. PICK j, s : /\ j = doing[w]
                    /\ s = IF \A i \in Chunks(j) : Backed(<<j, i>>) THEN "COMPLETED" ELSE job[j]
    OBVIOUS
  <2>2. job' = [job EXCEPT ![j] = s]
    BY <1>4, <2>1 DEF CompleteJob
  <2>3. job' \in [Constructions -> {"ABSENT", "RUNNING", "RETRY_WAIT", "COMPLETED", "FAILED"}]
    BY <1>2, <2>1, <2>2 DEF CallsTypeOK
  <2>4. ASSUME NEW c \in Pieces, job'[c[1]] = "COMPLETED"
        PROVE  job[c[1]] = "COMPLETED" \/ outcome[c] # {}
    <3>1. CASE c[1] = j /\ \A i \in Chunks(j) : Backed(<<j, i>>)
      BY <3>1, JobOfPiece DEF Backed
    <3>2. CASE ~(c[1] = j /\ \A i \in Chunks(j) : Backed(<<j, i>>))
      BY <1>2, <2>1, <2>2, <2>4, <3>2, JobOfPiece DEF CallsTypeOK
    <3> QED
      BY <3>1, <3>2
  <2> QED
    BY <1>1, <2>3, <2>4, DonePreserves
<1>5. CASE job' = job
  BY <1>1, <1>2, <1>5, DonePreserves DEF CallsTypeOK
<1> QED
  BY <1>3, <1>4, <1>5 DEF RaiseFirst, Crash, auditVars

LEMMA BeginningsPreserve ==
  ASSUME AuditInv, NEW w \in Workers,
         \/ EnsureJob(w) \/ CallPreparation(w) \/ LeavePreparation(w) \/ EndUpload(w)
         \/ \E j \in Constructions : Observe(w, j)
         \/ \E j \in Jobs : Upload(w, j)
  PROVE  AuditInv'
<1>1. UNCHANGED <<answers, final, records, outcome, lastRun, collected>>
  BY DEF EnsureJob, CallPreparation, LeavePreparation, EndUpload, Observe, Upload, auditVars
<1>2. CallsTypeOK /\ CallKnown(w)
  BY DEF AuditInv
<1>3. ASSUME NEW p \in {"observed", "ensured", "preparing", "sync", "upload", "idle"},
             Enter(w, p), ~In(w, "chunks"), captured' = captured, job' = job,
             observed' = [v \in Workers |-> observed'[v]], thread' = thread,
             p \notin {"idle", "upload"} => phase[w] \notin {"idle", "upload"}, doing' = doing
      PROVE  AuditInv'
  <2>1. /\ phase' \in [Workers -> {"idle", "observed", "ensured", "preparing", "sync", "chunks", "upload"}]
        /\ phase'[w] = p /\ \A v \in Workers \ {w} : phase'[v] = phase[v]
    BY <1>2, <1>3 DEF CallsTypeOK, Enter
  <2>2. CallsTypeOK'
    BY <1>2, <1>3, <2>1 DEF CallsTypeOK
  <2>3. CallKnown(w)'
    BY <1>2, <1>3, <2>1 DEF CallKnown, In
  <2> QED
    BY <1>1, <1>3, <2>1, <2>2, <2>3, CallMoves
<1>4. ASSUME EnsureJob(w)
      PROVE  AuditInv'
  <2>1. /\ phase[w] = "observed" /\ phase' = [phase EXCEPT ![w] = "ensured"]
        /\ observed' = [observed EXCEPT ![w] = NoPlan] /\ UNCHANGED <<doing, thread>>
        /\ job' = [job EXCEPT ![doing[w]] = IF @ \in {"ABSENT", "RETRY_WAIT"} THEN "RUNNING" ELSE @]
    BY <1>4 DEF EnsureJob, In, Enter
  <2>2. /\ phase' \in [Workers -> {"idle", "observed", "ensured", "preparing", "sync", "chunks", "upload"}]
        /\ phase'[w] = "ensured" /\ \A v \in Workers \ {w} : phase'[v] = phase[v]
    BY <1>2, <2>1 DEF CallsTypeOK
  <2>3. captured' = [j \in Constructions |-> captured'[j]]
    BY <1>2, <1>4 DEF EnsureJob, CallsTypeOK
  <2>4. /\ job' \in [Constructions -> {"ABSENT", "RUNNING", "RETRY_WAIT", "COMPLETED", "FAILED"}]
        /\ \A j \in Constructions : job'[j] = "COMPLETED" => job[j] = "COMPLETED"
    BY <1>2, <2>1 DEF CallsTypeOK
  <2>5. observed' = [v \in Workers |-> observed'[v]]
    BY <1>2, <2>1 DEF CallsTypeOK
  <2>6. CallsTypeOK'
    BY <1>2, <2>1, <2>2, <2>3, <2>4, <2>5 DEF CallsTypeOK
  <2>7. CallKnown(w)'
    BY <1>2, <2>1, <2>2 DEF CallKnown, In
  <2> QED
    BY <1>1, <2>1, <2>2, <2>4, <2>6, <2>7, CallMoves, JobOfPiece
<1>5. ASSUME CallPreparation(w)
      PROVE  AuditInv'
  <2>1. PICK p \in {"preparing", "sync"} : Enter(w, p)
    BY <1>5 DEF CallPreparation
  <2> QED
    BY <1>2, <1>3, <1>5, <2>1 DEF CallPreparation, In, auditVars, CallsTypeOK
<1>6. ASSUME LeavePreparation(w)
      PROVE  AuditInv'
  <2>1. In(w, "preparing") /\ UNCHANGED <<auditVars, doing, observed>>
    BY <1>6 DEF LeavePreparation
  <2>2. CASE Enter(w, "sync") /\ UNCHANGED thread
    BY <1>2, <1>3, <2>1, <2>2 DEF In, auditVars, CallsTypeOK
  <2>3. CASE /\ Enter(w, "chunks")
             /\ thread' = [thread EXCEPT ![w] = [i \in Chunks(doing[w]) |-> NewThread]]
    <3>1. PICK t : t = [i \in Chunks(doing[w]) |-> NewThread]
      OBVIOUS
    <3>2. /\ thread'[w] = t /\ thread' = [v \in Workers |-> thread'[v]]
          /\ \A v \in Workers \ {w} : thread'[v] = thread[v]
      BY <1>2, <2>3, <3>1 DEF CallsTypeOK
    <3>3. NewThread \in {u \in Threads : u.at \in Unaudited}
      BY DEF NewThread, Threads, Unaudited
    <3>4. DOMAIN t = Chunks(doing[w]) /\ t \in [DOMAIN t -> {u \in Threads : u.at \in Unaudited}]
      BY <3>1, <3>3
    <3>5. /\ phase' \in [Workers -> {"idle", "observed", "ensured", "preparing", "sync", "chunks", "upload"}]
          /\ phase'[w] = "chunks" /\ \A v \in Workers \ {w} : phase'[v] = phase[v]
      BY <1>2, <2>3 DEF CallsTypeOK, Enter
    <3>6. CallsTypeOK'
      BY <1>2, <2>1, <3>2, <3>5 DEF CallsTypeOK, auditVars
    <3>7. CallKnown(w)'
      BY <1>2, <2>1, <3>2, <3>4, <3>5 DEF CallKnown, In, Chunks
    <3> QED
      BY <1>1, <2>1, <3>2, <3>4, <3>5, <3>6, <3>7, CallMoves DEF auditVars
  <2> QED
    BY <1>6, <2>2, <2>3 DEF LeavePreparation
<1>7. ASSUME EndUpload(w)
      PROVE  AuditInv'
  BY <1>2, <1>3, <1>7 DEF EndUpload, In, auditVars, CallsTypeOK
<1>8. ASSUME NEW j \in Constructions, Observe(w, j)
      PROVE  AuditInv'
  <2>1. /\ phase[w] = "idle" /\ phase' = [phase EXCEPT ![w] = "observed"]
        /\ doing' = [doing EXCEPT ![w] = j] /\ UNCHANGED <<auditVars, thread>>
    BY <1>8 DEF Observe, In, Enter
  <2>2. observed' = [v \in Workers |-> observed'[v]]
    BY <1>2, <1>8 DEF Observe, CallsTypeOK
  <2>3. /\ phase' \in [Workers -> {"idle", "observed", "ensured", "preparing", "sync", "chunks", "upload"}]
        /\ phase'[w] = "observed" /\ \A v \in Workers \ {w} : phase'[v] = phase[v]
    BY <1>2, <2>1 DEF CallsTypeOK
  <2>4. /\ doing' \in [Workers -> Constructions \cup {NoJob}] /\ doing'[w] = j
        /\ \A v \in Workers \ {w} : doing'[v] = doing[v]
    BY <1>2, <2>1 DEF CallsTypeOK
  <2>5. CallsTypeOK'
    BY <1>2, <2>1, <2>2, <2>3, <2>4 DEF CallsTypeOK, auditVars
  <2>6. DOMAIN thread[w] = {} /\ thread'[w] = thread[w]
    BY <1>2, <2>1 DEF CallKnown, In
  <2>7. CallKnown(w)'
    BY <2>3, <2>4, <2>6 DEF CallKnown, In
  <2>8. thread[w] \in [DOMAIN thread[w] -> {t \in Threads : t.at \in Unaudited}]
    BY <2>6 DEF AuditInv, AuditTypeOK
  <2> QED
    BY <1>1, <2>1, <2>3, <2>4, <2>5, <2>6, <2>7, <2>8, CallMoves DEF auditVars
<1>9. ASSUME NEW j \in Jobs, Upload(w, j)
      PROVE  AuditInv'
  BY <1>2, <1>3, <1>9 DEF Upload, In, auditVars, CallsTypeOK
<1> QED
  BY <1>4, <1>5, <1>6, <1>7, <1>8, <1>9

\* Deletion leaves alone what nothing was audited of, and remembers the rest.
LEMMA DeletePreservesAudits ==
  ASSUME AuditInv, NEW d \in Documents, DeleteDocument(d)
  PROVE  AuditInv'
<1>1. /\ answers' = {} /\ final' = [c \in Pieces |-> {}]
      /\ collected' = collected \cup Audited
      /\ UNCHANGED <<job, captured, records, outcome, lastRun, runVars>>
  BY DEF DeleteDocument
<1>2. \A c \in Pieces \ collected' : final[c] = {} /\ AnswersOf(c) = {}
  BY <1>1 DEF Audited
<1>3. Growing
  BY <1>1, <1>2 DEF Growing, AnswersOf
<1>4. CallsTypeOK' /\ AuditTypeOK'
  BY <1>1 DEF AuditInv, CallsTypeOK, AuditTypeOK, runVars
<1>5. ASSUME NEW v \in Workers PROVE CallKnown(v)'
  BY <1>1 DEF AuditInv, CallKnown, In, runVars
<1>6. ASSUME NEW v \in Workers, NEW k \in DOMAIN thread'[v] PROVE ThreadSound(v, k)'
  BY <1>1, <1>3, <1>6, ThreadKept DEF runVars
<1>7. ASSUME NEW c \in Pieces PROVE ChunkSound(c)'
  <2>1. CASE c \in collected'
    BY <1>1, <2>1 DEF AuditInv, ChunkSound
  <2>2. CASE c \notin collected'
    BY <1>1, <1>2, <1>3, <2>2, ChunkKept
  <2> QED
    BY <2>1, <2>2
<1> QED
  BY <1>4, <1>5, <1>6, <1>7 DEF AuditInv

LEMMA AuditStarts == Init => AuditInv
<1> SUFFICES ASSUME Init PROVE AuditInv
  OBVIOUS
<1>1. CallsTypeOK
  BY DEF Init, CallsTypeOK
<1>2. \A w \in Workers : thread[w] = <<>> /\ phase[w] = "idle"
  BY DEF Init
<1>3. \A w \in Workers : DOMAIN thread[w] = {}
  BY <1>2
<1>4. \A w \in Workers : thread[w] \in [DOMAIN thread[w] -> Threads]
  <2>1. <<>> \in [{} -> Threads]
    OBVIOUS
  <2> QED
    BY <1>2, <1>3, <2>1
<1>5. AuditTypeOK
  BY <1>4 DEF Init, AuditTypeOK
<1>6. \A w \in Workers : CallKnown(w)
  BY <1>2, <1>3 DEF CallKnown, In
<1>7. ASSUME NEW c \in Pieces PROVE ChunkSound(c)
  BY JobOfPiece DEF Init, ChunkSound
<1> QED
  BY <1>1, <1>3, <1>5, <1>6, <1>7 DEF AuditInv

\* Every step of one call.
LEMMA ConstructPreservesAudits ==
  ASSUME AuditInv, NEW w \in Workers, Construct(w)
  PROVE  AuditInv'
<1>1. CASE StepPreparation(w)
  <2>1. UNCHANGED <<auditVars, runVars>>
    BY <1>1 DEF StepPreparation
  <2> QED
    BY <2>1, AuditRests
<1>2. CASE \/ EnsureJob(w) \/ CallPreparation(w) \/ LeavePreparation(w)
           \/ \E j \in Constructions : Observe(w, j)
  BY <1>2, BeginningsPreserve
<1>3. CASE SyncFailure(w) \/ CompleteJob(w) \/ RaiseFirst(w)
  BY <1>3, EndsPreserve
<1>4. CASE \E i \in DOMAIN thread[w] :
              \/ ReadOutcome(w, i) \/ MissDeadline(w, i) \/ ReadFinal(w, i) \/ Recover(w, i)
              \/ \E said \in Said : Answer(w, i, said)
              \/ RecordRetryableFailure(w, i) \/ PersistFinal(w, i) \/ CheckAudit(w, i)
              \/ PersistRecords(w, i) \/ PersistOutcome(w, i)
  BY <1>4, ReadingPreserves, ReadFinalPreserves, RecoverPreserves, AnswerPreserves,
     RetryablePreserves, PersistFinalPreserves, CheckPreserves, PersistRecordsPreserves,
     PersistOutcomePreserves
<1> QED
  BY <1>1, <1>2, <1>3, <1>4 DEF Construct

LEMMA AuditPreserved ==
  ASSUME AuditInv, [Next]_vars
  PROVE  AuditInv'
<1>1. ASSUME NEW w \in Workers,
             Construct(w) \/ Crash(w) \/ EndUpload(w) \/ \E j \in Jobs : Upload(w, j)
      PROVE  AuditInv'
  BY <1>1, ConstructPreservesAudits, EndsPreserve, BeginningsPreserve
<1>2. ASSUME NEW d \in Documents, DeleteDocument(d) PROVE AuditInv'
  BY <1>2, DeletePreservesAudits
<1>3. CASE UNCHANGED <<auditVars, runVars>>
  BY <1>3, AuditRests
<1>4. ASSUME NEW d \in Documents, RetireDocument(d) PROVE AuditInv'
  BY <1>3, <1>4 DEF RetireDocument
<1>5. ASSUME NEW j \in Jobs, LeaseLapses(j) PROVE AuditInv'
  BY <1>3, <1>5 DEF LeaseLapses
<1>6. CASE UNCHANGED vars
  BY <1>3, <1>6 DEF vars
<1> QED
  BY <1>1, <1>2, <1>4, <1>5, <1>6 DEF Next

LEMMA BackedByAudits == AuditInv => CompletedIsBacked
<1> SUFFICES ASSUME AuditInv PROVE CompletedIsBacked
  OBVIOUS
<1>1. ASSUME NEW c \in Pieces, job[c[1]] = "COMPLETED"
      PROVE  \E a \in outcome[c] :
               /\ outcome[c] = {a}
               /\ c \in Uncollected =>
                     /\ final[c] = {a}
                     /\ Mode[c[1]] = "FEEDBACK" => \E b \in AnswersOf(c) : b.run = a.run
                     /\ a.usable => a.run \in records[c]
  <2>1. ChunkSound(c)
    BY DEF AuditInv
  <2>2. PICK a : a \in outcome[c] /\ outcome[c] = {a}
    BY <1>1, <2>1 DEF ChunkSound
  <2>3. c \in Uncollected => a \in final[c] /\ Rests(c, a)
    BY <2>1, <2>2 DEF ChunkSound, Uncollected
  <2>4. c \in Uncollected => final[c] = {a}
    BY <2>1, <2>3 DEF ChunkSound
  <2> QED
    BY <2>2, <2>3, <2>4 DEF Rests, Kept, AnswersOf
<1>2. OneBatchPerChunk
  BY DEF AuditInv, ChunkSound, OneBatchPerChunk, Uncollected
<1> QED
  BY <1>1, <1>2 DEF CompletedIsBacked

(* CompletedIsBacked for every instance: the records and the outcome of a  *)
(* chunk come from the one run its audit names, however many calls work at *)
(* it, crash and resume, until a deletion takes the audit, and each chunk  *)
(* of a COMPLETED job keeps one outcome even then (_process_chunk,         *)
(* complete_job, _delete_document_tx).                                     *)
THEOREM CompletedStaysBacked == Spec => []CompletedIsBacked
<1>1. Init => AuditInv
  BY AuditStarts
<1>2. AuditInv /\ [Next]_vars => AuditInv'
  BY AuditPreserved
<1>3. AuditInv => CompletedIsBacked
  BY BackedByAudits
<1> QED
  BY <1>1, <1>2, <1>3, PTL DEF Spec

-----------------------------------------------------------------------------
(***************************************************************************)
(* The constructions and their preparations (workflow.py over pipeline.py). *)
(***************************************************************************)

\* A job and its preparation, which has the job's plan.  Once the source has
\* moved on there is no open job that was ever prepared.
JobSound(j) ==
    /\ status[j] # "ABSENT" => job[j] # "ABSENT" /\ plan[j] = captured[j]
    /\ job[j] = "FAILED" => status[j] = "FAILED_PERMANENT"
    /\ job[j] # "ABSENT" /\ captured[j].gen # gen[DocumentOf[j]] =>
          job[j] \in {"COMPLETED", "FAILED"} \/ status[j] = "ABSENT"

\* A call and its preparation; it is at the chunks only after that succeeded.
CallFollows(w) ==
    /\ phase[w] \in {"ensured", "preparing", "sync", "chunks"} => job[doing[w]] # "ABSENT"
    /\ phase[w] \notin {"preparing", "upload"} => at[w] = "idle"
    /\ In(w, "preparing") => asked[w] = doing[w]
    /\ In(w, "chunks") => status[doing[w]] = "SUCCEEDED"

ConstructionInv ==
    /\ PreparationInv
    /\ CallsTypeOK
    /\ \A w \in Workers : CallKnown(w) /\ CallFollows(w)
    /\ \A j \in Constructions : JobSound(j)

\* What a step of a preparation leaves as it is.
Unmoved(w) ==
    /\ [LeaseNext]_leaseVars
    /\ UNCHANGED <<gen, plan, asked>>
    /\ \A v \in Workers \ {w} : at'[v] = at[v]
    /\ \A j \in Jobs : status[j] = "ABSENT" => status'[j] = "ABSENT"

LEMMA PrepareMovesOne ==
  ASSUME PreparationInv, NEW w \in Workers, Prepare(w)
  PROVE  Unmoved(w)
<1>1. UNCHANGED <<gen, plan, asked>>
  BY DEF Prepare, ClaimPreparation, ClaimRefused, ReplayPreparation, StartTask, ReadArtifact,
         ProviderFails, PersistArtifact, LinkArtifact, CompleteTask, Ingest, IngestInterrupted,
         FinishPreparation, MarkTaskFailed, ReportFailure, Refused, sourceVars, workVars
<1>2. at = [v \in Workers |-> at[v]] /\ LeaseTypeOK
  BY DEF PreparationInv, PreparationTypeOK, LeaseInv
<1>3. \E p : at' = [at EXCEPT ![w] = p]
  BY DEF Prepare, ClaimPreparation, ClaimRefused, ReplayPreparation, StartTask, ReadArtifact,
         ProviderFails, PersistArtifact, LinkArtifact, CompleteTask, Ingest, IngestInterrupted,
         FinishPreparation, MarkTaskFailed, ReportFailure, Refused, GoTo, Fail, Take
<1>4. \A v \in Workers \ {w} : at'[v] = at[v]
  BY <1>2, <1>3
<1>5. ASSUME UNCHANGED leaseVars PROVE Unmoved(w)
  BY <1>1, <1>4, <1>5 DEF Unmoved, leaseVars
<1>6. ASSUME NEW j \in Jobs, ClaimJob(w, j) \/ ExhaustJob(j) PROVE Unmoved(w)
  <2>1. \A k \in Jobs : status[k] = "ABSENT" => status'[k] = "ABSENT"
    BY <1>2, <1>6 DEF ClaimJob, ExhaustJob, Claimable, LeaseTypeOK
  <2> QED
    BY <1>1, <1>4, <1>6, <2>1 DEF Unmoved, LeaseNext
<1>7. ASSUME at[w] \notin AtRest,
             FinishJob(w, "SUCCEEDED") \/ \E r \in BOOLEAN : RecordFailure(w, r)
      PROVE  Unmoved(w)
  <2>1. JobOf(w) \in Jobs /\ status[JobOf(w)] # "ABSENT"
    BY <1>7, RunningCall
  <2>2. \A k \in Jobs : status[k] = "ABSENT" => status'[k] = "ABSENT"
    BY <1>2, <1>7, <2>1 DEF FinishJob, RecordFailure, LeaseTypeOK
  <2> QED
    BY <1>1, <1>4, <1>7, <2>2 DEF Unmoved, LeaseNext, Finished
<1>8. asked[w] \in Jobs \/ at[w] # "claim"
  BY DEF PreparationInv, CallSound
<1>9. CASE ClaimPreparation(w) \/ ClaimRefused(w)
  BY <1>5, <1>6, <1>8, <1>9 DEF ClaimPreparation, ClaimRefused, At
<1>10. CASE FinishPreparation(w)
  BY <1>5, <1>7, <1>10 DEF FinishPreparation, At, AtRest
<1>11. CASE ReportFailure(w)
  <2>1. At(w, "report") \in BOOLEAN
    BY DEF At
  <2> QED
    BY <1>7, <1>11, <2>1 DEF ReportFailure, AtRest
<1>12. CASE \/ ReplayPreparation(w) \/ StartTask(w) \/ ReadArtifact(w) \/ ProviderFails(w)
            \/ PersistArtifact(w) \/ LinkArtifact(w) \/ CompleteTask(w)
            \/ Ingest(w) \/ IngestInterrupted(w) \/ MarkTaskFailed(w)
  <2>1. UNCHANGED leaseVars
    BY <1>12 DEF ReplayPreparation, StartTask, ReadArtifact,
         ProviderFails, PersistArtifact, LinkArtifact, CompleteTask, Ingest, IngestInterrupted,
         MarkTaskFailed, Refused
  <2> QED
    BY <1>5, <2>1
<1> QED
  BY <1>9, <1>10, <1>11, <1>12 DEF Prepare

\* A call that is left where it is, by a step that ends no job it relies on.
LEMMA FollowsOn ==
  ASSUME NEW v \in Workers, CallsTypeOK, PreparationInv, [LeaseNext]_leaseVars,
         CallKnown(v), CallFollows(v),
         phase'[v] = phase[v], doing'[v] = doing[v], DOMAIN thread'[v] = DOMAIN thread[v],
         at'[v] = at[v] \/ phase[v] \in {"preparing", "upload"},
         asked'[v] = asked[v] \/ phase[v] # "preparing",
         \A j \in Constructions : job[j] # "ABSENT" => job'[j] # "ABSENT"
  PROVE  CallKnown(v)' /\ CallFollows(v)'
<1>1. CallKnown(v)'
  BY DEF CallKnown, In
<1>2. phase[v] \in {"observed", "ensured", "preparing", "sync", "chunks"} => doing[v] \in Constructions
  BY DEF CallKnown
<1>3. \A j \in Constructions : status[j] = "SUCCEEDED" => status'[j] = "SUCCEEDED"
  BY StatusLasts, ConstructionAssumption DEF PreparationInv, Terminal
<1>4. CallFollows(v)'
  BY <1>2, <1>3 DEF CallFollows, In
<1> QED
  BY <1>1, <1>4

\* A job that no step touches, nor its preparation or source.
LEMMA JobStays ==
  ASSUME NEW j \in Constructions, JobSound(j), PreparationInv, [LeaseNext]_leaseVars,
         job'[j] = job[j], captured'[j] = captured[j], plan'[j] = plan[j],
         gen'[DocumentOf[j]] = gen[DocumentOf[j]],
         status[j] = "ABSENT" => status'[j] = "ABSENT"
  PROVE  JobSound(j)'
<1>1. status[j] = "FAILED_PERMANENT" => status'[j] = "FAILED_PERMANENT"
  BY StatusLasts, ConstructionAssumption DEF PreparationInv, Terminal
<1> QED
  BY <1>1 DEF JobSound

\* A step of one call.
LEMMA CallGoesOn ==
  ASSUME ConstructionInv, NEW w \in Workers, PreparationInv', [LeaseNext]_leaseVars, CallsTypeOK',
         \A v \in Workers \ {w} :
            /\ phase'[v] = phase[v] /\ doing'[v] = doing[v] /\ thread'[v] = thread[v]
            /\ at'[v] = at[v] /\ asked'[v] = asked[v],
         CallKnown(w)', CallFollows(w)',
         \A j \in Constructions : job[j] # "ABSENT" => job'[j] # "ABSENT",
         \A j \in Constructions : JobSound(j)'
  PROVE  ConstructionInv'
<1>1. ASSUME NEW v \in Workers, v # w PROVE CallKnown(v)' /\ CallFollows(v)'
  BY <1>1, FollowsOn DEF ConstructionInv
<1> QED
  BY <1>1 DEF ConstructionInv

LEMMA StepPreparationPreserves ==
  ASSUME ConstructionInv, NEW w \in Workers, StepPreparation(w)
  PROVE  ConstructionInv'
<1>1. /\ phase[w] \in {"preparing", "upload"} /\ Prepare(w) /\ UNCHANGED <<auditVars, runVars>>
      /\ PreparationInv
  BY DEF StepPreparation, ConstructionInv
<1>2. PreparationInv' /\ Unmoved(w)
  BY <1>1, PreparePreserves, PrepareMovesOne
<1>3. CallsTypeOK'
  BY <1>1 DEF ConstructionInv, CallsTypeOK, auditVars, runVars
<1>4. ASSUME NEW v \in Workers PROVE CallKnown(v)' /\ CallFollows(v)'
  BY <1>1, <1>2, FollowsOn DEF ConstructionInv, Unmoved, auditVars, runVars
<1>5. ASSUME NEW j \in Constructions PROVE JobSound(j)'
  BY <1>1, <1>2, JobStays, ConstructionAssumption DEF ConstructionInv, Unmoved, auditVars
<1> QED
  BY <1>2, <1>3, <1>4, <1>5 DEF ConstructionInv

\* Where a call stands after a step of its own.
LEMMA Entered ==
  ASSUME CallsTypeOK, NEW w \in Workers, NEW p, Enter(w, p)
  PROVE  phase'[w] = p /\ \A v \in Workers \ {w} : phase'[v] = phase[v]
BY DEF CallsTypeOK, Enter

LEMMA ObserveAndEnsurePreserve ==
  ASSUME ConstructionInv, NEW w \in Workers,
         EnsureJob(w) \/ \E j \in Constructions : Observe(w, j)
  PROVE  ConstructionInv'
<1>1. /\ UNCHANGED preparationVars /\ UNCHANGED thread
      /\ PreparationInv /\ CallsTypeOK /\ CallKnown(w) /\ CallFollows(w)
  BY DEF EnsureJob, Observe, ConstructionInv
<1>2. PreparationInv' /\ [LeaseNext]_leaseVars
      /\ UNCHANGED <<at, asked, plan, gen, status>>
  BY <1>1, ExpirePreserves DEF preparationVars, leaseVars, callVars, sourceVars, workVars
<1>3. at[w] = "idle"
  BY <1>1 DEF EnsureJob, Observe, CallFollows, In, At
<1>4. CASE \E j \in Constructions : Observe(w, j)
  <2>1. PICK j \in Constructions : Observe(w, j)
    BY <1>4
  <2>2. /\ In(w, "idle") /\ Enter(w, "observed") /\ doing' = [doing EXCEPT ![w] = j]
        /\ UNCHANGED auditVars
    BY <2>1 DEF Observe
  <2>3. phase'[w] = "observed" /\ \A v \in Workers \ {w} : phase'[v] = phase[v]
    BY <1>1, <2>2, Entered
  <2>4. /\ doing' \in [Workers -> Constructions \cup {NoJob}] /\ doing'[w] = j
        /\ \A v \in Workers \ {w} : doing'[v] = doing[v]
    BY <1>1, <2>2 DEF CallsTypeOK
  <2>5. phase' \in [Workers -> {"idle", "observed", "ensured", "preparing", "sync", "chunks", "upload"}]
    BY <1>1, <2>2 DEF CallsTypeOK, Enter
  <2>6. observed' = [v \in Workers |-> observed'[v]]
    BY <1>1, <2>1 DEF CallsTypeOK, Observe
  <2>7. CallsTypeOK'
    BY <1>1, <2>2, <2>4, <2>5, <2>6 DEF CallsTypeOK, auditVars
  <2>8. CallKnown(w)' /\ CallFollows(w)'
    BY <1>1, <1>2, <1>3, <2>2, <2>3, <2>4 DEF CallKnown, CallFollows, In
  <2>9. ASSUME NEW i \in Constructions PROVE JobSound(i)'
    BY <1>1, <1>2, <2>2, JobStays DEF ConstructionInv, auditVars
  <2> QED
    BY <1>1, <1>2, <2>2, <2>3, <2>4, <2>7, <2>8, <2>9, CallGoesOn DEF auditVars
<1>5. CASE EnsureJob(w)
  <2>1. PICK j : j = doing[w]
    OBVIOUS
  <2>2. /\ In(w, "observed") /\ Enter(w, "ensured") /\ doing' = doing
        /\ captured' = IF job[j] = "ABSENT" THEN [captured EXCEPT ![j] = observed[w]] ELSE captured
        /\ job' = [job EXCEPT ![j] = IF @ \in {"ABSENT", "RETRY_WAIT"} THEN "RUNNING" ELSE @]
    BY <1>5, <2>1 DEF EnsureJob
  <2>3. j \in Constructions
    BY <1>1, <2>1, <2>2 DEF CallKnown, In
  <2>4. phase'[w] = "ensured" /\ \A v \in Workers \ {w} : phase'[v] = phase[v]
    BY <1>1, <2>2, Entered
  <2>5. phase' \in [Workers -> {"idle", "observed", "ensured", "preparing", "sync", "chunks", "upload"}]
    BY <1>1, <2>2 DEF CallsTypeOK, Enter
  <2>6. observed' = [v \in Workers |-> observed'[v]]
    BY <1>1, <1>5 DEF CallsTypeOK, EnsureJob
  <2>7. /\ job' \in [Constructions -> {"ABSENT", "RUNNING", "RETRY_WAIT", "COMPLETED", "FAILED"}]
        /\ job'[j] = IF job[j] \in {"ABSENT", "RETRY_WAIT"} THEN "RUNNING" ELSE job[j]
        /\ \A i \in Constructions \ {j} : job'[i] = job[i]
    BY <1>1, <2>2, <2>3 DEF CallsTypeOK
  <2>8. /\ captured' = [i \in Constructions |-> captured'[i]]
        /\ \A i \in Constructions : i # j \/ job[i] # "ABSENT" => captured'[i] = captured[i]
    BY <1>1, <2>2, <2>3 DEF CallsTypeOK
  <2>9. CallsTypeOK'
    BY <1>1, <2>2, <2>5, <2>6, <2>7, <2>8 DEF CallsTypeOK
  <2>10. CallKnown(w)' /\ CallFollows(w)'
    BY <1>1, <1>2, <1>3, <2>1, <2>2, <2>3, <2>4, <2>7 DEF CallKnown, CallFollows, In
  <2>11. ASSUME NEW i \in Constructions PROVE JobSound(i)'
    <3>1. JobSound(i)
      BY DEF ConstructionInv
    <3>2. CASE i # j
      BY <1>1, <1>2, <2>7, <2>8, <3>1, <3>2, JobStays
    <3>3. CASE i = j /\ job[i] = "ABSENT"
      BY <1>2, <2>7, <3>1, <3>3 DEF JobSound
    <3>4. CASE i = j /\ job[i] # "ABSENT"
      BY <1>2, <2>7, <2>8, <3>1, <3>4 DEF JobSound
    <3> QED
      BY <3>2, <3>3, <3>4
  <2> QED
    BY <1>1, <1>2, <2>2, <2>3, <2>4, <2>7, <2>9, <2>10, <2>11, CallGoesOn
<1> QED
  BY <1>4, <1>5

\* What a call does when it begins a preparation.
LEMMA EnsureMovesOne ==
  ASSUME PreparationInv, NEW w \in Workers, NEW j \in Jobs, NEW p, EnsurePreparation(w, j, p)
  PROVE  /\ PreparationInv' /\ [LeaseNext]_leaseVars /\ gen' = gen
         /\ p.gen = gen[DocumentOf[j]] /\ asked'[w] = j
         /\ \A v \in Workers \ {w} : at'[v] = at[v] /\ asked'[v] = asked[v]
         /\ \A i \in Jobs \ {j} : status'[i] = status[i] /\ plan'[i] = plan[i]
         /\ plan'[j] = p /\ (status[j] # "ABSENT" => status'[j] = status[j])
<1>1. PreparationTypeOK /\ LeaseTypeOK
  BY DEF PreparationInv, LeaseInv
<1>2. PreparationInv'
  BY EnsurePreserves
<1>3. /\ at' = [at EXCEPT ![w] = "claim"] /\ asked' = [asked EXCEPT ![w] = j]
      /\ gen' = gen /\ p.gen = gen[DocumentOf[j]]
  BY DEF EnsurePreparation, GoTo, sourceVars
<1>4. [LeaseNext]_leaseVars
  BY DEF EnsurePreparation, LeaseNext, leaseVars
<1>5. /\ asked'[w] = j
      /\ \A v \in Workers \ {w} : at'[v] = at[v] /\ asked'[v] = asked[v]
  BY <1>1, <1>3 DEF PreparationTypeOK
<1>6. CASE RegisterJob(j) /\ plan' = [plan EXCEPT ![j] = p]
  BY <1>1, <1>2, <1>3, <1>4, <1>5, <1>6 DEF RegisterJob, LeaseTypeOK, PreparationTypeOK
<1>7. CASE plan[j] = p /\ UNCHANGED <<leaseVars, plan>>
  BY <1>2, <1>3, <1>4, <1>5, <1>7 DEF leaseVars
<1> QED
  BY <1>6, <1>7 DEF EnsurePreparation

LEMMA CallPreparationPreserves ==
  ASSUME ConstructionInv, NEW w \in Workers, CallPreparation(w)
  PROVE  ConstructionInv'
<1>1. PICK j : j = doing[w]
  OBVIOUS
<1>2. /\ In(w, "ensured") /\ UNCHANGED <<auditVars, doing, observed, thread>>
      /\ PreparationInv /\ CallsTypeOK /\ CallKnown(w) /\ CallFollows(w)
  BY DEF CallPreparation, ConstructionInv
<1>3. j \in Constructions /\ j \in Jobs /\ job[j] # "ABSENT" /\ at[w] = "idle" /\ JobSound(j)
  BY <1>1, <1>2, ConstructionAssumption DEF CallKnown, CallFollows, In, ConstructionInv
<1>4. ASSUME NEW p \in {"preparing", "sync"}, Enter(w, p)
      PROVE  /\ CallsTypeOK' /\ CallKnown(w)' /\ phase'[w] = p
             /\ \A v \in Workers \ {w} : phase'[v] = phase[v]
  <2>1. phase'[w] = p /\ \A v \in Workers \ {w} : phase'[v] = phase[v]
    BY <1>2, <1>4, Entered
  <2>2. phase' \in [Workers -> {"idle", "observed", "ensured", "preparing", "sync", "chunks", "upload"}]
    BY <1>2, <1>4 DEF CallsTypeOK, Enter
  <2> QED
    BY <1>2, <2>1, <2>2 DEF CallsTypeOK, CallKnown, In, auditVars
<1>5. CASE EnsurePreparation(w, j, captured[j]) /\ Enter(w, "preparing")
  <2>1. PICK p : p = captured[j]
    OBVIOUS
  <2>2. EnsurePreparation(w, j, p)
    BY <1>5, <2>1
  <2>3. /\ PreparationInv' /\ [LeaseNext]_leaseVars /\ gen' = gen
        /\ p.gen = gen[DocumentOf[j]] /\ asked'[w] = j
        /\ \A v \in Workers \ {w} : at'[v] = at[v] /\ asked'[v] = asked[v]
        /\ \A i \in Jobs \ {j} : status'[i] = status[i] /\ plan'[i] = plan[i]
        /\ plan'[j] = p /\ (status[j] # "ABSENT" => status'[j] = status[j])
    BY <1>2, <1>3, <2>2, EnsureMovesOne
  <2>4. CallFollows(w)'
    BY <1>1, <1>2, <1>3, <1>4, <1>5, <2>3 DEF CallFollows, In, auditVars
  <2>5. JobSound(j)'
    BY <1>2, <1>3, <2>1, <2>3 DEF JobSound, auditVars
  <2>6. ASSUME NEW i \in Constructions, i # j PROVE JobSound(i)'
    BY <1>2, <2>3, <2>6, JobStays, ConstructionAssumption DEF ConstructionInv, auditVars
  <2> QED
    BY <1>2, <1>4, <1>5, <2>3, <2>4, <2>5, <2>6, CallGoesOn DEF auditVars
<1>6. CASE Enter(w, "sync") /\ UNCHANGED preparationVars
  <2>1. PreparationInv' /\ [LeaseNext]_leaseVars
        /\ UNCHANGED <<at, asked, plan, gen, status>>
    BY <1>2, <1>6, ExpirePreserves DEF preparationVars, leaseVars, callVars, sourceVars, workVars
  <2>2. CallFollows(w)'
    BY <1>1, <1>2, <1>3, <1>4, <1>6, <2>1 DEF CallFollows, In, auditVars
  <2>3. ASSUME NEW i \in Constructions PROVE JobSound(i)'
    BY <1>2, <2>1, JobStays DEF ConstructionInv, auditVars
  <2> QED
    BY <1>2, <1>4, <1>6, <2>1, <2>2, <2>3, CallGoesOn DEF auditVars
<1> QED
  BY <1>1, <1>5, <1>6 DEF CallPreparation

LEMMA UploadPreserves ==
  ASSUME ConstructionInv, NEW w \in Workers, NEW j \in Jobs, Upload(w, j)
  PROVE  ConstructionInv'
<1>1. PICK p : EnsurePreparation(w, j, p)
  BY DEF Upload
<1>2. /\ In(w, "idle") /\ Enter(w, "upload") /\ j \notin Constructions
      /\ UNCHANGED <<auditVars, doing, observed, thread>>
      /\ PreparationInv /\ CallsTypeOK /\ CallKnown(w) /\ CallFollows(w)
  BY DEF Upload, ConstructionInv
<1>3. /\ PreparationInv' /\ [LeaseNext]_leaseVars /\ gen' = gen
      /\ \A v \in Workers \ {w} : at'[v] = at[v] /\ asked'[v] = asked[v]
      /\ \A i \in Jobs \ {j} : status'[i] = status[i] /\ plan'[i] = plan[i]
  BY <1>1, <1>2, EnsureMovesOne
<1>4. phase'[w] = "upload" /\ \A v \in Workers \ {w} : phase'[v] = phase[v]
  BY <1>2, Entered
<1>5. phase' \in [Workers -> {"idle", "observed", "ensured", "preparing", "sync", "chunks", "upload"}]
  BY <1>2 DEF CallsTypeOK, Enter
<1>6. CallsTypeOK' /\ CallKnown(w)' /\ CallFollows(w)'
  BY <1>2, <1>4, <1>5 DEF CallsTypeOK, CallKnown, CallFollows, In, auditVars
<1>7. ASSUME NEW i \in Constructions PROVE JobSound(i)'
  BY <1>2, <1>3, JobStays, ConstructionAssumption DEF ConstructionInv, auditVars
<1> QED
  BY <1>2, <1>3, <1>4, <1>6, <1>7, CallGoesOn DEF auditVars

\* A call that leaves its preparation, or dies.
LEMMA LeavingMovesOne ==
  ASSUME PreparationInv, NEW w \in Workers, Leave(w) \/ CrashPreparation(w)
  PROVE  /\ PreparationInv' /\ [LeaseNext]_leaseVars /\ UNCHANGED <<gen, plan, status>>
         /\ at'[w] = "idle"
         /\ \A v \in Workers \ {w} : at'[v] = at[v] /\ asked'[v] = asked[v]
<1>1. PreparationTypeOK
  BY DEF PreparationInv
<1>2. at' = [at EXCEPT ![w] = "idle"] /\ asked' = [asked EXCEPT ![w] = NoJob]
  BY DEF Leave, CrashPreparation, Forget, GoTo
<1>3. UNCHANGED <<gen, plan, status>> /\ [LeaseNext]_leaseVars
  BY DEF Leave, CrashPreparation, CrashWorker, sourceVars, workVars, leaseVars, LeaseNext
<1> QED
  BY <1>1, <1>2, <1>3, LeavePreserves DEF PreparationTypeOK

LEMMA LeavingPreserves ==
  ASSUME ConstructionInv, NEW w \in Workers, LeavePreparation(w) \/ EndUpload(w)
  PROVE  ConstructionInv'
<1>1. /\ Leave(w) /\ UNCHANGED <<auditVars, doing, observed>>
      /\ PreparationInv /\ CallsTypeOK /\ CallKnown(w) /\ CallFollows(w)
  BY DEF LeavePreparation, EndUpload, ConstructionInv
<1>2. /\ PreparationInv' /\ [LeaseNext]_leaseVars /\ UNCHANGED <<gen, plan, status>>
      /\ at'[w] = "idle"
      /\ \A v \in Workers \ {w} : at'[v] = at[v] /\ asked'[v] = asked[v]
  BY <1>1, LeavingMovesOne
<1>3. /\ \A v \in Workers \ {w} : phase'[v] = phase[v] /\ thread'[v] = thread[v]
      /\ CallsTypeOK' /\ CallKnown(w)' /\ CallFollows(w)'
  <2>1. CASE EndUpload(w)
    <3>1. In(w, "upload") /\ Enter(w, "idle") /\ thread' = thread
      BY <2>1 DEF EndUpload
    <3>2. phase'[w] = "idle" /\ \A v \in Workers \ {w} : phase'[v] = phase[v]
      BY <1>1, <3>1, Entered
    <3>3. phase' \in [Workers -> {"idle", "observed", "ensured", "preparing", "sync", "chunks", "upload"}]
      BY <1>1, <3>1 DEF CallsTypeOK, Enter
    <3> QED
      BY <1>1, <1>2, <3>1, <3>2, <3>3 DEF CallsTypeOK, CallKnown, CallFollows, In, auditVars
  <2>2. CASE LeavePreparation(w) /\ ~At(w, "returned")
    <3>1. In(w, "preparing") /\ Enter(w, "sync") /\ thread' = thread
      BY <2>2 DEF LeavePreparation
    <3>2. phase'[w] = "sync" /\ \A v \in Workers \ {w} : phase'[v] = phase[v]
      BY <1>1, <3>1, Entered
    <3>3. phase' \in [Workers -> {"idle", "observed", "ensured", "preparing", "sync", "chunks", "upload"}]
      BY <1>1, <3>1 DEF CallsTypeOK, Enter
    <3> QED
      BY <1>1, <1>2, <3>1, <3>2, <3>3 DEF CallsTypeOK, CallKnown, CallFollows, In, auditVars
  <2>3. CASE LeavePreparation(w) /\ At(w, "returned")
    <3>1. PICK t : t = [i \in Chunks(doing[w]) |-> NewThread]
      OBVIOUS
    <3>2. In(w, "preparing") /\ Enter(w, "chunks") /\ thread' = [thread EXCEPT ![w] = t]
      BY <2>3, <3>1 DEF LeavePreparation
    <3>3. phase'[w] = "chunks" /\ \A v \in Workers \ {w} : phase'[v] = phase[v]
      BY <1>1, <3>2, Entered
    <3>4. phase' \in [Workers -> {"idle", "observed", "ensured", "preparing", "sync", "chunks", "upload"}]
      BY <1>1, <3>2 DEF CallsTypeOK, Enter
    <3>5. /\ thread'[w] = t /\ thread' = [v \in Workers |-> thread'[v]]
          /\ \A v \in Workers \ {w} : thread'[v] = thread[v]
      BY <1>1, <3>2 DEF CallsTypeOK
    <3>6. DOMAIN t = Chunks(doing[w])
      BY <3>1
    <3>7. CallsTypeOK'
      BY <1>1, <3>4, <3>5 DEF CallsTypeOK, auditVars
    <3>8. CallKnown(w)'
      BY <1>1, <3>2, <3>3, <3>5, <3>6 DEF CallKnown, In, Chunks
    <3>9. status[doing[w]] = "SUCCEEDED"
      BY <1>1, <2>3, <3>2 DEF ConstructionInv, PreparationInv, CallSound, CallFollows, In, At
    <3>10. CallFollows(w)'
      BY <1>1, <1>2, <3>2, <3>3, <3>9 DEF CallFollows, In, auditVars
    <3> QED
      BY <3>3, <3>5, <3>7, <3>8, <3>10
  <2> QED
    BY <2>1, <2>2, <2>3
<1>4. ASSUME NEW i \in Constructions PROVE JobSound(i)'
  BY <1>1, <1>2, JobStays, ConstructionAssumption DEF ConstructionInv, auditVars
<1> QED
  BY <1>1, <1>2, <1>3, <1>4, CallGoesOn DEF auditVars

\* A call that is done, with its preparation at rest and each job sound.
LEMMA DoneGoesOn ==
  ASSUME ConstructionInv, NEW w \in Workers, Done(w), captured' = captured,
         PreparationInv', [LeaseNext]_leaseVars, at'[w] = "idle",
         \A v \in Workers \ {w} : at'[v] = at[v] /\ asked'[v] = asked[v],
         job' \in [Constructions -> {"ABSENT", "RUNNING", "RETRY_WAIT", "COMPLETED", "FAILED"}],
         \A j \in Constructions : job[j] # "ABSENT" => job'[j] # "ABSENT",
         \A j \in Constructions : JobSound(j)'
  PROVE  ConstructionInv'
<1>1. /\ CallsTypeOK' /\ CallKnown(w)' /\ phase'[w] = "idle"
      /\ \A v \in Workers \ {w} : phase'[v] = phase[v] /\ doing'[v] = doing[v] /\ thread'[v] = thread[v]
  BY DoneLeaves DEF ConstructionInv
<1>2. CallFollows(w)'
  BY <1>1 DEF CallFollows, In
<1> QED
  BY <1>1, <1>2, CallGoesOn

\* A job whose status changes while nothing else of it does.
LEMMA JobMoves ==
  ASSUME NEW j \in Constructions, JobSound(j), captured'[j] = captured[j],
         UNCHANGED <<status, plan, gen>>,
         job[j] # "ABSENT" => job'[j] # "ABSENT",
         job'[j] = "FAILED" => status[j] = "FAILED_PERMANENT",
         \/ job'[j] \in {job[j], "COMPLETED", "FAILED"}
         \/ job[j] \notin {"ABSENT", "COMPLETED", "FAILED"}
  PROVE  JobSound(j)'
BY DEF JobSound

LEMMA CallEndsPreserve ==
  ASSUME ConstructionInv, NEW w \in Workers, SyncFailure(w) \/ CompleteJob(w) \/ RaiseFirst(w)
  PROVE  ConstructionInv'
<1>1. PICK j : j = doing[w]
  OBVIOUS
<1>2. /\ Done(w) /\ captured' = captured /\ UNCHANGED preparationVars
      /\ phase[w] \in {"sync", "chunks"}
      /\ PreparationInv /\ CallsTypeOK /\ CallKnown(w) /\ CallFollows(w)
  BY DEF SyncFailure, CompleteJob, RaiseFirst, ConstructionInv, auditVars, In
<1>3. PreparationInv' /\ [LeaseNext]_leaseVars
      /\ UNCHANGED <<at, asked, plan, gen, status>>
  BY <1>2, ExpirePreserves DEF preparationVars, leaseVars, callVars, sourceVars, workVars
<1>4. j \in Constructions /\ job[j] # "ABSENT" /\ at[w] = "idle" /\ JobSound(j)
  BY <1>1, <1>2 DEF CallKnown, CallFollows, ConstructionInv
<1>5. PICK s \in {"COMPLETED", "FAILED", "RETRY_WAIT", job[j]} :
        /\ job' = [job EXCEPT ![j] = s]
        /\ s = "FAILED" => status[j] = "FAILED_PERMANENT"
        /\ s # job[j] /\ s = "RETRY_WAIT" => job[j] \notin {"COMPLETED", "FAILED"}
  <2>1. CASE SyncFailure(w)
    <3>1. job' = [job EXCEPT ![j] = Synced(j)]
      BY <1>1, <2>1 DEF SyncFailure
    <3>2. /\ Synced(j) \in {"COMPLETED", "FAILED", "RETRY_WAIT", job[j]}
          /\ Synced(j) = "FAILED" => status[j] = "FAILED_PERMANENT"
          /\ Synced(j) # job[j] /\ Synced(j) = "RETRY_WAIT" => job[j] \notin {"COMPLETED", "FAILED"}
      BY <1>4 DEF Synced, JobSound
    <3> QED
      BY <3>1, <3>2
  <2>2. CASE CompleteJob(w)
    <3>1. PICK s : s = IF \A i \in Chunks(j) : Backed(<<j, i>>) THEN "COMPLETED" ELSE job[j]
      OBVIOUS
    <3>2. job' = [job EXCEPT ![j] = s]
      BY <1>1, <2>2, <3>1 DEF CompleteJob
    <3>3. s \in {"COMPLETED", job[j]}
      BY <3>1
    <3> QED
      BY <1>4, <3>2, <3>3 DEF JobSound
  <2>3. CASE RaiseFirst(w)
    <3>1. job' = [job EXCEPT ![j] = job[j]]
      BY <1>2, <2>3 DEF RaiseFirst, auditVars, CallsTypeOK
    <3> QED
      BY <1>4, <3>1 DEF JobSound
  <2> QED
    BY <2>1, <2>2, <2>3
<1>6. /\ job' \in [Constructions -> {"ABSENT", "RUNNING", "RETRY_WAIT", "COMPLETED", "FAILED"}]
      /\ job'[j] = s /\ \A i \in Constructions \ {j} : job'[i] = job[i]
  BY <1>2, <1>4, <1>5 DEF CallsTypeOK
<1>7. JobSound(j)'
  BY <1>2, <1>3, <1>4, <1>5, <1>6, JobMoves
<1>8. ASSUME NEW i \in Constructions, i # j PROVE JobSound(i)'
  BY <1>2, <1>3, <1>6, <1>8, JobStays DEF ConstructionInv
<1> QED
  BY <1>2, <1>3, <1>4, <1>5, <1>6, <1>7, <1>8, DoneGoesOn

LEMMA CrashPreserves ==
  ASSUME ConstructionInv, NEW w \in Workers, Crash(w)
  PROVE  ConstructionInv'
<1>1. /\ Done(w) /\ UNCHANGED auditVars
      /\ PreparationInv /\ CallsTypeOK /\ CallFollows(w)
  BY DEF Crash, ConstructionInv
<1>2. /\ PreparationInv' /\ [LeaseNext]_leaseVars /\ UNCHANGED <<gen, plan, status>>
      /\ at'[w] = "idle"
      /\ \A v \in Workers \ {w} : at'[v] = at[v] /\ asked'[v] = asked[v]
  <2>1. CASE phase[w] \in {"preparing", "upload"}
    BY <1>1, <2>1, LeavingMovesOne DEF Crash
  <2>2. CASE phase[w] \notin {"preparing", "upload"}
    <3>1. UNCHANGED preparationVars
      BY <2>2 DEF Crash
    <3>2. PreparationInv' /\ [LeaseNext]_leaseVars
          /\ UNCHANGED <<at, asked, plan, gen, status>>
      BY <1>1, <3>1, ExpirePreserves DEF preparationVars, leaseVars, callVars, sourceVars, workVars
    <3> QED
      BY <1>1, <2>2, <3>2 DEF CallFollows
  <2> QED
    BY <2>1, <2>2
<1>3. ASSUME NEW i \in Constructions PROVE JobSound(i)'
  BY <1>1, <1>2, JobStays, ConstructionAssumption DEF ConstructionInv, auditVars
<1>4. /\ job' \in [Constructions -> {"ABSENT", "RUNNING", "RETRY_WAIT", "COMPLETED", "FAILED"}]
      /\ captured' = captured
      /\ \A j \in Constructions : job[j] # "ABSENT" => job'[j] # "ABSENT"
  BY <1>1 DEF CallsTypeOK, auditVars
<1> QED
  BY <1>1, <1>2, <1>3, <1>4, DoneGoesOn

\* What the steps on a chunk leave as it is.
OnChunk(w, i) ==
    \/ ReadOutcome(w, i) \/ MissDeadline(w, i) \/ ReadFinal(w, i) \/ Recover(w, i)
    \/ \E said \in Said : Answer(w, i, said)
    \/ RecordRetryableFailure(w, i) \/ PersistFinal(w, i) \/ CheckAudit(w, i)
    \/ PersistRecords(w, i) \/ PersistOutcome(w, i)

LEMMA ThreadsRemain ==
  ASSUME CallsTypeOK, NEW w \in Workers, NEW i, OnChunk(w, i)
  PROVE  /\ thread' = [v \in Workers |-> thread'[v]]
         /\ \A v \in Workers : DOMAIN thread'[v] = DOMAIN thread[v]
         /\ \A v \in Workers \ {w} : thread'[v] = thread[v]
<1>1. \E new : thread' = [thread EXCEPT ![w] = [thread[w] EXCEPT ![i] = new]]
  <2>1. ASSUME NEW p, Go(w, i, p)
        PROVE  \E new : thread' = [thread EXCEPT ![w] = [thread[w] EXCEPT ![i] = new]]
    BY <2>1 DEF Go, CallsTypeOK
  <2>2. ASSUME NEW p, NEW a, GoWith(w, i, p, a)
        PROVE  \E new : thread' = [thread EXCEPT ![w] = [thread[w] EXCEPT ![i] = new]]
    <3>1. PICK new : new = [thread[w][i] EXCEPT !.at = p, !.audit = {a}]
      OBVIOUS
    <3>2. thread' = [thread EXCEPT ![w] = [thread[w] EXCEPT ![i] = new]]
      BY <2>2, <3>1 DEF GoWith, CallsTypeOK
    <3> QED
      BY <3>2
  <2>3. ASSUME NEW r, NEW n, Ask(w, i, r, n)
        PROVE  \E new : thread' = [thread EXCEPT ![w] = [thread[w] EXCEPT ![i] = new]]
    <3>1. PICK p : p = IF Stopped(w) THEN "failed" ELSE "asking"
      OBVIOUS
    <3>2. PICK new : new = [thread[w][i] EXCEPT !.at = p, !.run = r, !.tries = n]
      OBVIOUS
    <3>3. thread' = [thread EXCEPT ![w][i].at = p, ![w][i].run = r, ![w][i].tries = n]
      BY <2>3, <3>1 DEF Ask
    <3>4. thread = [v \in Workers |-> thread[v]]
      BY DEF CallsTypeOK
    <3>5. thread' = [thread EXCEPT ![w] = [thread[w] EXCEPT ![i] = new]]
      BY <3>2, <3>3, <3>4
    <3> QED
      BY <3>5
  <2>4. CASE ReadOutcome(w, i)
    <3>1. PICK p, readable : thread' = [thread EXCEPT ![w][i].at = p, ![w][i].done = readable]
      BY <2>4 DEF ReadOutcome
    <3>2. PICK new : new = [thread[w][i] EXCEPT !.at = p, !.done = readable]
      OBVIOUS
    <3>3. thread = [v \in Workers |-> thread[v]]
      BY DEF CallsTypeOK
    <3>4. thread' = [thread EXCEPT ![w] = [thread[w] EXCEPT ![i] = new]]
      BY <3>1, <3>2, <3>3
    <3> QED
      BY <3>4
  <2>5. CASE ReadFinal(w, i)
    <3>1. PICK mode : mode = Mode[Piece(w, i)[1]]
      OBVIOUS
    <3>2. \/ \E a \in final[Piece(w, i)] : GoWith(w, i, "check", a)
          \/ Go(w, i, "failed") \/ GoWith(w, i, "save", SourceAudit)
          \/ Ask(w, i, 0, 0) \/ Go(w, i, "recover")
      BY <2>5 DEF ReadFinal
    <3> QED
      BY <2>1, <2>2, <2>3, <3>2
  <2>6. CASE Recover(w, i)
    <3>1. \/ Go(w, i, "failed") \/ Ask(w, i, 0, 0)
          \/ \E a \in EndOfRun(Piece(w, i)) :
                GoWith(w, i, "save", Audit(a.run, TRUE, a.said = "USABLE"))
      BY <2>6 DEF Recover, Recovered
    <3>2. ASSUME NEW a \in EndOfRun(Piece(w, i)),
                 GoWith(w, i, "save", Audit(a.run, TRUE, a.said = "USABLE"))
          PROVE  \E new : thread' = [thread EXCEPT ![w] = [thread[w] EXCEPT ![i] = new]]
      <4>1. PICK b : b = Audit(a.run, TRUE, a.said = "USABLE")
        OBVIOUS
      <4>2. GoWith(w, i, "save", b)
        BY <3>2, <4>1 DEF GoWith
      <4> QED
        BY <2>2, <4>2
    <3> QED
      BY <2>1, <2>3, <3>1, <3>2
  <2>7. ASSUME NEW said \in Said, Answer(w, i, said)
        PROVE  \E new : thread' = [thread EXCEPT ![w] = [thread[w] EXCEPT ![i] = new]]
    <3>1. PICK run, n, a :
            /\ run = IF thread[w][i].run = 0 THEN lastRun + 1 ELSE thread[w][i].run
            /\ n = thread[w][i].tries + 1
            /\ a = Audit(run, FALSE, said = "USABLE")
      OBVIOUS
    <3>2. \/ Go(w, i, "report") \/ Ask(w, i, run, n)
          \/ GoWith(w, i, "save", Audit(run, FALSE, said = "USABLE"))
      BY <2>7, <3>1 DEF Answer
    <3>3. ASSUME GoWith(w, i, "save", Audit(run, FALSE, said = "USABLE"))
          PROVE  GoWith(w, i, "save", a)
      BY <3>1, <3>3 DEF GoWith
    <3> QED
      BY <2>1, <2>2, <2>3, <3>2, <3>3
  <2>8. CASE CheckAudit(w, i)
    <3>1. \E p : Go(w, i, p)
      BY <2>8 DEF CheckAudit
    <3> QED
      BY <2>1, <3>1
  <2>9. CASE \/ MissDeadline(w, i) \/ RecordRetryableFailure(w, i) \/ PersistFinal(w, i)
             \/ PersistRecords(w, i) \/ PersistOutcome(w, i)
    <3>1. Go(w, i, "failed") \/ Go(w, i, "check") \/ Go(w, i, "outcome") \/ Go(w, i, "done")
      BY <2>9 DEF MissDeadline, RecordRetryableFailure, PersistFinal, PersistRecords, PersistOutcome
    <3> QED
      BY <2>1, <3>1
  <2> QED
    BY <2>4, <2>5, <2>6, <2>7, <2>8, <2>9 DEF OnChunk
<1>2. PICK new, t : /\ thread' = [thread EXCEPT ![w] = t]
                    /\ t = [thread[w] EXCEPT ![i] = new]
  BY <1>1
<1>3. DOMAIN t = DOMAIN thread[w]
  BY <1>2
<1>4. thread = [v \in Workers |-> thread[v]]
  BY DEF CallsTypeOK
<1> QED
  BY <1>2, <1>3, <1>4

LEMMA ChunkStepPreserves ==
  ASSUME ConstructionInv, NEW w \in Workers, NEW i \in DOMAIN thread[w], OnChunk(w, i)
  PROVE  ConstructionInv'
<1>1. PICK j : j = doing[w]
  OBVIOUS
<1>2. /\ UNCHANGED <<preparationVars, captured, phase, doing, observed>>
      /\ In(w, "chunks")
  BY DEF OnChunk, ReadOutcome, MissDeadline, ReadFinal, Recover, Answer, RecordRetryableFailure,
         PersistFinal, CheckAudit, PersistRecords, PersistOutcome, auditVars, Thread
<1>3. PreparationInv /\ CallsTypeOK /\ CallKnown(w) /\ CallFollows(w)
  BY DEF ConstructionInv
<1>4. PreparationInv' /\ [LeaseNext]_leaseVars
      /\ UNCHANGED <<at, asked, plan, gen, status>>
  BY <1>2, <1>3, ExpirePreserves DEF preparationVars, leaseVars, callVars, sourceVars, workVars
<1>5. /\ j \in Constructions /\ job[j] # "ABSENT" /\ status[j] = "SUCCEEDED" /\ JobSound(j)
  BY <1>1, <1>2, <1>3 DEF CallKnown, CallFollows, In, ConstructionInv
<1>6. job' = job \/ job' = [job EXCEPT ![j] = AfterFailure(j)]
  BY <1>1 DEF OnChunk, ReadOutcome, MissDeadline, ReadFinal, Recover, Answer, RecordRetryableFailure,
         PersistFinal, CheckAudit, PersistRecords, PersistOutcome, auditVars
<1>7. /\ job' \in [Constructions -> {"ABSENT", "RUNNING", "RETRY_WAIT", "COMPLETED", "FAILED"}]
      /\ job'[j] = job[j] \/ (job[j] # "COMPLETED" /\ job'[j] = "RETRY_WAIT")
      /\ \A k \in Constructions \ {j} : job'[k] = job[k]
  BY <1>3, <1>5, <1>6 DEF AfterFailure, CallsTypeOK
<1>8. /\ thread' = [v \in Workers |-> thread'[v]]
      /\ \A v \in Workers : DOMAIN thread'[v] = DOMAIN thread[v]
  BY <1>3, ThreadsRemain
<1>9. CallsTypeOK'
  BY <1>2, <1>3, <1>7, <1>8 DEF CallsTypeOK
<1>10. ASSUME NEW v \in Workers PROVE CallKnown(v)' /\ CallFollows(v)'
  BY <1>2, <1>3, <1>4, <1>5, <1>7, <1>8, FollowsOn DEF ConstructionInv
<1>11. JobSound(j)'
  BY <1>2, <1>4, <1>5, <1>7, JobMoves DEF JobSound
<1>12. ASSUME NEW k \in Constructions, k # j PROVE JobSound(k)'
  BY <1>2, <1>3, <1>4, <1>7, <1>12, JobStays DEF ConstructionInv
<1> QED
  BY <1>4, <1>9, <1>10, <1>11, <1>12 DEF ConstructionInv

\* A document is deleted or retired: its constructions do not exist or are settled.
LEMMA SourceMovesPreserve ==
  ASSUME ConstructionInv, NEW d \in Documents, DeleteDocument(d) \/ RetireDocument(d)
  PROVE  ConstructionInv'
<1>1. /\ DeleteSource(d) \/ RetireSource(d)
      /\ UNCHANGED <<job, captured, runVars>>
      /\ \A j \in ConstructionsOf(d) : job[j] \notin {"RUNNING", "RETRY_WAIT"}
      /\ PreparationInv
  BY DEF DeleteDocument, RetireDocument, Settled, auditVars, ConstructionInv
<1>2. PreparationInv'
  BY <1>1, DeletePreserves, RetirePreserves
<1>3. /\ UNCHANGED <<leaseVars, plan, callVars>> /\ gen' = [gen EXCEPT ![d] = @ + 1]
  BY <1>1 DEF DeleteSource, RetireSource, workVars
<1>4. [LeaseNext]_leaseVars /\ UNCHANGED <<status, at, asked>>
  BY <1>3 DEF leaseVars, callVars
<1>5. CallsTypeOK'
  BY <1>1 DEF ConstructionInv, CallsTypeOK, runVars
<1>6. ASSUME NEW v \in Workers PROVE CallKnown(v)' /\ CallFollows(v)'
  BY <1>1, <1>4, FollowsOn DEF ConstructionInv, runVars
<1>7. ASSUME NEW j \in Constructions PROVE JobSound(j)'
  <2>1. JobSound(j) /\ j \in Jobs /\ DocumentOf[j] \in Documents
    BY ConstructionAssumption, PreparationAssumption DEF ConstructionInv
  <2>2. CASE DocumentOf[j] = d
    <3>1. job[j] \notin {"RUNNING", "RETRY_WAIT"}
      BY <1>1, <2>1, <2>2 DEF ConstructionsOf, JobsOf
    <3>2. job[j] \in {"ABSENT", "COMPLETED", "FAILED"}
      BY <3>1 DEF ConstructionInv, CallsTypeOK
    <3> QED
      BY <1>1, <1>3, <1>4, <2>1, <3>2 DEF JobSound
  <2>3. CASE DocumentOf[j] # d
    <3>1. gen'[DocumentOf[j]] = gen[DocumentOf[j]]
      BY <1>1, <1>3, <2>1, <2>3 DEF PreparationInv, PreparationTypeOK
    <3> QED
      BY <1>1, <1>3, <1>4, <2>1, <3>1, JobStays
  <2> QED
    BY <2>2, <2>3
<1> QED
  BY <1>2, <1>5, <1>6, <1>7 DEF ConstructionInv

LEMMA RestPreserves ==
  ASSUME ConstructionInv, UNCHANGED <<auditVars, runVars>>,
         UNCHANGED preparationVars \/ \E j \in Jobs : Expire(j)
  PROVE  ConstructionInv'
<1>1. PreparationInv' /\ PreparationInv
  BY ExpirePreserves DEF ConstructionInv
<1>2. /\ UNCHANGED <<status, at, asked, gen, plan>> /\ [LeaseNext]_leaseVars
  BY DEF Expire, LapseLease, LeaseNext, preparationVars, leaseVars, sourceVars, workVars, callVars
<1>3. CallsTypeOK'
  BY DEF ConstructionInv, CallsTypeOK, auditVars, runVars
<1>4. ASSUME NEW v \in Workers PROVE CallKnown(v)' /\ CallFollows(v)'
  BY <1>1, <1>2, FollowsOn DEF ConstructionInv, auditVars, runVars
<1>5. ASSUME NEW j \in Constructions PROVE JobSound(j)'
  BY <1>1, <1>2, JobStays DEF ConstructionInv, auditVars
<1> QED
  BY <1>1, <1>3, <1>4, <1>5 DEF ConstructionInv

LEMMA ConstructionStarts == Init => ConstructionInv
<1> SUFFICES ASSUME Init PROVE ConstructionInv
  OBVIOUS
<1>1. PreparationInv
  BY PreparationStarts DEF Init
<1>2. CallsTypeOK /\ \A w \in Workers : CallKnown(w)
  BY AuditStarts DEF AuditInv
<1>3. ASSUME NEW w \in Workers PROVE CallFollows(w)
  BY DEF Init, PreparationInit, CallFollows, In
<1>4. ASSUME NEW j \in Constructions PROVE JobSound(j)
  BY ConstructionAssumption DEF Init, PreparationInit, LeaseInit, JobSound
<1> QED
  BY <1>1, <1>2, <1>3, <1>4 DEF ConstructionInv

LEMMA ConstructionPreserved ==
  ASSUME ConstructionInv, [Next]_vars
  PROVE  ConstructionInv'
<1>1. ASSUME NEW w \in Workers, Construct(w) PROVE ConstructionInv'
  <2>1. ASSUME NEW i \in DOMAIN thread[w], OnChunk(w, i) PROVE ConstructionInv'
    BY <2>1, ChunkStepPreserves
  <2>2. \/ StepPreparation(w) \/ EnsureJob(w) \/ (\E j \in Constructions : Observe(w, j))
        \/ CallPreparation(w) \/ LeavePreparation(w)
        \/ SyncFailure(w) \/ CompleteJob(w) \/ RaiseFirst(w)
        \/ \E i \in DOMAIN thread[w] : OnChunk(w, i)
    BY <1>1 DEF Construct, OnChunk
  <2> QED
    BY <2>1, <2>2, StepPreparationPreserves, ObserveAndEnsurePreserve, CallPreparationPreserves,
       LeavingPreserves, CallEndsPreserve
<1>2. ASSUME NEW w \in Workers, Crash(w) \/ EndUpload(w) \/ \E j \in Jobs : Upload(w, j)
      PROVE  ConstructionInv'
  BY <1>2, CrashPreserves, LeavingPreserves, UploadPreserves
<1>3. ASSUME NEW d \in Documents, DeleteDocument(d) \/ RetireDocument(d) PROVE ConstructionInv'
  BY <1>3, SourceMovesPreserve
<1>4. ASSUME NEW j \in Jobs, LeaseLapses(j) PROVE ConstructionInv'
  BY <1>4, RestPreserves DEF LeaseLapses
<1>5. CASE UNCHANGED vars
  BY <1>5, RestPreserves DEF vars
<1> QED
  BY <1>1, <1>2, <1>3, <1>4, <1>5 DEF Next

(* ConstructionInv is an invariant, deletions and retirements at any time, *)
(* crashes and lapsing leases included.                                    *)
THEOREM ConstructionStaysSound == Spec => []ConstructionInv
<1>1. Init => ConstructionInv
  BY ConstructionStarts
<1>2. ConstructionInv /\ [Next]_vars => ConstructionInv'
  BY ConstructionPreserved
<1> QED
  BY <1>1, <1>2, PTL DEF Spec

(* OneVectorPerText for every instance: no two snapshots ever disagree on  *)
(* the vector of a text, nor do they with the cache (_read_artifact,       *)
(* _link_artifact_tx, _delete_document_tx).                                *)
THEOREM VectorsAgree == Spec => []OneVectorPerText
<1>1. ConstructionInv => OneVectorPerText
  BY DEF ConstructionInv, PreparationInv
<1> QED
  BY <1>1, ConstructionStaysSound, PTL

-----------------------------------------------------------------------------

\* The ways in which something of a job could appear.
LEMMA OnlyIngestSucceeds ==
  ASSUME ConstructionInv, NEW w \in Workers, Prepare(w),
         NEW j \in Constructions, job[j] # "ABSENT", captured[j].gen # gen[DocumentOf[j]],
         upsert[j] # "SUCCEEDED"
  PROVE  upsert'[j] # "SUCCEEDED"
<1>1. PreparationInv /\ JobSound(j) /\ j \in Jobs /\ PreparationTypeOK
  BY ConstructionAssumption DEF ConstructionInv, PreparationInv
<1>2. CASE upsert' = upsert
  BY <1>2
<1>3. CASE Ingest(w) \/ IngestInterrupted(w)
  <2>1. at[w] = "ingest"
    BY <1>3 DEF Ingest, IngestInterrupted, At
  <2>2. JobOf(w) \in Jobs /\ status[JobOf(w)] # "ABSENT"
    BY <1>1, <2>1, RunningCall DEF AtRest
  <2>3. CASE JobOf(w) # j
    <3>1. upsert'[j] = upsert[j]
      BY <1>1, <1>3, <2>2, <2>3 DEF Ingest, IngestInterrupted, PreparationTypeOK
    <3> QED
      BY <3>1
  <2>4. CASE JobOf(w) = j
    <3>1. ~Fresh(JobOf(w))
      BY <1>1, <2>2, <2>4 DEF JobSound, Fresh
    <3>2. \/ upsert' = upsert
          \/ \E s \in {"FAILED", "OPEN"} : upsert' = [upsert EXCEPT ![JobOf(w)] = s]
      BY <1>3, <3>1 DEF Ingest, IngestInterrupted
    <3> QED
      BY <1>1, <2>4, <3>2 DEF PreparationTypeOK
  <2> QED
    BY <2>3, <2>4
<1>4. CASE \/ ClaimPreparation(w) \/ ClaimRefused(w) \/ ReplayPreparation(w)
           \/ StartTask(w) \/ ReadArtifact(w) \/ ProviderFails(w) \/ PersistArtifact(w)
           \/ LinkArtifact(w) \/ CompleteTask(w) \/ FinishPreparation(w)
           \/ MarkTaskFailed(w) \/ ReportFailure(w)
  <2>1. upsert' = upsert
    BY <1>4 DEF ClaimPreparation, ClaimRefused, ReplayPreparation, StartTask, ReadArtifact,
         ProviderFails, PersistArtifact, LinkArtifact, CompleteTask, FinishPreparation,
         MarkTaskFailed, ReportFailure, Refused, workVars
  <2> QED
    BY <1>2, <2>1
<1> QED
  BY <1>3, <1>4 DEF Prepare

LEMMA CompletedRepeats ==
  ASSUME ConstructionInv, AuditInv, NEW w \in Workers, NEW i,
         Thread(w, i, "persist") \/ Thread(w, i, "outcome"),
         captured[doing[w]].gen # gen[DocumentOf[doing[w]]]
  PROVE  \E a, b : /\ thread[w][i].audit = {a} /\ outcome[Piece(w, i)] = {b}
                   /\ Thread(w, i, "persist") /\ Piece(w, i) \notin collected =>
                         a.run \in records[Piece(w, i)]
<1>1. PICK c, j : c = Piece(w, i) /\ j = doing[w]
  OBVIOUS
<1>2. /\ In(w, "chunks") /\ c \in Pieces /\ j \in Constructions /\ c[1] = j
      /\ ChunkSound(c) /\ Sound(c, thread[w][i])
  BY <1>1, AtPiece
<1>3. job[j] = "COMPLETED"
  BY <1>1, <1>2 DEF ConstructionInv, CallFollows, JobSound, In
<1>4. thread[w][i].at \in {"persist", "outcome"} /\ (Thread(w, i, "persist") => thread[w][i].at = "persist")
  BY DEF Thread
<1>5. PICK b : outcome[c] = {b}
  BY <1>2, <1>3 DEF ChunkSound
<1>6. PICK a : thread[w][i].audit = {a}
  BY <1>2, <1>4 DEF Sound
<1>7. ASSUME Thread(w, i, "persist"), c \notin collected PROVE a.run \in records[c]
  <2>1. thread[w][i].at = "persist" /\ final[c] = {a} /\ a.usable
    BY <1>2, <1>4, <1>6, <1>7 DEF Sound
  <2>2. a = b /\ Rests(c, b)
    BY <1>2, <1>5, <1>7, <2>1 DEF ChunkSound
  <2> QED
    BY <2>1, <2>2 DEF Rests
<1> QED
  BY <1>1, <1>5, <1>6, <1>7

\* Nothing of job j appears in this step.
NothingAppears(j) ==
    /\ upsert[j] # "SUCCEEDED" => upsert'[j] # "SUCCEEDED"
    /\ \A c \in Pieces : c[1] = j =>
          /\ outcome'[c] = outcome[c]
          /\ c \in Uncollected => records'[c] = records[c]

LEMMA StaleStep ==
  ASSUME ConstructionInv, AuditInv, [Next]_vars,
         NEW j \in Constructions, job[j] # "ABSENT", captured[j].gen # gen[DocumentOf[j]]
  PROVE  NothingAppears(j)
<1>1. CASE UNCHANGED <<records, outcome, upsert>>
  BY <1>1 DEF NothingAppears
<1>2. ASSUME NEW w \in Workers, StepPreparation(w) PROVE NothingAppears(j)
  <2>1. Prepare(w) /\ UNCHANGED <<records, outcome>>
    BY <1>2 DEF StepPreparation, auditVars
  <2> QED
    BY <2>1, OnlyIngestSucceeds DEF NothingAppears
<1>3. ASSUME NEW w \in Workers, NEW i \in DOMAIN thread[w], PersistRecords(w, i)
      PROVE  NothingAppears(j)
  <2>1. PICK c : c = Piece(w, i)
    OBVIOUS
  <2>2. /\ Thread(w, i, "persist") /\ UNCHANGED <<outcome, upsert>>
        /\ records' = [records EXCEPT ![c] = @ \cup {a.run : a \in thread[w][i].audit}]
    BY <1>3, <2>1 DEF PersistRecords, preparationVars, workVars
  <2>3. c \in Pieces /\ c[1] = doing[w] /\ AuditTypeOK
    BY <2>1, <2>2, AtPiece
  <2>4. CASE doing[w] = j
    <3>1. PICK a : thread[w][i].audit = {a} /\ (c \notin collected => a.run \in records[c])
      <4>1. captured[doing[w]].gen # gen[DocumentOf[doing[w]]]
        BY <2>4
      <4> QED
        BY <2>1, <2>2, <4>1, CompletedRepeats
    <3>2. c \notin collected => records'[c] = records[c]
      BY <2>2, <2>3, <3>1 DEF AuditTypeOK
    <3>3. \A e \in Pieces \ {c} : records'[e] = records[e]
      BY <2>2, <2>3 DEF AuditTypeOK
    <3> QED
      BY <2>2, <3>2, <3>3 DEF NothingAppears, Uncollected
  <2>5. CASE doing[w] # j
    BY <2>2, <2>3, <2>5 DEF NothingAppears, AuditTypeOK
  <2> QED
    BY <2>4, <2>5
<1>4. ASSUME NEW w \in Workers, NEW i \in DOMAIN thread[w], PersistOutcome(w, i)
      PROVE  NothingAppears(j)
  <2>1. PICK c : c = Piece(w, i)
    OBVIOUS
  <2>2. /\ Thread(w, i, "outcome") /\ UNCHANGED <<records, upsert>>
        /\ \/ outcome' = outcome
           \/ /\ outcome[c] \subseteq thread[w][i].audit
              /\ outcome' = [outcome EXCEPT ![c] = thread[w][i].audit]
    BY <1>4, <2>1 DEF PersistOutcome, preparationVars, workVars
  <2>3. c \in Pieces /\ c[1] = doing[w] /\ AuditTypeOK
    BY <2>1, <2>2, AtPiece
  <2>4. CASE doing[w] = j
    <3>1. PICK a, b : thread[w][i].audit = {a} /\ outcome[c] = {b}
      <4>1. captured[doing[w]].gen # gen[DocumentOf[doing[w]]] /\ Thread(w, i, "outcome")
        BY <2>2, <2>4
      <4>2. PICK a, b : /\ thread[w][i].audit = {a} /\ outcome[Piece(w, i)] = {b}
                        /\ Thread(w, i, "persist") /\ Piece(w, i) \notin collected =>
                              a.run \in records[Piece(w, i)]
        BY <4>1, CompletedRepeats
      <4> QED
        BY <2>1, <4>2
    <3>2. outcome' = outcome
      <4>1. outcome[c] \subseteq thread[w][i].audit => outcome[c] = thread[w][i].audit
        BY <3>1
      <4>2. outcome = [e \in Pieces |-> outcome[e]]
        BY <2>3 DEF AuditTypeOK
      <4> QED
        BY <2>2, <2>3, <4>1, <4>2
    <3> QED
      BY <1>1, <2>2, <3>2
  <2>5. CASE doing[w] # j
    BY <2>2, <2>3, <2>5 DEF NothingAppears, AuditTypeOK
  <2> QED
    BY <2>4, <2>5
<1>5. ASSUME NEW w \in Workers, NEW i \in DOMAIN thread[w],
             \/ ReadOutcome(w, i) \/ MissDeadline(w, i) \/ ReadFinal(w, i) \/ Recover(w, i)
             \/ \E said \in Said : Answer(w, i, said)
             \/ RecordRetryableFailure(w, i) \/ PersistFinal(w, i) \/ CheckAudit(w, i)
      PROVE  NothingAppears(j)
  <2>1. UNCHANGED <<records, outcome, upsert>>
    BY <1>5 DEF ReadOutcome, MissDeadline, ReadFinal, Recover, Answer, RecordRetryableFailure,
         PersistFinal, CheckAudit, auditVars, preparationVars, workVars
  <2> QED
    BY <1>1, <2>1
<1>6. ASSUME NEW w \in Workers,
             \/ EnsureJob(w) \/ CallPreparation(w) \/ LeavePreparation(w)
             \/ SyncFailure(w) \/ CompleteJob(w) \/ RaiseFirst(w)
             \/ (\E k \in Constructions : Observe(w, k))
             \/ Crash(w) \/ EndUpload(w) \/ (\E k \in Jobs : Upload(w, k))
      PROVE  NothingAppears(j)
  <2>1. UNCHANGED <<records, outcome>>
    BY <1>6 DEF EnsureJob, CallPreparation, LeavePreparation, SyncFailure, CompleteJob, RaiseFirst,
         Observe, Crash, EndUpload, Upload, auditVars
  <2>2. upsert' = upsert
    BY <1>6 DEF EnsureJob, CallPreparation, LeavePreparation, SyncFailure, CompleteJob, RaiseFirst,
         Observe, Crash, CrashPreparation, EndUpload, Leave, Upload, EnsurePreparation,
         preparationVars, workVars
  <2> QED
    BY <1>1, <2>1, <2>2
<1>7. ASSUME NEW d \in Documents, DeleteDocument(d) \/ RetireDocument(d) PROVE NothingAppears(j)
  BY <1>1, <1>7 DEF DeleteDocument, RetireDocument, DeleteSource, RetireSource, auditVars, workVars
<1>8. ASSUME NEW k \in Jobs, LeaseLapses(k) PROVE NothingAppears(j)
  BY <1>1, <1>8 DEF LeaseLapses, Expire, auditVars, workVars
<1>9. CASE UNCHANGED vars
  BY <1>1, <1>9 DEF vars, auditVars, preparationVars, workVars
<1> QED
  BY <1>2, <1>3, <1>4, <1>5, <1>6, <1>7, <1>8, <1>9 DEF Next, Construct

(* StaleJobIsInert for every instance: a job whose source was deleted or   *)
(* retired under it publishes nothing and writes no outcome any more, and  *)
(* no records but of a finished chunk whose audit a deletion elsewhere     *)
(* took (_assert_source_generation_tx, ensure_job, _delete_document_tx).   *)
THEOREM StaleJobsAreInert == Spec => StaleJobIsInert
<1>1. Init => ConstructionInv /\ AuditInv
  BY ConstructionStarts, AuditStarts
<1>2. ConstructionInv /\ AuditInv /\ [Next]_vars => ConstructionInv' /\ AuditInv'
  BY ConstructionPreserved, AuditPreserved
<1>3. ConstructionInv /\ AuditInv /\ [Next]_vars =>
        [\A j \in Constructions :
          job[j] # "ABSENT" /\ captured[j].gen # gen[DocumentOf[j]] =>
              /\ upsert[j] # "SUCCEEDED" => upsert'[j] # "SUCCEEDED"
              /\ \A c \in Pieces : c[1] = j =>
                    /\ outcome'[c] = outcome[c]
                    /\ c \in Uncollected => records'[c] = records[c]]_vars
  BY StaleStep DEF NothingAppears
<1> QED
  BY <1>1, <1>2, <1>3, PTL DEF Spec, StaleJobIsInert

=============================================================================
