--------------------------- MODULE AutoReview_proofs ---------------------------
(***************************************************************************)
(* The automatic review approves candidates only, its receipt is true, and *)
(* it never calls the model more often than its job has paid for.          *)
(*                                                                         *)
(* For the records the service is one more reviewer (StepIsReview), so     *)
(* that they stay sound and chains only grow: what a worker has read of a  *)
(* record stays what it read, and its head is it exactly when nobody has   *)
(* decided since (ReadingInv).  The budget is kept because an open         *)
(* question is a set of tickets, one for each call that it may still make, *)
(* that were paid for when it was reserved: LeaseInv says that only one    *)
(* worker can save what was spent, BudgetInv that the tickets of all       *)
(* workers, those included that lost the lease, are covered by it.         *)
(***************************************************************************)
EXTENDS AutoReview, KnowledgeReview_proofs, FiniteSetTheorems

Receipts == [JobRecords -> Verdicts \cup {NoItem}]
Runs == [status : {"NONE", "RUNNING", "COMPLETED", "PARTIAL"}, live : BOOLEAN,
         token : Nat, calls : Nat, items : Receipts]
Batches == [now : {"none", "ready", "asking", "yes", "no", "unavailable", "done"},
            tries : 0..CallsPerReview, mapping : BOOLEAN]
Places == {"idle", "loaded", "begun", "identities", "facts", "raised"}

SharedTypeOK ==
    /\ run \in Runs
    /\ automatic \subseteq [record : JobRecords, n : Nat, token : Nat]
    /\ asked \in Nat
WorkerTypeOK ==
    /\ at \in [Reviewers -> Places]
    /\ seen \in [Reviewers -> [JobRecords -> Nat]]
    /\ lease \in [Reviewers -> Nat]
    /\ calls \in [Reviewers -> [now : Nat, begun : Nat]]
    /\ items \in [Reviewers -> Receipts]
    /\ batch \in [Reviewers -> [JobRecords -> Batches]]
AutoTypeOK == SharedTypeOK /\ WorkerTypeOK

\* What a worker has of a record was read from it, and what is put to the
\* model was a candidate then.
Open == {"ready", "asking", "yes", "no", "unavailable"}
ReadSound(w, r) ==
    /\ seen[w][r] <= Len(Chain(r))
    /\ batch[w][r].now \in Open =>
          seen[w][r] > 0 /\ Chain(r)[seen[w][r]].status = "CANDIDATE"
ReadingInv ==
    \A w \in Reviewers : /\ \A r \in JobRecords : ReadSound(w, r)
                         /\ at[w] = "idle" => batch[w] = NoBatch

\* What a receipt calls approved was approved by the service.
Credited(r) == \E a \in automatic : a.record = r
ReceiptInv ==
    \A r \in JobRecords :
        /\ run.items[r] = "AUTO_APPROVED" => Credited(r)
        /\ \A w \in Reviewers : items[w][r] = "AUTO_APPROVED" => Credited(r)

\* The calls that open questions may still make.
Tickets ==
    {t \in (Reviewers \X JobRecords) \X (1..CallsPerReview) :
        LET b == batch[t[1][1]][t[1][2]] IN b.now = "asking" /\ b.tries < t[2]}
Owed == asked + Cardinality(Tickets)

Working(w) == at[w] \in {"begun", "identities", "facts"}
LeaseInv ==
    /\ \A w \in Reviewers : lease[w] <= run.token
    /\ \A w \in Reviewers : Working(w) => lease[w] > 0
    /\ \A v, w \in Reviewers : lease[v] = lease[w] /\ lease[v] > 0 => v = w

\* What the worker with the lease remembers covers the calls that were made
\* and those that may be, and so does what the job has paid for.
BudgetInv ==
    /\ Owed <= run.calls /\ run.calls <= CallsInTotal
    /\ \A w \in Reviewers :
          Working(w) /\ Holds(w) => Owed <= calls[w].now /\ calls[w].now <= run.calls

AutoInv == AutoTypeOK /\ ReadingInv /\ ReceiptInv /\ LeaseInv /\ BudgetInv

-----------------------------------------------------------------------------
(***************************************************************************)
(* For the records the service is a reviewer.                              *)
(***************************************************************************)

LEMMA ApprovalIsReview ==
  ASSUME RecordsInv, NEW w, NEW r \in JobRecords, Approves(w, r)
  PROVE  ReviewNext
<1>1. PICK n : n = seen[w][r]
  OBVIOUS
<1>2. NoEdit \in Entities \cup {NoEdit} /\ "APPROVED" \in Decisions
  BY DEF Decisions
<1>3. CASE r \in Mentions /\ DecideMention(r, n, "APPROVED", NoEdit)
  <2>1. n \in 1..Len(mentions[r])
    BY <1>3, MentionsSound DEF DecideMention, Readable
  <2> QED
    BY <1>2, <1>3, <2>1, Zenon DEF ReviewNext, Review, MentionReview
<1>4. ASSUME NEW e \in Entities, r \in Mentions, Resolve(r, n, e)
      PROVE  ReviewNext
  <2>1. n \in 1..Len(mentions[r])
    BY <1>4, MentionsSound DEF Resolve, Readable
  <2>2. LinkMention(r, n)
    BY <1>4, Zenon DEF LinkMention
  <2> QED
    BY <1>4, <2>1, <2>2, Zenon DEF ReviewNext, Review, MentionReview
<1>5. CASE r \in Facts /\ DecideFact(r, n, "APPROVED", NoEdit)
  <2>1. n \in 1..Len(facts[r])
    BY <1>5, FactsSound DEF DecideFact, Readable
  <2>2. NoEdit \in [Slots[r] -> Nameable(VersionOf[r])] \cup {NoEdit}
    OBVIOUS
  <2>3. FactReview
    BY <1>2, <1>5, <2>1, <2>2 DEF FactReview
  <2> QED
    BY <2>3 DEF ReviewNext, Review
<1>6. r \in Mentions \/ r \in Facts
  BY AutoAssumption
<1> QED
  BY <1>1, <1>3, <1>4, <1>5, <1>6 DEF Approves, AsRead

\* The actions of a worker but for its approvals.
LEMMA StepIsReview ==
  ASSUME RecordsInv, [AutoNext]_allVars
  PROVE  [ReviewNext]_reviewVars
<1>1. ASSUME NEW w \in Reviewers, NEW r \in JobRecords, Commit(w, r)
      PROVE  [ReviewNext]_reviewVars
  BY <1>1, ApprovalIsReview DEF Commit, Raise
<1>2. ASSUME NEW w \in Reviewers,
             \/ Load(w) \/ (\E retry \in BOOLEAN : Start(w, retry))
             \/ SortFacts(w) \/ Finish(w) \/ Interrupt(w) \/ LoseLease(w) \/ Vanish(w)
      PROVE  UNCHANGED reviewVars
  BY <1>2 DEF Load, Start, SortFacts, Finish, Interrupt, LoseLease, Vanish, Raise
<1>3. ASSUME NEW w \in Reviewers, NEW n, SortIdentities(w, n)
      PROVE  UNCHANGED reviewVars
  BY <1>3 DEF SortIdentities
<1>4. ASSUME NEW w \in Reviewers, NEW r \in JobRecords,
             \/ Reserve(w, r) \/ AskModel(w, r) \/ LeaveToPeople(w, r)
      PROVE  UNCHANGED reviewVars
  BY <1>4 DEF Reserve, AskModel, LeaveToPeople
<1>5. ASSUME NEW w \in Reviewers, NEW r \in JobRecords, NEW said, AnswerModel(w, r, said)
      PROVE  UNCHANGED reviewVars
  BY <1>5 DEF AnswerModel, Raise
<1>6. ASSUME NEW w \in Reviewers, ReviewAutomatically(w)
      PROVE  [ReviewNext]_reviewVars
  BY <1>1, <1>2, <1>3, <1>4, <1>5, <1>6, Zenon DEF ReviewAutomatically
<1>7. LeaseLapses => UNCHANGED reviewVars
  BY DEF LeaseLapses
<1>8. UNCHANGED allVars => UNCHANGED reviewVars
  BY DEF allVars
<1> QED
  BY <1>6, <1>7, <1>8, Zenon DEF AutoNext

\* Beside the service the records keep what they keep among people
\* (knowledge/auto_review.py calls the methods of the review).
THEOREM AutoReviewImplementsReview == AutoSpec => ReviewSpec
<1>1. AutoInit => ReviewInit
  BY DEF AutoInit
<1>2. AutoInit => ReviewInv
  BY <1>1, InitiallySound
<1>3. ReviewInv /\ [AutoNext]_allVars => [ReviewNext]_reviewVars
  BY StepIsReview DEF ReviewInv
<1>4. ReviewInv /\ [ReviewNext]_reviewVars => ReviewInv'
  BY RecordsPreserved, SourcesPreserved DEF ReviewInv
<1> QED
  BY <1>1, <1>2, <1>3, <1>4, PTL DEF AutoSpec, ReviewSpec

-----------------------------------------------------------------------------
(***************************************************************************)
(* What the steps of a worker have in common.                              *)
(***************************************************************************)

Others(w) ==
    \A v \in Reviewers \ {w} :
        /\ at'[v] = at[v] /\ seen'[v] = seen[v] /\ lease'[v] = lease[v]
        /\ calls'[v] = calls[v] /\ items'[v] = items[v] /\ batch'[v] = batch[v]

LEMMA NoBatchTyped ==
  /\ NoBatch \in [JobRecords -> Batches] /\ NoItems \in Receipts
  /\ \A r \in JobRecords : NoBatch[r].now = "none" /\ NoItems[r] = NoItem
BY AutoAssumption DEF NoBatch, NoItems, Batches, Receipts

LEMMA ForgetEffect ==
  ASSUME WorkerTypeOK, NEW w \in Reviewers, Forget(w)
  PROVE  /\ WorkerTypeOK' /\ Others(w)
         /\ at'[w] = "idle" /\ lease'[w] = 0
         /\ seen'[w] = [r \in JobRecords |-> 0]
         /\ items'[w] = NoItems /\ batch'[w] = NoBatch
<1>1. at' \in [Reviewers -> Places] /\ at'[w] = "idle"
  BY DEF Forget, Enter, WorkerTypeOK, Places
<1>2. seen' \in [Reviewers -> [JobRecords -> Nat]] /\ seen'[w] = [r \in JobRecords |-> 0]
  BY DEF Forget, WorkerTypeOK
<1>3. lease' \in [Reviewers -> Nat] /\ lease'[w] = 0
  BY DEF Forget, WorkerTypeOK
<1>4. calls' \in [Reviewers -> [now : Nat, begun : Nat]]
  <2>1. [now |-> 0, begun |-> 0] \in [now : Nat, begun : Nat]
    OBVIOUS
  <2> QED
    BY <2>1 DEF Forget, WorkerTypeOK
<1>5. items' \in [Reviewers -> Receipts] /\ items'[w] = NoItems
  BY NoBatchTyped DEF Forget, WorkerTypeOK
<1>6. batch' \in [Reviewers -> [JobRecords -> Batches]] /\ batch'[w] = NoBatch
  BY NoBatchTyped DEF Forget, WorkerTypeOK
<1>7. Others(w)
  BY DEF Others, Forget, Enter, WorkerTypeOK
<1> QED
  BY <1>1, <1>2, <1>3, <1>4, <1>5, <1>6, <1>7 DEF WorkerTypeOK

LEMMA StandingTrue ==
  ASSUME NEW r \in JobRecords, NEW n
  PROVE  /\ Standing(r, n) \in Verdicts \cup {NoItem}
         /\ Standing(r, n) = "AUTO_APPROVED" => Credited(r)
<1>1. CASE Chain(r)[n].status \in Endorsed
  <2>1. Standing(r, n) = IF ByService(r, n) THEN "AUTO_APPROVED" ELSE NoItem
    BY <1>1 DEF Standing, Endorsed, Pending
  <2>2. ByService(r, n) => Credited(r)
    BY DEF ByService, Credited
  <2> QED
    BY <2>1, <2>2 DEF Verdicts, NoItem
<1>2. CASE Chain(r)[n].status \notin Endorsed
  <2>1. Standing(r, n) \in {"NEEDS_HUMAN", "BLOCKED"}
    BY <1>2 DEF Standing
  <2> QED
    BY <2>1 DEF Verdicts
<1> QED
  BY <1>1, <1>2

LEMMA SortEffect ==
  ASSUME WorkerTypeOK, NEW w \in Reviewers, NEW R, NEW n, NEW mapping \in BOOLEAN,
         Sort(w, R, n, mapping)
  PROVE  /\ batch' \in [Reviewers -> [JobRecords -> Batches]]
         /\ items' \in [Reviewers -> Receipts]
         /\ \A v \in Reviewers \ {w} : batch'[v] = batch[v] /\ items'[v] = items[v]
         /\ \A r \in JobRecords :
               /\ batch'[w][r].now \in {"none", "ready"}
               /\ batch'[w][r].now = "ready" =>
                     r \in R /\ Chain(r)[n[r]].status = "CANDIDATE"
               /\ items'[w][r] = "AUTO_APPROVED" => items[w][r] = "AUTO_APPROVED" \/ Credited(r)
<1>1. PICK proven \in SUBSET {r \in R : Chain(r)[n[r]].status = "CANDIDATE" /\ Grounded(r)} :
        /\ batch' = [batch EXCEPT ![w] =
              [r \in JobRecords |->
                  IF r \in proven THEN [now |-> "ready", tries |-> 0, mapping |-> mapping]
                  ELSE NoBatch[r]]]
        /\ items' = [items EXCEPT ![w] =
              [r \in JobRecords |->
                  CASE r \in proven     -> NoItem
                    [] r \in R \ proven -> Standing(r, n[r])
                    [] OTHER            -> items[w][r]]]
  BY DEF Sort
<1>2. PICK new : new = [r \in JobRecords |->
                  IF r \in proven THEN [now |-> "ready", tries |-> 0, mapping |-> mapping]
                  ELSE NoBatch[r]]
  OBVIOUS
<1>3. PICK receipt : receipt = [r \in JobRecords |->
                  CASE r \in proven     -> NoItem
                    [] r \in R \ proven -> Standing(r, n[r])
                    [] OTHER            -> items[w][r]]
  OBVIOUS
<1>4. batch' = [batch EXCEPT ![w] = new] /\ items' = [items EXCEPT ![w] = receipt]
  BY <1>1, <1>2, <1>3
<1>5. [now |-> "ready", tries |-> 0, mapping |-> mapping] \in Batches
  BY AutoAssumption DEF Batches
<1>6. /\ new \in [JobRecords -> Batches]
      /\ \A r \in JobRecords :
            /\ new[r].now \in {"none", "ready"}
            /\ new[r].now = "ready" => r \in proven
  <2>1. ASSUME NEW r \in JobRecords
        PROVE  /\ new[r] \in Batches /\ new[r].now \in {"none", "ready"}
               /\ new[r].now = "ready" => r \in proven
    <3>1. CASE r \in proven
      BY <1>2, <1>5, <3>1
    <3>2. CASE r \notin proven
      BY <1>2, <3>2, NoBatchTyped
    <3> QED
      BY <3>1, <3>2
  <2> QED
    BY <1>2, <2>1
<1>7. ASSUME NEW r \in JobRecords
      PROVE  /\ receipt[r] \in Verdicts \cup {NoItem}
             /\ receipt[r] = "AUTO_APPROVED" => items[w][r] = "AUTO_APPROVED" \/ Credited(r)
  <2>1. CASE r \in proven
    <3>1. receipt[r] = NoItem
      BY <1>3, <2>1
    <3> QED
      BY <3>1 DEF NoItem
  <2>2. CASE r \in R \ proven
    <3>1. receipt[r] = Standing(r, n[r])
      BY <1>3, <2>2
    <3>2. PICK k : k = n[r]
      OBVIOUS
    <3> QED
      BY <3>1, <3>2, StandingTrue
  <2>3. CASE r \notin proven /\ r \notin R \ proven
    <3>1. receipt[r] = items[w][r]
      BY <1>3, <2>3
    <3> QED
      BY <3>1 DEF WorkerTypeOK, Receipts
  <2> QED
    BY <2>1, <2>2, <2>3
<1>8. receipt \in Receipts
  BY <1>3, <1>7 DEF Receipts
<1>9. /\ batch' \in [Reviewers -> [JobRecords -> Batches]] /\ batch'[w] = new
      /\ \A v \in Reviewers \ {w} : batch'[v] = batch[v]
  BY <1>4, <1>6 DEF WorkerTypeOK
<1>10. /\ items' \in [Reviewers -> Receipts] /\ items'[w] = receipt
       /\ \A v \in Reviewers \ {w} : items'[v] = items[v]
  BY <1>4, <1>8 DEF WorkerTypeOK
<1>11. \A r \in proven : r \in R /\ Chain(r)[n[r]].status = "CANDIDATE"
  OBVIOUS
<1> QED
  BY <1>6, <1>7, <1>9, <1>10, <1>11

\* What was read of a record stays in its chain.
LEMMA ReadKept ==
  ASSUME AutoTypeOK, ChainsGrow, NEW w \in Reviewers, NEW r \in JobRecords, ReadSound(w, r),
         seen'[w][r] = seen[w][r], batch'[w][r].now \in Open => batch[w][r].now \in Open
  PROVE  ReadSound(w, r)'
<1>1. Longer(Chain(r), Chain(r)')
  BY AutoAssumption DEF ChainsGrow, Chain
<1>2. seen[w][r] \in Nat
  BY DEF AutoTypeOK, WorkerTypeOK
<1> QED
  BY <1>1, <1>2 DEF ReadSound, Longer

-----------------------------------------------------------------------------
(***************************************************************************)
(* What was read.                                                          *)
(***************************************************************************)

\* A worker that reads nothing new and opens no question.
LEMMA ReadingKept ==
  ASSUME AutoTypeOK, ReadingInv, ChainsGrow, NEW w \in Reviewers, Others(w),
         seen'[w] = seen[w], at'[w] = "idle" => at[w] = "idle" /\ batch'[w] = batch[w],
         \A r \in JobRecords : batch'[w][r].now \in Open => batch[w][r].now \in Open
  PROVE  ReadingInv'
<1>1. ASSUME NEW v \in Reviewers, NEW r \in JobRecords
      PROVE  ReadSound(v, r)'
  <2>1. ReadSound(v, r)
    BY DEF ReadingInv
  <2>2. seen'[v][r] = seen[v][r] /\ (batch'[v][r].now \in Open => batch[v][r].now \in Open)
    BY DEF Others
  <2> QED
    BY <2>1, <2>2, ReadKept
<1>2. ASSUME NEW v \in Reviewers, at'[v] = "idle"
      PROVE  batch'[v] = NoBatch
  BY <1>2 DEF ReadingInv, Others
<1> QED
  BY <1>1, <1>2 DEF ReadingInv

\* A worker that ends.
LEMMA ReadingForgotten ==
  ASSUME AutoTypeOK, ReadingInv, RecordsInv, ChainsGrow, NEW w \in Reviewers, Forget(w)
  PROVE  ReadingInv'
<1>1. /\ Others(w) /\ at'[w] = "idle" /\ batch'[w] = NoBatch
      /\ seen'[w] = [r \in JobRecords |-> 0]
  BY ForgetEffect DEF AutoTypeOK
<1>2. ASSUME NEW v \in Reviewers, NEW r \in JobRecords
      PROVE  ReadSound(v, r)'
  <2>1. CASE v = w
    <3>1. Longer(Chain(r), Chain(r)')
      BY AutoAssumption DEF ChainsGrow, Chain
    <3> QED
      BY <1>1, <2>1, <3>1, NoBatchTyped DEF ReadSound, Open, Longer
  <2>2. CASE v # w
    BY <1>1, <2>2, ReadKept DEF ReadingInv, Others
  <2> QED
    BY <2>1, <2>2
<1>3. ASSUME NEW v \in Reviewers, at'[v] = "idle"
      PROVE  batch'[v] = NoBatch
  BY <1>1, <1>3 DEF ReadingInv, Others
<1> QED
  BY <1>2, <1>3 DEF ReadingInv

\* A worker that reads n of the records and questions what it reads.
LEMMA ReadingAnew ==
  ASSUME AutoTypeOK, ReadingInv, ChainsGrow, NEW w \in Reviewers, NEW n, Others(w),
         seen'[w] = n, at'[w] # "idle",
         \A r \in JobRecords :
            /\ n[r] \in Nat /\ n[r] <= Len(Chain(r))
            /\ batch'[w][r].now \in Open => n[r] > 0 /\ Chain(r)[n[r]].status = "CANDIDATE"
  PROVE  ReadingInv'
<1>1. ASSUME NEW v \in Reviewers, NEW r \in JobRecords
      PROVE  ReadSound(v, r)'
  <2>1. CASE v = w
    <3>1. Longer(Chain(r), Chain(r)')
      BY AutoAssumption DEF ChainsGrow, Chain
    <3> QED
      BY <2>1, <3>1 DEF ReadSound, Longer
  <2>2. CASE v # w
    BY <2>2, ReadKept DEF ReadingInv, Others
  <2> QED
    BY <2>1, <2>2
<1>2. ASSUME NEW v \in Reviewers, at'[v] = "idle"
      PROVE  batch'[v] = NoBatch
  BY <1>2 DEF ReadingInv, Others
<1> QED
  BY <1>1, <1>2 DEF ReadingInv

LEMMA LoadedFits ==
  ASSUME RecordsInv
  PROVE  /\ Loaded \in [JobRecords -> Nat]
         /\ \A r \in JobRecords : Loaded[r] \in Nat /\ Loaded[r] <= Len(Chain(r))
<1>1. ASSUME NEW r \in JobRecords
      PROVE  Len(Chain(r)) \in Nat
  BY AutoAssumption, MentionsSound, FactsSound DEF Chain
<1>2. ASSUME NEW r \in JobRecords
      PROVE  Loaded[r] \in {0, Len(Chain(r))}
  BY DEF Loaded
<1> QED
  BY <1>1, <1>2 DEF Loaded

\* The revisions that a worker sorts are those that it has read.
LEMMA SortReads ==
  ASSUME AutoTypeOK, ReadingInv, RecordsInv, ChainsGrow, NEW w \in Reviewers, NEW n, NEW R,
         NEW mapping \in BOOLEAN, NEW p \in Places \ {"idle"},
         n = seen[w] \/ n = Loaded, Sort(w, Reviewed(n, R), n, mapping),
         seen' = [seen EXCEPT ![w] = n], Enter(w, p), UNCHANGED <<lease, calls>>
  PROVE  ReadingInv' /\ WorkerTypeOK'
<1>1. \A r \in JobRecords : n[r] \in Nat /\ n[r] <= Len(Chain(r))
  BY LoadedFits DEF AutoTypeOK, WorkerTypeOK, ReadingInv, ReadSound
<1>2. /\ batch' \in [Reviewers -> [JobRecords -> Batches]]
      /\ items' \in [Reviewers -> Receipts]
      /\ \A v \in Reviewers \ {w} : batch'[v] = batch[v] /\ items'[v] = items[v]
      /\ \A r \in JobRecords :
            batch'[w][r].now \in {"none", "ready"}
            /\ (batch'[w][r].now = "ready" =>
                  r \in Reviewed(n, R) /\ Chain(r)[n[r]].status = "CANDIDATE")
  BY SortEffect DEF AutoTypeOK
<1>3. /\ at' \in [Reviewers -> Places] /\ at'[w] = p
      /\ \A v \in Reviewers \ {w} : at'[v] = at[v]
  BY DEF Enter, AutoTypeOK, WorkerTypeOK
<1>4. n \in [JobRecords -> Nat]
  BY LoadedFits DEF AutoTypeOK, WorkerTypeOK
<1>5. /\ seen' \in [Reviewers -> [JobRecords -> Nat]] /\ seen'[w] = n
      /\ \A v \in Reviewers \ {w} : seen'[v] = seen[v]
  BY <1>4 DEF AutoTypeOK, WorkerTypeOK
<1>6. Others(w)
  BY <1>2, <1>3, <1>5 DEF Others
<1>7. \A r \in JobRecords :
         batch'[w][r].now \in Open => n[r] > 0 /\ Chain(r)[n[r]].status = "CANDIDATE"
  BY <1>2 DEF Open, Reviewed
<1>8. ReadingInv'
  BY <1>1, <1>3, <1>5, <1>6, <1>7, ReadingAnew
<1> QED
  BY <1>2, <1>3, <1>5, <1>8 DEF AutoTypeOK, WorkerTypeOK

-----------------------------------------------------------------------------
(***************************************************************************)
(* Tickets.                                                                *)
(***************************************************************************)

\* The tickets of the question of w about r from the k-th call on.
TicketsFrom(w, r, k) == {<<w, r>>} \X (k..CallsPerReview)

LEMMA TicketsFromCount ==
  ASSUME NEW w, NEW r, NEW k \in Nat, k \in 1..CallsPerReview + 1
  PROVE  /\ IsFiniteSet(TicketsFrom(w, r, k))
         /\ Cardinality(TicketsFrom(w, r, k)) = CallsPerReview + 1 - k
<1>1. IsFiniteSet({<<w, r>>}) /\ Cardinality({<<w, r>>}) = 1
  BY FS_Singleton
<1>2. CallsPerReview \in Nat /\ k \in Int /\ CallsPerReview \in Int
  BY AutoAssumption
<1>3. PICK I : I = k..CallsPerReview
  OBVIOUS
<1>4. IsFiniteSet(I) /\ Cardinality(I) = IF k > CallsPerReview THEN 0 ELSE CallsPerReview - k + 1
  BY <1>2, <1>3, FS_Interval
<1>5. Cardinality(I) = CallsPerReview + 1 - k
  BY <1>2, <1>4
<1>6. PICK P : P = {<<w, r>>}
  OBVIOUS
<1>7. IsFiniteSet(P \X I) /\ Cardinality(P \X I) = Cardinality(P) * Cardinality(I)
  BY <1>1, <1>4, <1>6, FS_Product
<1> QED
  BY <1>1, <1>2, <1>3, <1>5, <1>6, <1>7 DEF TicketsFrom

LEMMA TicketsFinite ==
  IsFiniteSet((Reviewers \X JobRecords) \X (1..CallsPerReview))
<1>1. IsFiniteSet(Reviewers \X JobRecords)
  BY AutoAssumption, FS_Product
<1>2. IsFiniteSet(1..CallsPerReview)
  BY AutoAssumption, FS_Interval
<1> QED
  BY <1>1, <1>2, FS_Product

LEMMA TicketsCount ==
  /\ IsFiniteSet(Tickets) /\ Cardinality(Tickets) \in Nat
  /\ IsFiniteSet(Tickets') /\ Cardinality(Tickets') \in Nat
<1>1. Tickets \in SUBSET ((Reviewers \X JobRecords) \X (1..CallsPerReview))
  BY DEF Tickets
<1>2. Tickets' \in SUBSET ((Reviewers \X JobRecords) \X (1..CallsPerReview))
  BY DEF Tickets
<1> QED
  BY <1>1, <1>2, TicketsFinite, FS_Subset, FS_CardinalityType

\* No question is opened, and none may ask more often than before.
LEMMA TicketsShrink ==
  ASSUME AutoTypeOK,
         \A v \in Reviewers : \A r \in JobRecords :
            batch'[v][r].now = "asking" =>
               /\ batch[v][r].now = "asking" /\ batch'[v][r].tries \in Nat
               /\ batch[v][r].tries <= batch'[v][r].tries
  PROVE  Cardinality(Tickets') <= Cardinality(Tickets)
<1>1. ASSUME NEW t \in Tickets'
      PROVE  t \in Tickets
  <2>1. PICK v \in Reviewers, r \in JobRecords, k \in 1..CallsPerReview : t = <<<<v, r>>, k>>
    BY DEF Tickets
  <2>2. batch'[v][r].now = "asking" /\ batch'[v][r].tries < k
    BY <2>1 DEF Tickets
  <2>3. batch[v][r].tries \in Nat /\ k \in Nat
    BY AutoAssumption DEF AutoTypeOK, WorkerTypeOK, Batches
  <2>4. batch[v][r].now = "asking" /\ batch[v][r].tries < k
    BY <2>2, <2>3
  <2> QED
    BY <2>1, <2>4 DEF Tickets
<1> QED
  BY <1>1, TicketsCount, FS_Subset

\* A question is opened.
LEMMA TicketsBought ==
  ASSUME AutoTypeOK, NEW w \in Reviewers, NEW r \in JobRecords,
         \A v \in Reviewers : \A q \in JobRecords :
            v # w \/ q # r => batch'[v][q] = batch[v][q]
  PROVE  Cardinality(Tickets') <= Cardinality(Tickets) + CallsPerReview
<1>1. PICK N : N = TicketsFrom(w, r, 1)
  OBVIOUS
<1>2. IsFiniteSet(N) /\ Cardinality(N) = CallsPerReview
  BY <1>1, TicketsFromCount, AutoAssumption
<1>3. ASSUME NEW t \in Tickets'
      PROVE  t \in Tickets \cup N
  <2>1. PICK v \in Reviewers, q \in JobRecords, k \in 1..CallsPerReview : t = <<<<v, q>>, k>>
    BY DEF Tickets
  <2>2. CASE v = w /\ q = r
    BY <1>1, <2>1, <2>2 DEF TicketsFrom
  <2>3. CASE v # w \/ q # r
    BY <2>1, <2>3 DEF Tickets
  <2> QED
    BY <2>2, <2>3
<1>4. PICK U : U = Tickets \cup N
  OBVIOUS
<1>5. /\ IsFiniteSet(U)
      /\ Cardinality(U) = Cardinality(Tickets) + Cardinality(N) - Cardinality(Tickets \cap N)
  BY <1>2, <1>4, TicketsCount, FS_Union
<1>6. Cardinality(Tickets \cap N) \in Nat
  BY TicketsCount, FS_Intersection, FS_CardinalityType
<1>7. Cardinality(Tickets') <= Cardinality(U)
  BY <1>3, <1>4, <1>5, FS_Subset
<1>8. Cardinality(U) \in Nat
  BY <1>5, FS_CardinalityType
<1> QED
  BY <1>2, <1>5, <1>6, <1>7, <1>8, TicketsCount, AutoAssumption

\* A question asks once more.
LEMMA TicketUsed ==
  ASSUME AutoTypeOK, NEW w \in Reviewers, NEW r \in JobRecords,
         batch[w][r].now = "asking", batch[w][r].tries < CallsPerReview,
         batch'[w][r].now = "asking", batch'[w][r].tries = batch[w][r].tries + 1,
         \A v \in Reviewers : \A q \in JobRecords :
            v # w \/ q # r => batch'[v][q] = batch[v][q]
  PROVE  Cardinality(Tickets') = Cardinality(Tickets) - 1
<1>1. PICK k : k = batch[w][r].tries
  OBVIOUS
<1>2. k \in Nat /\ k + 1 \in 1..CallsPerReview
  BY <1>1, AutoAssumption DEF AutoTypeOK, WorkerTypeOK, Batches
<1>3. PICK x : x = <<<<w, r>>, k + 1>>
  OBVIOUS
<1>4. x \in Tickets
  BY <1>1, <1>2, <1>3 DEF Tickets
<1>5. ASSUME NEW v \in Reviewers, NEW q \in JobRecords, NEW n \in 1..CallsPerReview
      PROVE  <<<<v, q>>, n>> \in Tickets' <=> <<<<v, q>>, n>> \in Tickets \ {x}
  <2>1. CASE v = w /\ q = r
    <3>1. <<<<v, q>>, n>> \in Tickets' <=> k + 1 < n
      BY <1>1, <2>1 DEF Tickets
    <3>2. <<<<v, q>>, n>> \in Tickets <=> k < n
      BY <1>1, <2>1 DEF Tickets
    <3>3. <<<<v, q>>, n>> = x <=> n = k + 1
      BY <1>3, <2>1
    <3> QED
      BY <1>2, <3>1, <3>2, <3>3
  <2>2. CASE v # w \/ q # r
    <3>1. <<<<v, q>>, n>> # x
      BY <1>3, <2>2
    <3>2. batch'[v][q] = batch[v][q]
      BY <2>2
    <3> QED
      BY <3>1, <3>2 DEF Tickets
  <2> QED
    BY <2>1, <2>2
<1>6. Tickets' = Tickets \ {x}
  <2>1. \A t \in Tickets' \cup Tickets : \E v \in Reviewers, q \in JobRecords, n \in 1..CallsPerReview :
           t = <<<<v, q>>, n>>
    BY DEF Tickets
  <2> QED
    BY <1>5, <2>1
<1> QED
  BY <1>4, <1>6, TicketsCount, FS_RemoveElement

\* A question is closed.
LEMMA TicketsReturned ==
  ASSUME AutoTypeOK, NEW w \in Reviewers, NEW r \in JobRecords,
         batch[w][r].now = "asking", batch'[w][r].now # "asking",
         \A v \in Reviewers : \A q \in JobRecords :
            v # w \/ q # r => batch'[v][q] = batch[v][q]
  PROVE  Cardinality(Tickets') <= Cardinality(Tickets) - (CallsPerReview - batch[w][r].tries)
<1>1. PICK k : k = batch[w][r].tries
  OBVIOUS
<1>2. k \in Nat /\ k \in 0..CallsPerReview /\ k + 1 \in 1..CallsPerReview + 1 /\ k + 1 \in Nat
  BY <1>1, AutoAssumption DEF AutoTypeOK, WorkerTypeOK, Batches
<1>3. PICK N : N = TicketsFrom(w, r, k + 1)
  OBVIOUS
<1>4. IsFiniteSet(N) /\ Cardinality(N) = CallsPerReview - k
  BY <1>2, <1>3, TicketsFromCount, AutoAssumption
<1>5. N \subseteq Tickets
  <2>1. ASSUME NEW n \in (k + 1)..CallsPerReview
        PROVE  <<<<w, r>>, n>> \in Tickets
    BY <1>1, <1>2, AutoAssumption DEF Tickets
  <2> QED
    BY <1>3, <2>1 DEF TicketsFrom
<1>6. ASSUME NEW t \in Tickets'
      PROVE  t \in Tickets \ N
  <2>1. PICK v \in Reviewers, q \in JobRecords, n \in 1..CallsPerReview : t = <<<<v, q>>, n>>
    BY DEF Tickets
  <2>2. v # w \/ q # r
    BY <2>1 DEF Tickets
  <2>3. t \in Tickets
    BY <2>1, <2>2 DEF Tickets
  <2>4. t \notin N
    BY <1>3, <2>1, <2>2 DEF TicketsFrom
  <2> QED
    BY <2>3, <2>4
<1>7. PICK D : D = Tickets \ N
  OBVIOUS
<1>8. Tickets \cap N = N
  BY <1>5
<1>9. IsFiniteSet(D) /\ Cardinality(D) = Cardinality(Tickets) - Cardinality(N)
  <2>1. IsFiniteSet(Tickets \ N)
        /\ Cardinality(Tickets \ N) = Cardinality(Tickets) - Cardinality(Tickets \cap N)
    BY TicketsCount, FS_Difference, Zenon
  <2> QED
    BY <1>7, <1>8, <2>1
<1>10. Cardinality(Tickets') <= Cardinality(D)
  BY <1>6, <1>7, <1>9, FS_Subset
<1> QED
  BY <1>1, <1>4, <1>9, <1>10

-----------------------------------------------------------------------------
(***************************************************************************)
(* The lease, the budget and the receipt.                                  *)
(***************************************************************************)

\* Nobody takes the lease, and nobody goes on who did not work.
LeaseStays ==
    /\ run'.token = run.token
    /\ \A v \in Reviewers : /\ lease'[v] \in {0, lease[v]}
                            /\ Working(v)' => Working(v) /\ lease'[v] = lease[v]

LEMMA LeaseKept ==
  ASSUME AutoTypeOK, LeaseInv, LeaseStays
  PROVE  LeaseInv'
<1>1. run.token \in Nat /\ \A v \in Reviewers : lease[v] \in Nat
  BY DEF AutoTypeOK, SharedTypeOK, WorkerTypeOK, Runs
<1> QED
  BY <1>1 DEF LeaseInv, LeaseStays

LEMMA OwedTyped ==
  ASSUME AutoTypeOK, asked' \in Nat
  PROVE  Owed \in Nat /\ Owed' \in Nat
BY TicketsCount DEF Owed, AutoTypeOK, SharedTypeOK

\* Nothing is spent that was not paid for.
LEMMA BudgetStays ==
  ASSUME AutoTypeOK, BudgetInv, LeaseStays, asked' \in Nat, Owed' <= Owed, run'.calls = run.calls,
         \A v \in Reviewers : Working(v)' => calls'[v] = calls[v]
  PROVE  BudgetInv'
<1>1. Owed \in Nat /\ Owed' \in Nat /\ run.calls \in Nat /\ CallsInTotal \in Nat
  BY OwedTyped, AutoAssumption DEF AutoTypeOK, SharedTypeOK, Runs
<1>2. \A v \in Reviewers : calls[v].now \in Nat
  BY DEF AutoTypeOK, WorkerTypeOK
<1>3. \A v \in Reviewers : Working(v)' /\ Holds(v)' => Working(v) /\ Holds(v)
  BY DEF LeaseStays, Holds
<1> QED
  BY <1>1, <1>2, <1>3 DEF BudgetInv

\* The worker with the lease saves what it has spent.
LEMMA BudgetSaved ==
  ASSUME AutoTypeOK, LeaseInv, BudgetInv, LeaseStays, asked' \in Nat, Owed' <= Owed,
         NEW w \in Reviewers, Working(w), Holds(w), run'.calls = calls[w].now,
         \A v \in Reviewers : Working(v)' => calls'[v] = calls[v]
  PROVE  BudgetInv'
<1>1. Owed \in Nat /\ Owed' \in Nat /\ run.calls \in Nat /\ CallsInTotal \in Nat
  BY OwedTyped, AutoAssumption DEF AutoTypeOK, SharedTypeOK, Runs
<1>2. \A v \in Reviewers : calls[v].now \in Nat
  BY DEF AutoTypeOK, WorkerTypeOK
<1>3. ASSUME NEW v \in Reviewers, Working(v)', Holds(v)'
      PROVE  v = w
  BY <1>3 DEF LeaseStays, Holds, LeaseInv
<1> QED
  BY <1>1, <1>2, <1>3 DEF BudgetInv

LEMMA CreditKept ==
  ASSUME automatic \subseteq automatic', NEW r \in JobRecords, Credited(r)
  PROVE  Credited(r)'
BY DEF Credited

\* Tickets are looked at as a whole.
LEMMA OwedShrinks ==
  ASSUME AutoTypeOK, asked' = asked,
         \A v \in Reviewers : \A r \in JobRecords :
            batch'[v][r].now = "asking" =>
               /\ batch[v][r].now = "asking" /\ batch'[v][r].tries \in Nat
               /\ batch[v][r].tries <= batch'[v][r].tries
  PROVE  Owed' <= Owed
<1>1. Cardinality(Tickets') <= Cardinality(Tickets)
  BY TicketsShrink
<1> QED
  BY <1>1, TicketsCount DEF Owed, AutoTypeOK, SharedTypeOK

LEMMA ReceiptKept ==
  ASSUME ReceiptInv, automatic \subseteq automatic', NEW w \in Reviewers, Others(w),
         \A r \in JobRecords :
            /\ items'[w][r] = "AUTO_APPROVED" => items[w][r] = "AUTO_APPROVED" \/ Credited(r)'
            /\ run'.items[r] = "AUTO_APPROVED" =>
                  run.items[r] = "AUTO_APPROVED" \/ items[w][r] = "AUTO_APPROVED"
  PROVE  ReceiptInv'
<1>1. ASSUME NEW r \in JobRecords
      PROVE  Credited(r) => Credited(r)'
  BY CreditKept
<1>2. ASSUME NEW r \in JobRecords, NEW v \in Reviewers, items'[v][r] = "AUTO_APPROVED"
      PROVE  Credited(r)'
  <2>1. CASE v = w
    BY <1>1, <1>2, <2>1 DEF ReceiptInv
  <2>2. CASE v # w
    BY <1>1, <1>2, <2>2 DEF ReceiptInv, Others
  <2> QED
    BY <2>1, <2>2
<1>3. ASSUME NEW r \in JobRecords, run'.items[r] = "AUTO_APPROVED"
      PROVE  Credited(r)'
  BY <1>1, <1>3 DEF ReceiptInv
<1> QED
  BY <1>2, <1>3 DEF ReceiptInv

\* One question changes.
Asks(w, r, new) ==
    /\ batch' \in [Reviewers -> [JobRecords -> Batches]]
    /\ batch'[w][r] = new
    /\ \A v \in Reviewers : \A q \in JobRecords :
          v # w \/ q # r => batch'[v][q] = batch[v][q]
    /\ \A v \in Reviewers \ {w} : batch'[v] = batch[v]

LEMMA BatchSet ==
  ASSUME WorkerTypeOK, NEW w \in Reviewers, NEW r \in JobRecords, NEW new \in Batches,
         batch' = [batch EXCEPT ![w][r] = new]
  PROVE  Asks(w, r, new)
<1>1. batch \in [Reviewers -> [JobRecords -> Batches]]
  BY DEF WorkerTypeOK
<1>2. PICK row : row = [batch[w] EXCEPT ![r] = new]
  OBVIOUS
<1>3. row \in [JobRecords -> Batches] /\ row[r] = new
      /\ \A q \in JobRecords : q # r => row[q] = batch[w][q]
  BY <1>1, <1>2
<1>4. batch' = [batch EXCEPT ![w] = row]
  BY <1>1, <1>2
<1>5. batch' \in [Reviewers -> [JobRecords -> Batches]] /\ batch'[w] = row
      /\ \A v \in Reviewers \ {w} : batch'[v] = batch[v]
  BY <1>1, <1>3, <1>4
<1> QED
  BY <1>3, <1>5 DEF Asks

LEMMA BatchNow ==
  ASSUME WorkerTypeOK, NEW w \in Reviewers, NEW r \in JobRecords,
         NEW now \in {"none", "ready", "asking", "yes", "no", "unavailable", "done"},
         batch' = [batch EXCEPT ![w][r].now = now]
  PROVE  \E new \in Batches :
            Asks(w, r, new) /\ new.now = now /\ new.tries = batch[w][r].tries
<1>1. batch \in [Reviewers -> [JobRecords -> Batches]] /\ batch[w][r] \in Batches
  BY DEF WorkerTypeOK
<1>2. PICK new : new = [batch[w][r] EXCEPT !.now = now]
  OBVIOUS
<1>3. new \in Batches /\ new.now = now /\ new.tries = batch[w][r].tries
  BY <1>1, <1>2 DEF Batches
<1>4. batch' = [batch EXCEPT ![w][r] = new]
  BY <1>1, <1>2
<1> QED
  BY <1>3, <1>4, BatchSet

-----------------------------------------------------------------------------
(***************************************************************************)
(* Every step.                                                             *)
(***************************************************************************)

\* People decide, the lease lapses, or nothing happens.
LEMMA OutsideStep ==
  ASSUME AutoInv, ChainsGrow, UNCHANGED <<automatic, asked, workerVars>>,
         run' = run \/ run' = [run EXCEPT !.live = FALSE]
  PROVE  AutoInv'
<1>1. SharedTypeOK' /\ run'.token = run.token /\ run'.calls = run.calls /\ run'.items = run.items
  BY DEF AutoInv, AutoTypeOK, SharedTypeOK, Runs
<1>2. WorkerTypeOK'
  BY DEF AutoInv, AutoTypeOK, WorkerTypeOK, workerVars
<1>3. ReadingInv'
  <2>1. ASSUME NEW v \in Reviewers, NEW r \in JobRecords
        PROVE  ReadSound(v, r)'
    BY ReadKept DEF AutoInv, ReadingInv, workerVars
  <2> QED
    BY <2>1 DEF AutoInv, ReadingInv, workerVars
<1>4. ReceiptInv'
  BY <1>1 DEF AutoInv, ReceiptInv, Credited, workerVars
<1>5. LeaseInv'
  BY <1>1 DEF AutoInv, LeaseInv, Working, workerVars
<1>6. Owed' = Owed
  BY DEF Owed, Tickets, workerVars
<1>7. BudgetInv'
  BY <1>1, <1>6 DEF AutoInv, BudgetInv, Working, Holds, workerVars
<1> QED
  BY <1>1, <1>2, <1>3, <1>4, <1>5, <1>7 DEF AutoInv, AutoTypeOK

\* A worker ends, having saved what it has or not.
LEMMA ForgetStep ==
  ASSUME AutoInv, RecordsInv, ChainsGrow, NEW w \in Reviewers, Forget(w),
         UNCHANGED <<automatic, asked>>, run' \in Runs, run'.token = run.token,
         \/ run'.calls = run.calls
         \/ Working(w) /\ Holds(w) /\ run'.calls = calls[w].now,
         \A r \in JobRecords : run'.items[r] = "AUTO_APPROVED" =>
             run.items[r] = "AUTO_APPROVED" \/ items[w][r] = "AUTO_APPROVED"
  PROVE  AutoInv'
<1>1. /\ WorkerTypeOK' /\ Others(w) /\ at'[w] = "idle" /\ lease'[w] = 0
      /\ items'[w] = NoItems /\ batch'[w] = NoBatch
  BY ForgetEffect DEF AutoInv, AutoTypeOK
<1>2. SharedTypeOK'
  BY DEF AutoInv, AutoTypeOK, SharedTypeOK
<1>3. ReadingInv'
  BY ReadingForgotten DEF AutoInv
<1>4. LeaseStays
  BY <1>1 DEF LeaseStays, Others, Working
<1>5. \A r \in JobRecords : items'[w][r] # "AUTO_APPROVED"
  BY <1>1, NoBatchTyped DEF NoItem
<1>6. ReceiptInv'
  BY <1>1, <1>5, ReceiptKept DEF AutoInv
<1>7. \A v \in Reviewers : \A r \in JobRecords :
         batch'[v][r].now = "asking" =>
            /\ batch[v][r].now = "asking" /\ batch'[v][r].tries \in Nat
            /\ batch[v][r].tries <= batch'[v][r].tries
  <2>1. ASSUME NEW v \in Reviewers, NEW r \in JobRecords, batch'[v][r].now = "asking"
        PROVE  v # w /\ batch'[v][r] = batch[v][r] /\ batch[v][r].tries \in 0..CallsPerReview
    BY <1>1, <2>1, NoBatchTyped DEF Others, AutoInv, AutoTypeOK, WorkerTypeOK, Batches
  <2> QED
    BY <2>1
<1>8. Owed' <= Owed
  BY <1>7, OwedShrinks DEF AutoInv
<1>9. \A v \in Reviewers : Working(v)' => calls'[v] = calls[v]
  BY <1>1 DEF Others, Working
<1>10. asked' \in Nat
  BY DEF AutoInv, AutoTypeOK, SharedTypeOK
<1>11. BudgetInv'
  BY <1>4, <1>8, <1>9, <1>10, BudgetStays, BudgetSaved DEF AutoInv
<1> QED
  BY <1>1, <1>2, <1>3, <1>4, <1>6, <1>11, LeaseKept DEF AutoInv, AutoTypeOK

\* A worker goes on at place p with nothing but its questions changed, none of
\* them opened and no call made; what it approved is in its receipt.
LEMMA QuietStep ==
  ASSUME AutoInv, ChainsGrow, NEW w \in Reviewers, Others(w), WorkerTypeOK', SharedTypeOK',
         asked' = asked, automatic \subseteq automatic', run'.token = run.token,
         \/ run'.calls = run.calls
         \/ Working(w) /\ Holds(w) /\ run'.calls = calls[w].now,
         lease'[w] = lease[w], calls'[w] = calls[w], seen'[w] = seen[w],
         at'[w] # "idle", Working(w)' => Working(w),
         \A r \in JobRecords :
            /\ batch'[w][r].now \in Open => batch[w][r].now \in Open
            /\ batch'[w][r].now = "asking" =>
                  batch[w][r].now = "asking" /\ batch'[w][r].tries = batch[w][r].tries
            /\ items'[w][r] = "AUTO_APPROVED" => items[w][r] = "AUTO_APPROVED" \/ Credited(r)'
            /\ run'.items[r] = "AUTO_APPROVED" =>
                  run.items[r] = "AUTO_APPROVED" \/ items[w][r] = "AUTO_APPROVED"
  PROVE  AutoInv'
<1>1. ReadingInv'
  BY ReadingKept DEF AutoInv
<1>2. ReceiptInv'
  BY ReceiptKept DEF AutoInv
<1>3. LeaseStays
  BY DEF LeaseStays, Others, Working
<1>4. \A v \in Reviewers : \A r \in JobRecords :
         batch'[v][r].now = "asking" =>
            /\ batch[v][r].now = "asking" /\ batch'[v][r].tries \in Nat
            /\ batch[v][r].tries <= batch'[v][r].tries
  <2>1. ASSUME NEW v \in Reviewers, NEW r \in JobRecords, batch'[v][r].now = "asking"
        PROVE  /\ batch[v][r].now = "asking" /\ batch'[v][r].tries = batch[v][r].tries
               /\ batch[v][r].tries \in 0..CallsPerReview
    <3>1. batch[v][r].tries \in 0..CallsPerReview
      BY DEF AutoInv, AutoTypeOK, WorkerTypeOK, Batches
    <3> QED
      BY <2>1, <3>1 DEF Others
  <2> QED
    BY <2>1
<1>5. Owed' <= Owed
  BY <1>4, OwedShrinks DEF AutoInv
<1>6. \A v \in Reviewers : calls'[v] = calls[v]
  BY DEF Others
<1>7. asked' \in Nat
  BY DEF SharedTypeOK
<1>8. BudgetInv'
  BY <1>3, <1>5, <1>6, <1>7, BudgetStays, BudgetSaved DEF AutoInv
<1> QED
  BY <1>1, <1>2, <1>3, <1>8, LeaseKept DEF AutoInv, AutoTypeOK

LEMMA EnterEffect ==
  ASSUME WorkerTypeOK, NEW w \in Reviewers, NEW p \in Places, Enter(w, p)
  PROVE  /\ at' \in [Reviewers -> Places] /\ at'[w] = p
         /\ \A v \in Reviewers \ {w} : at'[v] = at[v]
BY DEF Enter, WorkerTypeOK

LEMMA RaiseStep ==
  ASSUME AutoInv, ChainsGrow, NEW w \in Reviewers, Enter(w, "raised"),
         UNCHANGED <<automatic, asked, seen, lease, calls, items, batch>>,
         run' \in Runs, run'.token = run.token,
         \/ run'.calls = run.calls
         \/ Working(w) /\ Holds(w) /\ run'.calls = calls[w].now,
         \A r \in JobRecords : run'.items[r] = "AUTO_APPROVED" =>
             run.items[r] = "AUTO_APPROVED" \/ items[w][r] = "AUTO_APPROVED"
  PROVE  AutoInv'
<1>1. /\ at' \in [Reviewers -> Places] /\ at'[w] = "raised"
      /\ \A v \in Reviewers \ {w} : at'[v] = at[v]
  BY EnterEffect DEF AutoInv, AutoTypeOK, Places
<1>2. Others(w) /\ WorkerTypeOK' /\ SharedTypeOK'
  BY <1>1 DEF Others, AutoInv, AutoTypeOK, WorkerTypeOK, SharedTypeOK
<1>3. at'[w] # "idle" /\ ~Working(w)'
  BY <1>1 DEF Working
<1> QED
  BY <1>2, <1>3, QuietStep

LEMMA RaisePreserves ==
  ASSUME AutoInv, ChainsGrow, NEW w \in Reviewers, Raise(w)
  PROVE  AutoInv'
<1>1. run' = run /\ run' \in Runs /\ UNCHANGED <<automatic, asked, seen, lease, calls, items, batch>>
  BY DEF Raise, sharedVars, AutoInv, AutoTypeOK, SharedTypeOK
<1>2. Enter(w, "raised")
  BY DEF Raise
<1> QED
  BY <1>1, <1>2, RaiseStep

LEMMA InterruptPreserves ==
  ASSUME AutoInv, ChainsGrow, NEW w \in Reviewers, Interrupt(w)
  PROVE  AutoInv'
<1>1. PICK receipt : receipt = [r \in JobRecords |->
                 IF seen[w][r] > 0 /\ Chain(r)[seen[w][r]].status = "CANDIDATE"
                    /\ items[w][r] # "AUTO_APPROVED"
                 THEN "INCOMPLETE" ELSE items[w][r]]
  OBVIOUS
<1>2. /\ receipt \in Receipts
      /\ \A r \in JobRecords : receipt[r] = "AUTO_APPROVED" => items[w][r] = "AUTO_APPROVED"
  <2>1. ASSUME NEW r \in JobRecords
        PROVE  receipt[r] \in {"INCOMPLETE", items[w][r]} /\ items[w][r] \in Verdicts \cup {NoItem}
    BY <1>1 DEF AutoInv, AutoTypeOK, WorkerTypeOK, Receipts
  <2> QED
    BY <1>1, <2>1 DEF Receipts, Verdicts
<1>3. run' = [run EXCEPT !.status = "PARTIAL", !.live = FALSE,
                         !.calls = calls[w].now, !.items = receipt]
  BY <1>1 DEF Interrupt, Saved
<1>4. run \in Runs /\ calls[w].now \in Nat
  BY DEF AutoInv, AutoTypeOK, SharedTypeOK, WorkerTypeOK
<1>5. run' \in Runs /\ run'.token = run.token /\ run'.calls = calls[w].now /\ run'.items = receipt
  BY <1>2, <1>3, <1>4 DEF Runs
<1>6. Working(w) /\ Holds(w) /\ Enter(w, "raised")
      /\ UNCHANGED <<automatic, asked, seen, lease, calls, items, batch>>
  BY DEF Interrupt, In, Reviewing, Working
<1> QED
  BY <1>2, <1>5, <1>6, RaiseStep

LEMMA LoadPreserves ==
  ASSUME AutoInv, RecordsInv, ChainsGrow, NEW w \in Reviewers, Load(w)
  PROVE  AutoInv'
<1>1. /\ seen' = [seen EXCEPT ![w] = Loaded] /\ Enter(w, "loaded") /\ at[w] = "idle"
      /\ UNCHANGED <<run, automatic, asked, lease, calls, items, batch>>
  BY DEF Load, sharedVars, In
<1>2. /\ at' \in [Reviewers -> Places] /\ at'[w] = "loaded"
      /\ \A v \in Reviewers \ {w} : at'[v] = at[v]
  BY <1>1, EnterEffect DEF AutoInv, AutoTypeOK, Places
<1>3. /\ seen' \in [Reviewers -> [JobRecords -> Nat]] /\ seen'[w] = Loaded
      /\ \A v \in Reviewers \ {w} : seen'[v] = seen[v]
  BY <1>1, LoadedFits DEF AutoInv, AutoTypeOK, WorkerTypeOK
<1>4. Others(w) /\ WorkerTypeOK' /\ SharedTypeOK'
  BY <1>1, <1>2, <1>3 DEF Others, AutoInv, AutoTypeOK, WorkerTypeOK, SharedTypeOK
<1>5. batch'[w] = NoBatch
  BY <1>1 DEF AutoInv, ReadingInv
<1>6. ReadingInv'
  <2>1. \A r \in JobRecords :
           /\ Loaded[r] \in Nat /\ Loaded[r] <= Len(Chain(r))
           /\ batch'[w][r].now \notin Open
    BY <1>5, LoadedFits, NoBatchTyped DEF Open
  <2>2. PICK n : n = Loaded
    OBVIOUS
  <2>3. seen'[w] = n /\ at'[w] # "idle"
    BY <1>2, <1>3, <2>2
  <2>4. \A r \in JobRecords :
            /\ n[r] \in Nat /\ n[r] <= Len(Chain(r))
            /\ batch'[w][r].now \in Open => n[r] > 0 /\ Chain(r)[n[r]].status = "CANDIDATE"
    BY <2>1, <2>2
  <2> QED
    BY <1>4, <2>3, <2>4, ReadingAnew DEF AutoInv
<1>7. ReceiptInv'
  BY <1>1 DEF AutoInv, ReceiptInv, Credited
<1>8. LeaseStays
  BY <1>1, <1>2 DEF LeaseStays, Working
<1>9. Owed' = Owed /\ Owed \in Nat /\ asked' \in Nat
  BY <1>1, OwedTyped DEF Owed, Tickets, AutoInv, AutoTypeOK, SharedTypeOK
<1>10. BudgetInv'
  BY <1>1, <1>8, <1>9, BudgetStays DEF AutoInv
<1> QED
  BY <1>4, <1>6, <1>7, <1>8, <1>10, LeaseKept DEF AutoInv, AutoTypeOK

\* The lease is taken: what its last holder saves from now on names another
\* token, and what it has open was paid for.
LEMMA BeginPreserves ==
  ASSUME AutoInv, ChainsGrow, NEW w \in Reviewers, at[w] = "loaded",
         run' = [run EXCEPT !.status = "RUNNING", !.live = TRUE, !.token = @ + 1],
         lease' = [lease EXCEPT ![w] = run.token + 1],
         calls' = [calls EXCEPT ![w] = [now |-> run.calls, begun |-> run.calls]],
         items' = [items EXCEPT ![w] =
                     [r \in JobRecords |-> IF seen[w][r] > 0 THEN run.items[r] ELSE NoItem]],
         Enter(w, "begun"), UNCHANGED <<automatic, asked, seen, batch>>
  PROVE  AutoInv'
<1>1. run \in Runs /\ run.token \in Nat /\ run.calls \in Nat /\ run.items \in Receipts
  BY DEF AutoInv, AutoTypeOK, SharedTypeOK, Runs
<1>2. PICK t : t = run.token + 1
  OBVIOUS
<1>3. /\ run' \in Runs /\ run'.token = t /\ run'.calls = run.calls
      /\ run'.items = run.items /\ t \in Nat /\ t > run.token
  <2>1. t \in Nat /\ t > run.token
    BY <1>1, <1>2
  <2>2. run' = [run EXCEPT !.status = "RUNNING", !.live = TRUE, !.token = t]
    BY <1>1, <1>2 DEF Runs
  <2>3. /\ run' \in Runs /\ run'.token = t /\ run'.calls = run.calls
        /\ run'.items = run.items
    BY <1>1, <2>1, <2>2 DEF Runs
  <2> QED
    BY <2>1, <2>3
<1>4. /\ at' \in [Reviewers -> Places] /\ at'[w] = "begun"
      /\ \A v \in Reviewers \ {w} : at'[v] = at[v]
  BY EnterEffect DEF AutoInv, AutoTypeOK, Places
<1>5. /\ lease' \in [Reviewers -> Nat] /\ lease'[w] = t
      /\ \A v \in Reviewers \ {w} : lease'[v] = lease[v]
  BY <1>2, <1>3 DEF AutoInv, AutoTypeOK, WorkerTypeOK
<1>6. PICK c : c = [now |-> run.calls, begun |-> run.calls]
  OBVIOUS
<1>7. c \in [now : Nat, begun : Nat] /\ c.now = run.calls
  BY <1>1, <1>6
<1>8. /\ calls' \in [Reviewers -> [now : Nat, begun : Nat]] /\ calls'[w] = c
      /\ \A v \in Reviewers \ {w} : calls'[v] = calls[v]
  BY <1>6, <1>7 DEF AutoInv, AutoTypeOK, WorkerTypeOK
<1>9. PICK receipt : receipt =
         [r \in JobRecords |-> IF seen[w][r] > 0 THEN run.items[r] ELSE NoItem]
  OBVIOUS
<1>10. /\ receipt \in Receipts
       /\ \A r \in JobRecords : receipt[r] \in {run.items[r], NoItem}
  BY <1>1, <1>9 DEF Receipts
<1>11. /\ items' \in [Reviewers -> Receipts] /\ items'[w] = receipt
       /\ \A v \in Reviewers \ {w} : items'[v] = items[v]
  BY <1>9, <1>10 DEF AutoInv, AutoTypeOK, WorkerTypeOK
<1>12. Others(w) /\ WorkerTypeOK' /\ SharedTypeOK'
  BY <1>3, <1>4, <1>5, <1>8, <1>11
     DEF Others, AutoInv, AutoTypeOK, WorkerTypeOK, SharedTypeOK
<1>13. ReadingInv'
  <2>1. at'[w] # "idle"
    BY <1>4
  <2> QED
    BY <1>12, <2>1, ReadingKept DEF AutoInv
<1>14. ReceiptInv'
  <2>1. ASSUME NEW r \in JobRecords, NEW v \in Reviewers, items'[v][r] = "AUTO_APPROVED"
        PROVE  Credited(r)
    <3>1. CASE v = w
      BY <1>10, <1>11, <2>1, <3>1 DEF NoItem, AutoInv, ReceiptInv
    <3>2. CASE v # w
      BY <1>11, <2>1, <3>2 DEF AutoInv, ReceiptInv
    <3> QED
      BY <3>1, <3>2
  <2>2. \A r \in JobRecords : Credited(r)' <=> Credited(r)
    BY DEF Credited
  <2> QED
    BY <1>3, <2>1, <2>2 DEF AutoInv, ReceiptInv
<1>15. \A v \in Reviewers : lease[v] \in Nat /\ lease[v] <= run.token
  BY DEF AutoInv, AutoTypeOK, WorkerTypeOK, LeaseInv
<1>16. LeaseInv'
  <2>1. \A v \in Reviewers : lease'[v] <= t
    BY <1>1, <1>3, <1>5, <1>15
  <2>2. ASSUME NEW v \in Reviewers, Working(v)'
        PROVE  lease'[v] > 0
    BY <1>1, <1>3, <1>4, <1>5, <2>2 DEF Working, AutoInv, LeaseInv
  <2>3. ASSUME NEW u \in Reviewers, NEW v \in Reviewers, lease'[u] = lease'[v], lease'[u] > 0
        PROVE  u = v
    BY <1>1, <1>3, <1>5, <1>15, <2>3 DEF AutoInv, LeaseInv
  <2> QED
    BY <1>3, <2>1, <2>2, <2>3 DEF LeaseInv
<1>17. Owed' = Owed /\ Owed \in Nat
  BY OwedTyped DEF Owed, Tickets, AutoInv, AutoTypeOK, SharedTypeOK
<1>18. ASSUME NEW v \in Reviewers, Holds(v)'
       PROVE  v = w
  BY <1>1, <1>3, <1>5, <1>15, <1>18 DEF Holds
<1>19. BudgetInv'
  BY <1>1, <1>3, <1>7, <1>8, <1>17, <1>18 DEF AutoInv, BudgetInv
<1> QED
  BY <1>12, <1>13, <1>14, <1>16, <1>19 DEF AutoInv, AutoTypeOK

LEMMA StartPreserves ==
  ASSUME AutoInv, RecordsInv, ChainsGrow, NEW w \in Reviewers, NEW retry, Start(w, retry)
  PROVE  AutoInv'
<1>1. CASE Answered(retry)
  <2>1. Forget(w) /\ UNCHANGED <<run, automatic, asked>>
    BY <1>1 DEF Start, sharedVars
  <2>2. run \in Runs
    BY DEF AutoInv, AutoTypeOK, SharedTypeOK
  <2> QED
    BY <2>1, <2>2, ForgetStep
<1>2. CASE ~Answered(retry)
  BY <1>2, BeginPreserves DEF Start, In
<1> QED
  BY <1>1, <1>2

LEMMA VanishPreserves ==
  ASSUME AutoInv, RecordsInv, ChainsGrow, NEW w \in Reviewers, Vanish(w)
  PROVE  AutoInv'
<1>1. Forget(w) /\ UNCHANGED <<run, automatic, asked>>
  BY DEF Vanish, sharedVars
<1>2. run \in Runs
  BY DEF AutoInv, AutoTypeOK, SharedTypeOK
<1> QED
  BY <1>1, <1>2, ForgetStep

LEMMA FinishPreserves ==
  ASSUME AutoInv, RecordsInv, ChainsGrow, NEW w \in Reviewers, Finish(w)
  PROVE  AutoInv'
<1>1. PICK status \in {"PARTIAL", "COMPLETED"} :
         run' = [run EXCEPT !.status = status, !.live = FALSE,
                            !.calls = calls[w].now, !.items = items[w]]
  BY DEF Finish, Saved
<1>2. run \in Runs /\ calls[w].now \in Nat /\ items[w] \in Receipts
  BY DEF AutoInv, AutoTypeOK, SharedTypeOK, WorkerTypeOK
<1>3. run' \in Runs /\ run'.token = run.token /\ run'.calls = calls[w].now /\ run'.items = items[w]
  BY <1>1, <1>2 DEF Runs
<1>4. Working(w) /\ Holds(w) /\ Forget(w) /\ UNCHANGED <<automatic, asked>>
  BY DEF Finish, In, Working
<1> QED
  BY <1>3, <1>4, ForgetStep

-----------------------------------------------------------------------------
(***************************************************************************)
(* Questions and decisions.                                                *)
(***************************************************************************)

LEMMA SortIdentitiesPreserves ==
  ASSUME AutoInv, RecordsInv, ChainsGrow, NEW w \in Reviewers, NEW n,
         n = seen[w] \/ n = Loaded, SortIdentities(w, n)
  PROVE  AutoInv'
<1>1. /\ at[w] = "begun" /\ Sort(w, Reviewed(n, Mentions), n, FALSE)
      /\ seen' = [seen EXCEPT ![w] = n] /\ Enter(w, "identities")
      /\ UNCHANGED <<run, automatic, asked, lease, calls>>
  BY DEF SortIdentities, sharedVars, In
<1>2. ReadingInv' /\ WorkerTypeOK'
  <2>1. "identities" \in Places \ {"idle"}
    BY DEF Places
  <2> QED
    BY <1>1, <2>1, SortReads DEF AutoInv
<1>3. /\ at'[w] = "identities" /\ \A v \in Reviewers \ {w} : at'[v] = at[v]
  BY <1>1, EnterEffect DEF AutoInv, AutoTypeOK, Places
<1>4. /\ \A v \in Reviewers \ {w} : batch'[v] = batch[v] /\ items'[v] = items[v]
      /\ \A r \in JobRecords :
            /\ batch'[w][r].now # "asking"
            /\ items'[w][r] = "AUTO_APPROVED" => items[w][r] = "AUTO_APPROVED" \/ Credited(r)
  BY <1>1, SortEffect DEF AutoInv, AutoTypeOK
<1>5. SharedTypeOK'
  BY <1>1 DEF AutoInv, AutoTypeOK, SharedTypeOK
<1>6. \A v \in Reviewers \ {w} : seen'[v] = seen[v]
  BY <1>1 DEF AutoInv, AutoTypeOK, WorkerTypeOK
<1>7. Others(w)
  BY <1>1, <1>3, <1>4, <1>6 DEF Others
<1>8. ReceiptInv'
  <2>1. automatic \subseteq automatic' /\ \A r \in JobRecords : Credited(r) => Credited(r)'
    BY <1>1 DEF Credited
  <2> QED
    BY <1>1, <1>4, <1>7, <2>1, ReceiptKept DEF AutoInv
<1>9. LeaseStays
  BY <1>1, <1>3 DEF LeaseStays, Working
<1>10. \A v \in Reviewers : \A r \in JobRecords :
         batch'[v][r].now = "asking" =>
            /\ batch[v][r].now = "asking" /\ batch'[v][r].tries \in Nat
            /\ batch[v][r].tries <= batch'[v][r].tries
  <2>1. ASSUME NEW v \in Reviewers, NEW r \in JobRecords, batch'[v][r].now = "asking"
        PROVE  batch'[v][r] = batch[v][r] /\ batch[v][r].tries \in 0..CallsPerReview
    BY <1>4, <2>1 DEF AutoInv, AutoTypeOK, WorkerTypeOK, Batches
  <2> QED
    BY <2>1
<1>11. Owed' <= Owed /\ asked' \in Nat
  BY <1>1, <1>10, OwedShrinks DEF AutoInv, AutoTypeOK, SharedTypeOK
<1>12. BudgetInv'
  BY <1>1, <1>9, <1>11, BudgetStays DEF AutoInv
<1> QED
  BY <1>2, <1>5, <1>8, <1>9, <1>12, LeaseKept DEF AutoInv, AutoTypeOK

LEMMA SortFactsPreserves ==
  ASSUME AutoInv, RecordsInv, ChainsGrow, NEW w \in Reviewers, SortFacts(w)
  PROVE  AutoInv'
<1>1. PICK n : n = Loaded
  OBVIOUS
<1>2. PICK mapping \in BOOLEAN : Sort(w, Reviewed(n, Facts), n, mapping)
  BY <1>1 DEF SortFacts
<1>3. /\ at[w] = "identities" /\ Holds(w) /\ Working(w)
      /\ run' = [run EXCEPT !.calls = calls[w].now, !.items = items[w], !.live = TRUE]
      /\ seen' = [seen EXCEPT ![w] = n] /\ Enter(w, "facts")
      /\ UNCHANGED <<automatic, asked, lease, calls>>
  BY <1>1 DEF SortFacts, In, Working
<1>4. ReadingInv' /\ WorkerTypeOK'
  <2>1. "facts" \in Places \ {"idle"}
    BY DEF Places
  <2> QED
    BY <1>1, <1>2, <1>3, <2>1, SortReads DEF AutoInv
<1>5. /\ at'[w] = "facts" /\ \A v \in Reviewers \ {w} : at'[v] = at[v]
  BY <1>3, EnterEffect DEF AutoInv, AutoTypeOK, Places
<1>6. /\ \A v \in Reviewers \ {w} : batch'[v] = batch[v] /\ items'[v] = items[v]
      /\ \A r \in JobRecords :
            /\ batch'[w][r].now # "asking"
            /\ items'[w][r] = "AUTO_APPROVED" => items[w][r] = "AUTO_APPROVED" \/ Credited(r)
  BY <1>2, SortEffect DEF AutoInv, AutoTypeOK
<1>7. /\ run' \in Runs /\ run'.token = run.token /\ run'.calls = calls[w].now
      /\ run'.items = items[w]
  <2>1. run \in Runs /\ calls[w].now \in Nat /\ items[w] \in Receipts
    BY DEF AutoInv, AutoTypeOK, SharedTypeOK, WorkerTypeOK
  <2> QED
    BY <1>3, <2>1 DEF Runs
<1>8. SharedTypeOK'
  BY <1>3, <1>7 DEF AutoInv, AutoTypeOK, SharedTypeOK
<1>9. \A v \in Reviewers \ {w} : seen'[v] = seen[v]
  BY <1>3 DEF AutoInv, AutoTypeOK, WorkerTypeOK
<1>10. Others(w)
  BY <1>3, <1>5, <1>6, <1>9 DEF Others
<1>11. ReceiptInv'
  <2>1. automatic \subseteq automatic' /\ \A r \in JobRecords : Credited(r) => Credited(r)'
    BY <1>3 DEF Credited
  <2> QED
    BY <1>3, <1>6, <1>7, <1>10, <2>1, ReceiptKept DEF AutoInv
<1>12. LeaseStays
  BY <1>3, <1>5, <1>7 DEF LeaseStays, Working
<1>13. \A v \in Reviewers : \A r \in JobRecords :
         batch'[v][r].now = "asking" =>
            /\ batch[v][r].now = "asking" /\ batch'[v][r].tries \in Nat
            /\ batch[v][r].tries <= batch'[v][r].tries
  <2>1. ASSUME NEW v \in Reviewers, NEW r \in JobRecords, batch'[v][r].now = "asking"
        PROVE  batch'[v][r] = batch[v][r] /\ batch[v][r].tries \in 0..CallsPerReview
    BY <1>6, <2>1 DEF AutoInv, AutoTypeOK, WorkerTypeOK, Batches
  <2> QED
    BY <2>1
<1>14. Owed' <= Owed /\ asked' \in Nat
  BY <1>3, <1>13, OwedShrinks DEF AutoInv, AutoTypeOK, SharedTypeOK
<1>15. BudgetInv'
  BY <1>3, <1>7, <1>12, <1>14, BudgetSaved DEF AutoInv
<1> QED
  BY <1>4, <1>8, <1>11, <1>12, <1>15, LeaseKept DEF AutoInv, AutoTypeOK

\* A record is done with.
LEMMA ConcludedEffect ==
  ASSUME WorkerTypeOK, NEW w \in Reviewers, NEW r \in JobRecords, NEW item \in Verdicts,
         Concluded(w, r, item), UNCHANGED <<at, seen, lease, calls>>
  PROVE  /\ Others(w) /\ WorkerTypeOK'
         /\ \A q \in JobRecords :
               /\ batch'[w][q].now \in Open => batch[w][q].now \in Open
               /\ batch'[w][q].now = "asking" =>
                     batch[w][q].now = "asking" /\ batch'[w][q].tries = batch[w][q].tries
               /\ items'[w][q] = IF q = r THEN item ELSE items[w][q]
<1>1. PICK new \in Batches : Asks(w, r, new) /\ new.now = "done"
  <2>1. batch' = [batch EXCEPT ![w][r].now = "done"]
    BY DEF Concluded
  <2>2. \E new \in Batches : /\ Asks(w, r, new) /\ new.now = "done"
                             /\ new.tries = batch[w][r].tries
    BY <2>1, BatchNow
  <2> QED
    BY <2>2
<1>2. items' \in [Reviewers -> Receipts]
      /\ (\A v \in Reviewers \ {w} : items'[v] = items[v])
      /\ (\A q \in JobRecords : items'[w][q] = IF q = r THEN item ELSE items[w][q])
  <2>1. PICK receipt : receipt = [items[w] EXCEPT ![r] = item]
    OBVIOUS
  <2>2. items[w] \in Receipts /\ items \in [Reviewers -> Receipts]
    BY DEF WorkerTypeOK
  <2>3. receipt \in Receipts /\ \A q \in JobRecords : receipt[q] = IF q = r THEN item ELSE items[w][q]
    BY <2>1, <2>2 DEF Receipts
  <2>4. items' = [items EXCEPT ![w] = receipt]
    BY <2>1, <2>2 DEF Concluded
  <2> QED
    BY <2>2, <2>3, <2>4
<1>3. Others(w) /\ WorkerTypeOK'
  BY <1>1, <1>2 DEF Others, Asks, WorkerTypeOK
<1>4. ASSUME NEW q \in JobRecords
      PROVE  /\ batch'[w][q].now \in Open => batch[w][q].now \in Open
             /\ batch'[w][q].now = "asking" =>
                   batch[w][q].now = "asking" /\ batch'[w][q].tries = batch[w][q].tries
  <2>1. CASE q = r
    BY <1>1, <2>1 DEF Asks, Open
  <2>2. CASE q # r
    BY <1>1, <2>2 DEF Asks
  <2> QED
    BY <2>1, <2>2
<1> QED
  BY <1>2, <1>3, <1>4

LEMMA CommitPreserves ==
  ASSUME AutoInv, ChainsGrow, NEW w \in Reviewers, NEW r \in JobRecords, Commit(w, r)
  PROVE  AutoInv'
<1>1. Working(w) /\ at[w] # "idle"
  BY DEF Commit, Reviewing, Working
<1>2. CASE /\ automatic' = automatic \cup
                  {[record |-> r, n |-> AsRead(w, r) + 1, token |-> lease[w]]}
           /\ Concluded(w, r, "AUTO_APPROVED")
           /\ UNCHANGED <<run, asked, at, seen, lease, calls>>
  <2>1. /\ Others(w) /\ WorkerTypeOK'
        /\ \A q \in JobRecords :
               /\ batch'[w][q].now \in Open => batch[w][q].now \in Open
               /\ batch'[w][q].now = "asking" =>
                     batch[w][q].now = "asking" /\ batch'[w][q].tries = batch[w][q].tries
               /\ items'[w][q] = IF q = r THEN "AUTO_APPROVED" ELSE items[w][q]
    BY <1>2, ConcludedEffect DEF AutoInv, AutoTypeOK, Verdicts
  <2>2. PICK a : a = [record |-> r, n |-> AsRead(w, r) + 1, token |-> lease[w]]
    OBVIOUS
  <2>3. a \in [record : JobRecords, n : Nat, token : Nat] /\ a.record = r
    <3>1. AsRead(w, r) + 1 \in Nat /\ lease[w] \in Nat
      BY DEF AsRead, AutoInv, AutoTypeOK, WorkerTypeOK
    <3> QED
      BY <2>2, <3>1
  <2>4. automatic' = automatic \cup {a}
    BY <1>2, <2>2
  <2>5. SharedTypeOK' /\ Credited(r)' /\ automatic \subseteq automatic'
    BY <1>2, <2>3, <2>4 DEF AutoInv, AutoTypeOK, SharedTypeOK, Credited
  <2>6. Working(w)' /\ at'[w] # "idle"
    BY <1>1, <1>2 DEF Working
  <2>7. \A q \in JobRecords :
            items'[w][q] = "AUTO_APPROVED" => items[w][q] = "AUTO_APPROVED" \/ Credited(q)'
    BY <2>1, <2>5
  <2> QED
    BY <1>1, <1>2, <2>1, <2>5, <2>6, <2>7, QuietStep
<1>3. CASE /\ Concluded(w, r, Refused(r))
           /\ UNCHANGED <<reviewVars, sharedVars, at, seen, lease, calls>>
  <2>1. Refused(r) \in Verdicts /\ Refused(r) # "AUTO_APPROVED"
    BY DEF Refused, Verdicts
  <2>2. PICK item : item = Refused(r)
    OBVIOUS
  <2>3. /\ Others(w) /\ WorkerTypeOK'
        /\ \A q \in JobRecords :
               /\ batch'[w][q].now \in Open => batch[w][q].now \in Open
               /\ batch'[w][q].now = "asking" =>
                     batch[w][q].now = "asking" /\ batch'[w][q].tries = batch[w][q].tries
               /\ items'[w][q] = IF q = r THEN item ELSE items[w][q]
    BY <1>3, <2>1, <2>2, ConcludedEffect DEF AutoInv, AutoTypeOK
  <2>4. SharedTypeOK' /\ UNCHANGED <<run, automatic, asked, at, seen, lease, calls>>
    BY <1>3 DEF sharedVars, AutoInv, AutoTypeOK, SharedTypeOK
  <2>5. Working(w)' /\ at'[w] # "idle"
    BY <1>1, <2>4 DEF Working
  <2>6. \A q \in JobRecords : items'[w][q] = "AUTO_APPROVED" => items[w][q] = "AUTO_APPROVED"
    BY <2>1, <2>2, <2>3
  <2> QED
    BY <1>1, <2>3, <2>4, <2>5, <2>6, QuietStep
<1>4. CASE Raise(w)
  BY <1>4, RaisePreserves
<1> QED
  BY <1>2, <1>3, <1>4 DEF Commit

LEMMA LeavePreserves ==
  ASSUME AutoInv, ChainsGrow, NEW w \in Reviewers, NEW r \in JobRecords, LeaveToPeople(w, r)
  PROVE  AutoInv'
<1>1. Working(w) /\ at[w] # "idle"
  BY DEF LeaveToPeople, Reviewing, Working
<1>2. PICK item \in Verdicts : Concluded(w, r, item) /\ item # "AUTO_APPROVED"
  BY DEF LeaveToPeople, Verdicts
<1>3. SharedTypeOK' /\ UNCHANGED <<run, automatic, asked, at, seen, lease, calls>>
  BY DEF LeaveToPeople, sharedVars, AutoInv, AutoTypeOK, SharedTypeOK
<1>4. /\ Others(w) /\ WorkerTypeOK'
      /\ \A q \in JobRecords :
               /\ batch'[w][q].now \in Open => batch[w][q].now \in Open
               /\ batch'[w][q].now = "asking" =>
                     batch[w][q].now = "asking" /\ batch'[w][q].tries = batch[w][q].tries
               /\ items'[w][q] = IF q = r THEN item ELSE items[w][q]
  BY <1>2, <1>3, ConcludedEffect DEF AutoInv, AutoTypeOK
<1>5. Working(w)' /\ at'[w] # "idle"
  BY <1>1, <1>3 DEF Working
<1>6. \A q \in JobRecords : items'[w][q] = "AUTO_APPROVED" => items[w][q] = "AUTO_APPROVED"
  BY <1>2, <1>4
<1> QED
  BY <1>1, <1>3, <1>4, <1>5, <1>6, QuietStep

\* A worker whose questions or calls change, and that saves nothing of its
\* receipt: what is left to show is that it has paid.
LEMMA AskingStep ==
  ASSUME AutoInv, ChainsGrow, NEW w \in Reviewers, NEW r \in JobRecords, NEW new,
         Asks(w, r, new), UNCHANGED <<automatic, at, seen, lease, items>>,
         asked' \in Nat, run' \in Runs, run'.token = run.token, run'.items = run.items,
         calls' \in [Reviewers -> [now : Nat, begun : Nat]],
         \A v \in Reviewers \ {w} : calls'[v] = calls[v],
         new.now \in Open => batch[w][r].now \in Open, at[w] # "idle",
         BudgetInv'
  PROVE  AutoInv'
<1>1. Others(w)
  BY DEF Others, Asks
<1>2. WorkerTypeOK' /\ SharedTypeOK'
  BY DEF Asks, AutoInv, AutoTypeOK, WorkerTypeOK, SharedTypeOK
<1>3. \A q \in JobRecords : batch'[w][q].now \in Open => batch[w][q].now \in Open
  BY DEF Asks
<1>4. ReadingInv'
  BY <1>1, <1>3, ReadingKept DEF AutoInv
<1>5. ReceiptInv'
  BY DEF AutoInv, ReceiptInv, Credited
<1>6. LeaseStays
  BY DEF LeaseStays, Working
<1> QED
  BY <1>2, <1>4, <1>5, <1>6, LeaseKept DEF AutoInv, AutoTypeOK

\* What the worker with the lease has paid is saved at once.
LEMMA PaidBudget ==
  ASSUME AutoInv, NEW w \in Reviewers, Working(w), Holds(w), LeaseStays, asked' = asked,
         Owed' <= Owed + CallsPerReview, Affordable(calls[w]),
         calls'[w].now = calls[w].now + CallsPerReview, run'.calls = calls'[w].now
  PROVE  BudgetInv'
<1>1. /\ Owed \in Nat /\ Owed' \in Nat /\ calls[w].now \in Nat
      /\ CallsPerReview \in Nat /\ CallsInTotal \in Nat
  BY OwedTyped, AutoAssumption DEF AutoInv, AutoTypeOK, SharedTypeOK, WorkerTypeOK
<1>2. Owed <= calls[w].now /\ calls[w].now + CallsPerReview <= CallsInTotal
  BY DEF AutoInv, BudgetInv, Affordable
<1>3. Owed' <= run'.calls /\ run'.calls <= CallsInTotal
  BY <1>1, <1>2
<1>4. ASSUME NEW v \in Reviewers, Working(v)', Holds(v)'
      PROVE  v = w
  BY <1>4 DEF LeaseStays, Holds, AutoInv, LeaseInv
<1>5. calls'[w].now <= run'.calls
  BY <1>1
<1> QED
  BY <1>3, <1>4, <1>5 DEF BudgetInv

LEMMA ReservePreserves ==
  ASSUME AutoInv, ChainsGrow, NEW w \in Reviewers, NEW r \in JobRecords, Reserve(w, r)
  PROVE  AutoInv'
<1>1. /\ Working(w) /\ at[w] # "idle" /\ batch[w][r].now = "ready"
      /\ UNCHANGED <<reviewVars, automatic, asked, seen, lease, items>>
  BY DEF Reserve, Reviewing, Working
<1>2. run \in Runs /\ asked \in Nat /\ calls \in [Reviewers -> [now : Nat, begun : Nat]]
  BY DEF AutoInv, AutoTypeOK, SharedTypeOK, WorkerTypeOK
<1>3. CASE batch' = [batch EXCEPT ![w][r].now = "unavailable"] /\ UNCHANGED <<run, calls, at>>
  <2>1. PICK new \in Batches : Asks(w, r, new) /\ new.now = "unavailable"
    <3>1. \E new \in Batches : /\ Asks(w, r, new) /\ new.now = "unavailable"
                               /\ new.tries = batch[w][r].tries
      BY <1>3, BatchNow DEF AutoInv, AutoTypeOK
    <3> QED
      BY <3>1
  <2>2. LeaseStays
    BY <1>1, <1>3 DEF LeaseStays, Working
  <2>3. \A v \in Reviewers : \A q \in JobRecords :
           batch'[v][q].now = "asking" =>
              /\ batch[v][q].now = "asking" /\ batch'[v][q].tries \in Nat
              /\ batch[v][q].tries <= batch'[v][q].tries
    <3>1. ASSUME NEW v \in Reviewers, NEW q \in JobRecords, batch'[v][q].now = "asking"
          PROVE  batch'[v][q] = batch[v][q] /\ batch[v][q].tries \in 0..CallsPerReview
      BY <2>1, <3>1 DEF Asks, AutoInv, AutoTypeOK, WorkerTypeOK, Batches
    <3> QED
      BY <3>1
  <2>4. Owed' <= Owed /\ asked' \in Nat
    BY <1>1, <1>2, <2>3, OwedShrinks DEF AutoInv
  <2>5. BudgetInv'
    BY <1>3, <2>2, <2>4, BudgetStays DEF AutoInv
  <2>6. batch[w][r].now \in Open
    BY <1>1 DEF Open
  <2> QED
    BY <1>1, <1>2, <1>3, <2>1, <2>4, <2>5, <2>6, AskingStep
<1>4. CASE /\ Affordable(calls[w]) /\ Holds(w)
           /\ calls' = [calls EXCEPT ![w].now = @ + Paid(CallsPerReview)]
           /\ run' = [run EXCEPT !.calls = calls'[w].now, !.live = TRUE]
           /\ batch' = [batch EXCEPT ![w][r].now = "asking"]
           /\ UNCHANGED at
  <2>1. PICK new \in Batches : Asks(w, r, new) /\ new.now = "asking"
    <3>1. \E new \in Batches : /\ Asks(w, r, new) /\ new.now = "asking"
                               /\ new.tries = batch[w][r].tries
      BY <1>4, BatchNow DEF AutoInv, AutoTypeOK
    <3> QED
      BY <3>1
  <2>2. /\ calls' \in [Reviewers -> [now : Nat, begun : Nat]]
        /\ calls'[w].now = calls[w].now + CallsPerReview
        /\ \A v \in Reviewers \ {w} : calls'[v] = calls[v]
    <3>1. PICK n : n = calls[w].now + CallsPerReview
      OBVIOUS
    <3>2. n \in Nat /\ calls[w] \in [now : Nat, begun : Nat]
      BY <1>2, <3>1, AutoAssumption
    <3>3. PICK c : c = [calls[w] EXCEPT !.now = n]
      OBVIOUS
    <3>4. c \in [now : Nat, begun : Nat] /\ c.now = n
      BY <3>2, <3>3
    <3>5. calls' = [calls EXCEPT ![w] = c]
      BY <1>2, <1>4, <3>1, <3>3 DEF Paid
    <3> QED
      BY <1>2, <3>1, <3>4, <3>5
  <2>3. PICK n : n = calls'[w].now
    OBVIOUS
  <2>4. n \in Nat /\ run' = [run EXCEPT !.calls = n, !.live = TRUE]
    BY <1>4, <2>2, <2>3
  <2>5. /\ run' \in Runs /\ run'.token = run.token /\ run'.items = run.items
        /\ run'.calls = calls'[w].now
    BY <1>2, <2>3, <2>4 DEF Runs
  <2>6. LeaseStays
    BY <1>1, <1>4, <2>5 DEF LeaseStays, Working
  <2>7. Cardinality(Tickets') <= Cardinality(Tickets) + CallsPerReview
    BY <2>1, TicketsBought DEF Asks, AutoInv
  <2>8. Owed' <= Owed + CallsPerReview
    BY <1>1, <1>2, <2>7, TicketsCount, AutoAssumption DEF Owed
  <2>9. BudgetInv'
    BY <1>1, <1>4, <2>2, <2>5, <2>6, <2>8, PaidBudget
  <2>10. batch[w][r].now \in Open
    BY <1>1 DEF Open
  <2> QED
    BY <1>1, <1>2, <1>4, <2>1, <2>2, <2>5, <2>9, <2>10, AskingStep
<1>5. CASE Enter(w, "raised") /\ UNCHANGED <<run, calls, batch>>
  BY <1>1, <1>2, <1>5, RaiseStep
<1> QED
  BY <1>3, <1>4, <1>5 DEF Reserve

LEMMA AskPreserves ==
  ASSUME AutoInv, ChainsGrow, NEW w \in Reviewers, NEW r \in JobRecords, AskModel(w, r)
  PROVE  AutoInv'
<1>1. /\ at[w] # "idle" /\ batch[w][r].now = "asking" /\ batch[w][r].tries < CallsPerReview
      /\ asked' = asked + 1
      /\ batch' = [batch EXCEPT ![w][r].tries = @ + 1]
      /\ UNCHANGED <<run, automatic, at, seen, lease, calls, items>>
  BY DEF AskModel, Reviewing, In
<1>2. /\ run \in Runs /\ asked \in Nat /\ calls \in [Reviewers -> [now : Nat, begun : Nat]]
      /\ batch \in [Reviewers -> [JobRecords -> Batches]] /\ batch[w][r] \in Batches
  BY DEF AutoInv, AutoTypeOK, SharedTypeOK, WorkerTypeOK
<1>3. PICK k : k = batch[w][r].tries + 1
  OBVIOUS
<1>4. k \in 0..CallsPerReview
  BY <1>1, <1>2, <1>3, AutoAssumption DEF Batches
<1>5. PICK new : new = [batch[w][r] EXCEPT !.tries = k]
  OBVIOUS
<1>6. new \in Batches /\ new.now = "asking" /\ new.tries = k
  BY <1>1, <1>2, <1>4, <1>5 DEF Batches
<1>7. batch' = [batch EXCEPT ![w][r] = new]
  BY <1>1, <1>2, <1>3, <1>5
<1>8. Asks(w, r, new)
  BY <1>6, <1>7, BatchSet DEF AutoInv, AutoTypeOK
<1>9. Cardinality(Tickets') = Cardinality(Tickets) - 1
  BY <1>1, <1>3, <1>6, <1>8, TicketUsed DEF Asks, AutoInv
<1>10. Owed' <= Owed /\ asked' \in Nat
  BY <1>1, <1>2, <1>9, TicketsCount DEF Owed
<1>11. LeaseStays
  BY <1>1 DEF LeaseStays, Working
<1>12. BudgetInv'
  BY <1>1, <1>10, <1>11, BudgetStays DEF AutoInv
<1>13. batch[w][r].now \in Open
  BY <1>1 DEF Open
<1> QED
  BY <1>1, <1>2, <1>8, <1>10, <1>12, <1>13, AskingStep

\* What a question gives back were its tickets.
LEMMA ReturnedBudget ==
  ASSUME AutoInv, NEW w \in Reviewers, NEW back \in Nat, LeaseStays, asked' = asked,
         Owed' + back <= Owed, run' = run, Holds(w), Working(w),
         calls'[w].now = calls[w].now - back,
         \A v \in Reviewers \ {w} : calls'[v] = calls[v]
  PROVE  BudgetInv' /\ calls[w].now - back \in Nat
<1>1. Owed \in Nat /\ Owed' \in Nat /\ run.calls \in Nat /\ CallsInTotal \in Nat
      /\ \A v \in Reviewers : calls[v].now \in Nat
  BY OwedTyped, AutoAssumption DEF AutoInv, AutoTypeOK, SharedTypeOK, WorkerTypeOK, Runs
<1>2. Owed <= run.calls /\ run.calls <= CallsInTotal
      /\ Owed <= calls[w].now /\ calls[w].now <= run.calls
  BY DEF AutoInv, BudgetInv
<1>3. PICK before, after, now : before = Owed /\ after = Owed' /\ now = calls[w].now
  OBVIOUS
<1>4. PICK paid : paid = run.calls /\ paid = run'.calls
  OBVIOUS
<1>5. /\ before \in Nat /\ after \in Nat /\ now \in Nat /\ paid \in Nat /\ back \in Nat
      /\ after + back <= before /\ before <= now /\ now <= paid
  BY <1>1, <1>2, <1>3, <1>4
<1>6. after <= paid /\ after <= now - back /\ now - back <= paid /\ now - back \in Nat
  BY <1>5
<1>7. /\ Owed' <= run'.calls /\ run'.calls <= CallsInTotal /\ calls[w].now - back \in Nat
      /\ Owed' <= calls'[w].now /\ calls'[w].now <= run'.calls
  BY <1>2, <1>3, <1>4, <1>6
<1>8. ASSUME NEW v \in Reviewers, Working(v)', Holds(v)'
      PROVE  v = w
  BY <1>8 DEF LeaseStays, Holds, AutoInv, LeaseInv
<1> QED
  BY <1>7, <1>8 DEF BudgetInv

LEMMA AnswerPreserves ==
  ASSUME AutoInv, ChainsGrow, NEW w \in Reviewers, NEW r \in JobRecords,
         NEW said \in {"yes", "no", "unavailable"}, AnswerModel(w, r, said)
  PROVE  AutoInv'
<1>1. CASE ~Holds(w)
  BY <1>1, RaisePreserves DEF AnswerModel
<1>2. CASE Holds(w)
  <2>1. /\ Working(w) /\ at[w] # "idle" /\ batch[w][r].now = "asking"
        /\ batch' = [batch EXCEPT ![w][r] =
                  IF said = "no" /\ @.mapping
                  THEN [now |-> "ready", tries |-> 0, mapping |-> FALSE]
                  ELSE [@ EXCEPT !.now = said]]
        /\ UNCHANGED <<run, automatic, asked, at, seen, lease, items>>
    BY <1>2 DEF AnswerModel, sharedVars, Reviewing, Working
  <2>2. /\ run \in Runs /\ asked \in Nat /\ calls \in [Reviewers -> [now : Nat, begun : Nat]]
        /\ batch \in [Reviewers -> [JobRecords -> Batches]] /\ batch[w][r] \in Batches
    BY DEF AutoInv, AutoTypeOK, SharedTypeOK, WorkerTypeOK
  <2>3. PICK k : k = batch[w][r].tries
    OBVIOUS
  <2>4. k \in 0..CallsPerReview /\ CallsPerReview \in Nat
    BY <2>2, <2>3, AutoAssumption DEF Batches
  <2>5. PICK back \in {0, CallsPerReview - k} :
           calls' = [calls EXCEPT ![w].now = @ - Paid(back)]
    BY <1>2, <2>3 DEF AnswerModel
  <2>6. back \in Nat /\ back <= CallsPerReview - k
    BY <2>4
  <2>7. PICK new : new = IF said = "no" /\ batch[w][r].mapping
                         THEN [now |-> "ready", tries |-> 0, mapping |-> FALSE]
                         ELSE [batch[w][r] EXCEPT !.now = said]
    OBVIOUS
  <2>8. new \in Batches /\ new.now # "asking"
    <3>1. [now |-> "ready", tries |-> 0, mapping |-> FALSE] \in Batches
      BY AutoAssumption DEF Batches
    <3>2. PICK kept : kept = [batch[w][r] EXCEPT !.now = said]
      OBVIOUS
    <3>3. kept \in Batches /\ kept.now = said
      <4>1. PICK b \in Batches : b = batch[w][r]
        BY <2>2
      <4>2. said \in {"none", "ready", "asking", "yes", "no", "unavailable", "done"}
        OBVIOUS
      <4>3. kept = [b EXCEPT !.now = said]
        BY <3>2, <4>1
      <4> QED
        BY <4>1, <4>2, <4>3 DEF Batches
    <3>4. PICK anew : anew = [now |-> "ready", tries |-> 0, mapping |-> FALSE]
      OBVIOUS
    <3>5. anew \in Batches /\ anew.now = "ready"
      BY <3>1, <3>4
    <3>6. new = kept \/ new = anew
      BY <2>7, <3>2, <3>4
    <3> QED
      BY <3>3, <3>5, <3>6
  <2>9. batch' = [batch EXCEPT ![w][r] = new]
    BY <2>1, <2>2, <2>7
  <2>10. Asks(w, r, new)
    BY <2>8, <2>9, BatchSet DEF AutoInv, AutoTypeOK
  <2>11. Cardinality(Tickets') <= Cardinality(Tickets) - (CallsPerReview - k)
    BY <2>1, <2>3, <2>8, <2>10, TicketsReturned DEF Asks, AutoInv
  <2>12. Owed' + back <= Owed
    BY <2>1, <2>2, <2>4, <2>6, <2>11, TicketsCount DEF Owed
  <2>13. LeaseStays
    BY <2>1 DEF LeaseStays, Working
  <2>14. PICK n : n = calls[w].now - back
    OBVIOUS
  <2>15. PICK c : c = [calls[w] EXCEPT !.now = n]
    OBVIOUS
  <2>16. calls' = [calls EXCEPT ![w] = c]
    BY <2>2, <2>5, <2>14, <2>15 DEF Paid
  <2>17. c.now = n /\ calls'[w] = c /\ \A v \in Reviewers \ {w} : calls'[v] = calls[v]
    BY <2>2, <2>15, <2>16
  <2>18. BudgetInv' /\ n \in Nat
    BY <1>2, <2>1, <2>6, <2>12, <2>13, <2>14, <2>17, ReturnedBudget
  <2>19. calls' \in [Reviewers -> [now : Nat, begun : Nat]]
    <3>1. c \in [now : Nat, begun : Nat]
      BY <2>2, <2>15, <2>18
    <3> QED
      BY <2>2, <2>16, <3>1
  <2>20. batch[w][r].now \in Open
    BY <2>1 DEF Open
  <2> QED
    BY <2>1, <2>2, <2>10, <2>17, <2>18, <2>19, <2>20, AskingStep
<1> QED
  BY <1>1, <1>2

-----------------------------------------------------------------------------
(***************************************************************************)
(* The theorems.                                                           *)
(***************************************************************************)

LEMMA AutoInitially ==
  ASSUME AutoInit
  PROVE  AutoInv
<1>1. /\ run = [status |-> "NONE", live |-> FALSE, token |-> 0, calls |-> 0, items |-> NoItems]
      /\ automatic = {} /\ asked = 0
      /\ at = [w \in Reviewers |-> "idle"]
      /\ seen = [w \in Reviewers |-> [r \in JobRecords |-> 0]]
      /\ lease = [w \in Reviewers |-> 0]
      /\ calls = [w \in Reviewers |-> [now |-> 0, begun |-> 0]]
      /\ items = [w \in Reviewers |-> NoItems]
      /\ batch = [w \in Reviewers |-> NoBatch]
  BY DEF AutoInit
<1>2. run \in Runs /\ run.token = 0 /\ run.calls = 0 /\ run.items = NoItems
  BY <1>1, NoBatchTyped DEF Runs
<1>3. AutoTypeOK
  BY <1>1, <1>2, NoBatchTyped DEF AutoTypeOK, SharedTypeOK, WorkerTypeOK, Places
<1>4. ReadingInv
  <2>1. ASSUME NEW w \in Reviewers, NEW r \in JobRecords
        PROVE  ReadSound(w, r)
    <3>1. Len(Chain(r)) \in Nat
      <4>1. ReviewInv
        BY InitiallySound DEF AutoInit
      <4> QED
        BY <4>1, AutoAssumption, MentionsSound, FactsSound DEF ReviewInv, Chain
    <3> QED
      BY <1>1, <3>1, NoBatchTyped DEF ReadSound, Open
  <2> QED
    BY <1>1, <2>1 DEF ReadingInv
<1>5. ReceiptInv
  BY <1>1, <1>2, NoBatchTyped DEF ReceiptInv, NoItem
<1>6. LeaseInv
  BY <1>1, <1>2 DEF LeaseInv, Working
<1>7. Tickets = {}
  BY <1>1, NoBatchTyped DEF Tickets
<1>8. BudgetInv
  BY <1>1, <1>2, <1>7, FS_EmptySet, AutoAssumption DEF BudgetInv, Owed, Working
<1> QED
  BY <1>3, <1>4, <1>5, <1>6, <1>8 DEF AutoInv

LEMMA WorkerPreserves ==
  ASSUME AutoInv, RecordsInv, ChainsGrow, NEW w \in Reviewers, ReviewAutomatically(w)
  PROVE  AutoInv'
<1>1. ASSUME NEW retry, Start(w, retry)
      PROVE  AutoInv'
  BY <1>1, StartPreserves
<1>2. PICK n : n = Loaded
  OBVIOUS
<1>3. SortIdentities(w, seen[w]) \/ SortIdentities(w, Loaded) => AutoInv'
  <2>1. PICK k : k = seen[w]
    OBVIOUS
  <2>2. SortIdentities(w, k) => AutoInv'
    BY <2>1, SortIdentitiesPreserves
  <2>3. SortIdentities(w, n) => AutoInv'
    BY <1>2, SortIdentitiesPreserves
  <2> QED
    BY <1>2, <2>1, <2>2, <2>3
<1>4. Load(w) \/ SortFacts(w) \/ Finish(w) \/ Interrupt(w) \/ Vanish(w) => AutoInv'
  BY LoadPreserves, SortFactsPreserves, FinishPreserves, InterruptPreserves, VanishPreserves
<1>5. LoseLease(w) => AutoInv'
  BY RaisePreserves DEF LoseLease
<1>6. ASSUME NEW r \in JobRecords,
             Reserve(w, r) \/ AskModel(w, r) \/ Commit(w, r) \/ LeaveToPeople(w, r)
      PROVE  AutoInv'
  BY <1>6, ReservePreserves, AskPreserves, CommitPreserves, LeavePreserves
<1>7. ASSUME NEW r \in JobRecords, NEW said \in {"yes", "no", "unavailable"},
             AnswerModel(w, r, said)
      PROVE  AutoInv'
  BY <1>7, AnswerPreserves
<1> QED
  BY <1>1, <1>3, <1>4, <1>5, <1>6, <1>7, Zenon DEF ReviewAutomatically

LEMMA AutoPreserved ==
  ASSUME AutoInv, ReviewInv, [AutoNext]_allVars
  PROVE  AutoInv'
<1>1. RecordsInv
  BY DEF ReviewInv
<1>2. ChainsGrow
  BY <1>1, StepIsReview, StepGrows
<1>3. CASE UNCHANGED autoVars
  BY <1>2, <1>3, OutsideStep DEF autoVars, sharedVars
<1>4. CASE LeaseLapses
  BY <1>2, <1>4, OutsideStep DEF LeaseLapses
<1>5. ASSUME NEW w \in Reviewers, ReviewAutomatically(w)
      PROVE  AutoInv'
  BY <1>1, <1>2, <1>5, WorkerPreserves
<1>6. UNCHANGED allVars => UNCHANGED autoVars
  BY DEF allVars
<1> QED
  BY <1>3, <1>4, <1>5, <1>6, Zenon DEF AutoNext

\* Whatever people and workers do to the records and to the job, a worker knows
\* what it has read, one worker at most can save what was spent, and every
\* question that is open was paid for (auto_review.py, _start, _model, _audit_tx).
THEOREM AutomaticReviewStaysSound == AutoSpec => [](AutoInv /\ ReviewInv)
<1>1. AutoInit => AutoInv
  BY AutoInitially
<1>2. AutoInv /\ ReviewInv /\ [AutoNext]_allVars => AutoInv'
  BY AutoPreserved
<1> QED
  BY <1>1, <1>2, AutoReviewImplementsReview, RecordsStaySound, PTL DEF AutoSpec

\* The job has paid for every call that reached the provider, never for more
\* than a job may make, and a record that its receipt calls approved was
\* approved by the service.
THEOREM ReceiptStaysTrue == AutoSpec => []ReceiptIsTrue
<1>1. AutoInv => ReceiptIsTrue
  <2>1. ASSUME AutoInv
        PROVE  asked <= run.calls /\ run.calls <= CallsInTotal
    <3>1. /\ asked \in Nat /\ run.calls \in Nat /\ CallsInTotal \in Nat
          /\ Cardinality(Tickets) \in Nat
      BY <2>1, TicketsCount, AutoAssumption DEF AutoInv, AutoTypeOK, SharedTypeOK, Runs
    <3> QED
      BY <2>1, <3>1 DEF AutoInv, BudgetInv, Owed
  <2>2. AutoInv => \A r \in JobRecords :
           run.items[r] = "AUTO_APPROVED" => \E a \in automatic : a.record = r
    BY DEF AutoInv, ReceiptInv, Credited
  <2> QED
    BY <2>1, <2>2 DEF ReceiptIsTrue, BudgetKept
<1> QED
  BY <1>1, AutomaticReviewStaysSound, PTL

-----------------------------------------------------------------------------
(***************************************************************************)
(* What is approved.                                                       *)
(***************************************************************************)

LEMMA LastAppended ==
  ASSUME NEW T, NEW a \in Seq(T), NEW e
  PROVE  Append(a, e)[Len(a) + 1] = e
<1>1. a \in Seq(T \cup {e})
  BY SeqMonotonic
<1> QED
  BY <1>1, AppendProperties

LEMMA ApprovalAppends ==
  ASSUME RecordsInv, NEW w \in Reviewers, NEW r \in JobRecords, Approves(w, r)
  PROVE  /\ seen[w][r] = Len(Chain(r)) /\ seen[w][r] \in Nat
         /\ Chain(r)'[seen[w][r] + 1].status = "APPROVED"
<1>1. PICK n : n = seen[w][r]
  OBVIOUS
<1>2. CASE r \in Mentions
  <2>1. PICK a : a = mentions[r]
    OBVIOUS
  <2>2. a \in Seq(MentionRevisions) /\ ChainsOf(Mentions, mentions)
    BY <1>2, <2>1 DEF RecordsInv, RecordsSound, SoundMention
  <2>3. n = Len(a) /\ n > 0
    BY <1>1, <1>2, <2>1 DEF Approves, AsRead, DecideMention, Resolve, Readable
  <2>4. a[n] \in MentionRevisions
    BY <2>2, <2>3
  <2>5. PICK new : new.status = "APPROVED" /\ mentions' = Extend(mentions, [x \in {r} |-> new])
    <3>1. CASE DecideMention(r, n, "APPROVED", NoEdit)
      <4>1. PICK new : new = [mentions[r][n] EXCEPT !.status = "APPROVED",
                                 !.entity = IF NoEdit = NoEdit THEN @ ELSE NoEdit]
        OBVIOUS
      <4>2. new.status = "APPROVED"
        BY <2>1, <2>4, <4>1 DEF MentionRevisions
      <4>3. mentions' = Extend(mentions, [x \in {r} |-> new])
        BY <3>1, <4>1 DEF DecideMention
      <4> QED
        BY <4>2, <4>3
    <3>2. ASSUME NEW e \in Entities, Resolve(r, n, e)
          PROVE  \E new : /\ new.status = "APPROVED"
                         /\ mentions' = Extend(mentions, [x \in {r} |-> new])
      <4>1. PICK new : new = [mentions[r][n] EXCEPT !.status = "APPROVED", !.entity = e]
        OBVIOUS
      <4>2. new.status = "APPROVED"
        BY <2>1, <2>4, <4>1 DEF MentionRevisions
      <4>3. mentions' = Extend(mentions, [x \in {r} |-> new])
        BY <3>2, <4>1 DEF Resolve
      <4> QED
        BY <4>2, <4>3
    <3> QED
      BY <1>1, <1>2, <3>1, <3>2 DEF Approves, AsRead
  <2>6. mentions'[r] = Append(a, new)
    <3>1. PICK more : more = [x \in {r} |-> new]
      OBVIOUS
    <3>2. DOMAIN more = {r} /\ more[r] = new
      BY <3>1
    <3>3. Extend(mentions, more)[r] =
             IF r \in DOMAIN more THEN Append(mentions[r], more[r]) ELSE mentions[r]
      BY <1>2, <2>2, Extended
    <3> QED
      BY <2>1, <2>5, <3>1, <3>2, <3>3
  <2>7. Append(a, new)[n + 1] = new
    BY <2>2, <2>3, LastAppended
  <2>8. Chain(r)' = mentions'[r] /\ Chain(r) = a
    BY <1>2, <2>1 DEF Chain
  <2> QED
    BY <1>1, <2>2, <2>3, <2>5, <2>6, <2>7, <2>8
<1>3. CASE r \notin Mentions
  <2>1. r \in Facts /\ DecideFact(r, n, "APPROVED", NoEdit)
    BY <1>1, <1>3, AutoAssumption DEF Approves, AsRead
  <2>2. PICK a : a = facts[r]
    OBVIOUS
  <2>3. a \in Seq(FactRevisions(r)) /\ ChainsOf(Facts, facts)
    BY <2>1, <2>2 DEF RecordsInv, RecordsSound, SoundFact
  <2>4. n = Len(a) /\ n > 0
    BY <2>1, <2>2 DEF DecideFact, Readable
  <2>5. a[n] \in FactRevisions(r)
    BY <2>3, <2>4
  <2>6. PICK new : new.status = "APPROVED" /\ facts' = Extend(facts, [g \in {r} |-> new])
    <3>1. PICK ends : ends = [s \in Slots[r] |->
                  LET m == (IF NoEdit = NoEdit THEN facts[r][n].ends ELSE NoEdit)[s].mention
                  IN  IF "APPROVED" = "APPROVED" THEN Named(m, Len(mentions[m]))
                      ELSE (IF NoEdit = NoEdit THEN facts[r][n].ends ELSE NoEdit)[s]]
      OBVIOUS
    <3>2. PICK new : new = [facts[r][n] EXCEPT !.status = "APPROVED", !.ends = ends]
      OBVIOUS
    <3>3. new.status = "APPROVED"
      BY <2>2, <2>5, <3>2 DEF FactRevisions
    <3>4. facts' = Extend(facts, [g \in {r} |-> new])
      BY <2>1, <3>1, <3>2 DEF DecideFact
    <3> QED
      BY <3>3, <3>4
  <2>7. facts'[r] = Append(a, new)
    <3>1. PICK more : more = [x \in {r} |-> new]
      OBVIOUS
    <3>2. DOMAIN more = {r} /\ more[r] = new
      BY <3>1
    <3>3. Extend(facts, more)[r] =
             IF r \in DOMAIN more THEN Append(facts[r], more[r]) ELSE facts[r]
      BY <2>1, <2>3, Extended
    <3> QED
      BY <2>2, <2>6, <3>1, <3>2, <3>3
  <2>8. Append(a, new)[n + 1] = new
    BY <2>3, <2>4, LastAppended
  <2>9. Chain(r)' = facts'[r] /\ Chain(r) = a
    BY <1>3, <2>2 DEF Chain
  <2> QED
    BY <1>1, <2>3, <2>4, <2>6, <2>7, <2>8, <2>9
<1> QED
  BY <1>2, <1>3

\* Nothing but an approval is added to what the service approved.
LEMMA OnlyCommitApproves ==
  ASSUME [AutoNext]_allVars, automatic' # automatic
  PROVE  \E w \in Reviewers, r \in JobRecords :
            /\ Commit(w, r) /\ Fenced(w) /\ Approves(w, r) /\ UNCHANGED run
            /\ automatic' = automatic \cup
                  {[record |-> r, n |-> AsRead(w, r) + 1, token |-> lease[w]]}
<1>1. ASSUME NEW w \in Reviewers, Raise(w)
      PROVE  FALSE
  BY <1>1 DEF Raise, sharedVars
<1>2. ASSUME NEW w \in Reviewers,
             \/ Load(w) \/ (\E retry \in BOOLEAN : Start(w, retry))
             \/ SortFacts(w) \/ Finish(w) \/ Interrupt(w) \/ LoseLease(w) \/ Vanish(w)
      PROVE  FALSE
  BY <1>1, <1>2
     DEF Load, Start, SortFacts, Finish, Interrupt, LoseLease, Vanish, sharedVars
<1>3. ASSUME NEW w \in Reviewers, NEW n, SortIdentities(w, n)
      PROVE  FALSE
  BY <1>3 DEF SortIdentities, sharedVars
<1>4. ASSUME NEW w \in Reviewers, NEW r \in JobRecords,
             Reserve(w, r) \/ AskModel(w, r) \/ LeaveToPeople(w, r)
      PROVE  FALSE
  BY <1>4 DEF Reserve, AskModel, LeaveToPeople, sharedVars
<1>5. ASSUME NEW w \in Reviewers, NEW r \in JobRecords, NEW said, AnswerModel(w, r, said)
      PROVE  FALSE
  BY <1>1, <1>5 DEF AnswerModel, sharedVars
<1>6. ASSUME NEW w \in Reviewers, ReviewAutomatically(w)
      PROVE  \E r \in JobRecords : Commit(w, r)
  BY <1>2, <1>3, <1>4, <1>5, <1>6, Zenon DEF ReviewAutomatically
<1>7. PICK w \in Reviewers, r \in JobRecords : Commit(w, r)
  <2>1. LeaseLapses => FALSE
    BY DEF LeaseLapses
  <2>2. UNCHANGED autoVars \/ UNCHANGED allVars => FALSE
    BY DEF autoVars, allVars, sharedVars
  <2> QED
    BY <1>6, <2>1, <2>2, Zenon DEF AutoNext
<1>8. /\ Fenced(w) /\ Approves(w, r) /\ UNCHANGED run
      /\ automatic' = automatic \cup
            {[record |-> r, n |-> AsRead(w, r) + 1, token |-> lease[w]]}
  BY <1>1, <1>7 DEF Commit, sharedVars
<1> QED
  BY <1>7, <1>8

\* The service approves a record exactly when it is the candidate that the model
\* was asked about, and only while the job is its own: what a person decided in
\* between, and what a worker asked whose run was taken over, stays undone
\* (auto_review.py, _commit and _audit_tx).
THEOREM AutomaticApprovalsAreFenced == AutoSpec => OnlyCandidatesApproved
<1> DEFINE Sound ==
       \A a \in automatic' \ automatic :
          /\ a.token = run'.token
          /\ a.n = Len(Chain(a.record)) + 1
          /\ Chain(a.record)[a.n - 1].status = "CANDIDATE"
          /\ Chain(a.record)'[a.n].status = "APPROVED"
<1>1. ASSUME AutoInv, ReviewInv, [AutoNext]_allVars
      PROVE  Sound
  <2>1. CASE automatic' = automatic
    BY <2>1
  <2>2. CASE automatic' # automatic
    <3>1. PICK w \in Reviewers, r \in JobRecords :
            /\ Commit(w, r) /\ Fenced(w) /\ Approves(w, r) /\ UNCHANGED run
            /\ automatic' = automatic \cup
                  {[record |-> r, n |-> AsRead(w, r) + 1, token |-> lease[w]]}
      BY <1>1, <2>2, OnlyCommitApproves
    <3>2. PICK n : n = seen[w][r]
      OBVIOUS
    <3>3. n \in Nat /\ n = Len(Chain(r)) /\ Chain(r)'[n + 1].status = "APPROVED"
      BY <1>1, <3>1, <3>2, ApprovalAppends DEF ReviewInv
    <3>4. Chain(r)[n].status = "CANDIDATE"
      <4>1. batch[w][r].now \in Open /\ ReadSound(w, r)
        BY <1>1, <3>1 DEF Commit, Open, AutoInv, ReadingInv
      <4> QED
        BY <3>2, <4>1 DEF ReadSound
    <3>5. PICK a : a = [record |-> r, n |-> n + 1, token |-> lease[w]]
      OBVIOUS
    <3>6. a.record = r /\ a.n = n + 1 /\ a.token = run'.token /\ a.n - 1 = n
      BY <3>1, <3>3, <3>5 DEF Fenced, Holds
    <3>7. automatic' = automatic \cup {a}
      BY <3>1, <3>2, <3>5 DEF AsRead
    <3>8. Chain(a.record)'[a.n].status = "APPROVED"
      BY <3>3, <3>6
    <3> QED
      BY <3>3, <3>4, <3>6, <3>7, <3>8
  <2> QED
    BY <2>1, <2>2
<1>2. AutoInv /\ ReviewInv /\ [AutoNext]_allVars => [Sound]_allVars
  BY <1>1
<1> QED
  BY <1>2, AutomaticReviewStaysSound, PTL DEF AutoSpec, OnlyCandidatesApproved
=============================================================================
