----------------------------- MODULE AutoReview -----------------------------
(***************************************************************************)
(* The automatic review of what a construction proposed                    *)
(* (knowledge/auto_review.py, auto_review_model.py) beside the people who  *)
(* review the same records (KnowledgeReview).                              *)
(*                                                                         *)
(* A run reads the records, asks a model about them in concurrent batches  *)
(* and approves what the model accepts, at the revisions it read.  One     *)
(* node per job holds its lease, its receipt and the calls to the model    *)
(* that were paid for.  A worker whose lease was taken over goes on until  *)
(* a write that names its token fails; a worker that raised leaves its     *)
(* open batches behind.                                                    *)
(*                                                                         *)
(* A batch is about one record here.  Whether the source proves a record,  *)
(* whether the comparison with the rest of the tenant still holds, and     *)
(* what the model says are choices.                                        *)
(***************************************************************************)
EXTENDS KnowledgeReview

CONSTANTS
    Reviewers,      \* the workers that may run the review of the job
    JobRecords,     \* the records of the construction job
    CallsPerReview, \* MAX_MODEL_CALLS of the model: an answer and a correction
    CallsPerRun,    \* MAX_MODEL_CALLS
    CallsInTotal,   \* MAX_TOTAL_MODEL_CALLS
    MaxToken        \* bound: the leases that are granted

ASSUME AutoAssumption ==
    /\ IsFiniteSet(Reviewers)
    /\ JobRecords \subseteq Mentions \cup Facts /\ IsFiniteSet(JobRecords)
    /\ CallsPerReview \in Nat \ {0} /\ CallsPerRun \in Nat /\ CallsInTotal \in Nat
    /\ MaxToken \in Nat

VARIABLES
    run,        \* the KnowledgeAutoReviewRun of the job
    automatic,  \* the approvals that the service wrote, and under which token
    asked,      \* the calls that reached the provider
    at,         \* where each worker is
    seen,       \* the revisions it read, 0 for a record it does not review
    lease,      \* its lease_token
    calls,      \* state["model_calls"], and what it was when the run began
    items,      \* the receipt it writes
    batch       \* its questions to the model

sharedVars == <<run, automatic, asked>>
workerVars == <<at, seen, lease, calls, items, batch>>
autoVars   == <<sharedVars, workerVars>>
allVars    == <<reviewVars, autoVars>>

Verdicts == {"AUTO_APPROVED", "NEEDS_HUMAN", "BLOCKED", "INCOMPLETE"}
NoItem == "NONE"
NoItems == [r \in JobRecords |-> NoItem]
NoBatch == [r \in JobRecords |-> [now |-> "none", tries |-> 0, mapping |-> FALSE]]

AutoInit ==
    /\ ReviewInit
    /\ run = [status |-> "NONE", live |-> FALSE, token |-> 0, calls |-> 0, items |-> NoItems]
    /\ automatic = {}
    /\ asked = 0
    /\ at = [w \in Reviewers |-> "idle"]
    /\ seen = [w \in Reviewers |-> [r \in JobRecords |-> 0]]
    /\ lease = [w \in Reviewers |-> 0]
    /\ calls = [w \in Reviewers |-> [now |-> 0, begun |-> 0]]
    /\ items = [w \in Reviewers |-> NoItems]
    /\ batch = [w \in Reviewers |-> NoBatch]

-----------------------------------------------------------------------------

Chain(r) == IF r \in Mentions THEN mentions[r] ELSE facts[r]

In(w, p) == at[w] = p
Enter(w, p) == at' = [at EXCEPT ![w] = p]
Holds(w) == run.token = lease[w]

\* A worker forgets everything when its call ends.
Forget(w) ==
    /\ Enter(w, "idle")
    /\ seen' = [seen EXCEPT ![w] = [r \in JobRecords |-> 0]]
    /\ lease' = [lease EXCEPT ![w] = 0]
    /\ calls' = [calls EXCEPT ![w] = [now |-> 0, begun |-> 0]]
    /\ items' = [items EXCEPT ![w] = NoItems]
    /\ batch' = [batch EXCEPT ![w] = NoBatch]

\* A write that names the token of somebody else raises out of the run; the
\* questions that are open stay open.
Raise(w) ==
    /\ Enter(w, "raised")
    /\ UNCHANGED <<reviewVars, sharedVars, seen, lease, calls, items, batch>>

(* Records that were rejected are left alone; every other one of the job   *)
(* has to be visible, in the active version under the active T-Box.        *)
Current == {r \in JobRecords : Written(Chain(r))}
CanLoad == Current # {} /\ \A r \in Current : Visible(r, Latest(Chain(r)))
Loaded ==
    [r \in JobRecords |->
        IF r \in Current /\ Latest(Chain(r)).status # "REJECTED" THEN Len(Chain(r)) ELSE 0]

Load(w) ==
    /\ In(w, "idle")
    /\ CanLoad
    /\ seen' = [seen EXCEPT ![w] = Loaded]
    /\ Enter(w, "loaded")
    /\ UNCHANGED <<reviewVars, sharedVars, lease, calls, items, batch>>

Answered(retry) ==
    \/ run.status = "RUNNING" /\ run.live
    \/ run.status \in {"COMPLETED", "PARTIAL"} /\ ~retry

(* The lease is taken after the records were read.  A run that was left    *)
(* RUNNING, or is to be repeated, is continued with its receipt and with   *)
(* what was spent on it.                                                   *)
Start(w, retry) ==
    /\ In(w, "loaded")
    /\ IF Answered(retry)
       THEN Forget(w) /\ UNCHANGED <<reviewVars, sharedVars>>
       ELSE /\ run.token < MaxToken
            /\ run' = [run EXCEPT !.status = "RUNNING", !.live = TRUE, !.token = @ + 1]
            /\ lease' = [lease EXCEPT ![w] = run.token + 1]
            /\ calls' = [calls EXCEPT ![w] = [now |-> run.calls, begun |-> run.calls]]
            /\ items' = [items EXCEPT ![w] =
                           [r \in JobRecords |-> IF seen[w][r] > 0 THEN run.items[r] ELSE NoItem]]
            /\ Enter(w, "begun")
            /\ UNCHANGED <<reviewVars, automatic, asked, seen, batch>>

-----------------------------------------------------------------------------
(***************************************************************************)
(* Questions to the model.                                                 *)
(***************************************************************************)

Reviewing(w) == at[w] \in {"identities", "facts"}

Affordable(c) ==
    /\ (c.now - c.begun) + CallsPerReview <= CallsPerRun
    /\ c.now + CallsPerReview <= CallsInTotal

\* Mutant: the calls are paid for when they were made.
PaidLater(n) == 0
\* What a batch may need is saved before anything is asked.
Paid(n) == n

(* The batches of a window are reserved and asked side by side; without a  *)
(* budget, time or a model there is no answer.                             *)
Reserve(w, r) ==
    /\ Reviewing(w)
    /\ batch[w][r].now = "ready"
    /\ \/ /\ batch' = [batch EXCEPT ![w][r].now = "unavailable"]
          /\ UNCHANGED <<run, calls, at>>
       \/ /\ Affordable(calls[w]) /\ Holds(w)
          /\ calls' = [calls EXCEPT ![w].now = @ + Paid(CallsPerReview)]
          /\ run' = [run EXCEPT !.calls = calls'[w].now, !.live = TRUE]
          /\ batch' = [batch EXCEPT ![w][r].now = "asking"]
          /\ UNCHANGED at
       \/ /\ Affordable(calls[w]) /\ ~Holds(w)
          /\ Enter(w, "raised")
          /\ UNCHANGED <<run, calls, batch>>
    /\ UNCHANGED <<reviewVars, automatic, asked, seen, lease, items>>

\* The provider is called, once more after an answer that is not valid; so
\* goes on what a worker that raised had open.
AskModel(w, r) ==
    /\ Reviewing(w) \/ In(w, "raised")
    /\ batch[w][r].now = "asking" /\ batch[w][r].tries < CallsPerReview
    /\ asked' = asked + 1
    /\ batch' = [batch EXCEPT ![w][r].tries = @ + 1]
    /\ UNCHANGED <<reviewVars, run, automatic, at, seen, lease, calls, items>>

(* The review returns what it did not spend, an exception nothing.  A      *)
(* mapping the model does not accept has its facts asked one by one.       *)
AnswerModel(w, r, said) ==
    /\ Reviewing(w)
    /\ batch[w][r].now = "asking"
    /\ said \in {"yes", "no"} => batch[w][r].tries > 0
    /\ IF ~Holds(w) THEN Raise(w)
       ELSE /\ \E back \in {0, CallsPerReview - batch[w][r].tries} :
                 /\ said \in {"yes", "no"} => back = CallsPerReview - batch[w][r].tries
                 /\ calls' = [calls EXCEPT ![w].now = @ - Paid(back)]
            /\ batch' = [batch EXCEPT ![w][r] =
                  IF said = "no" /\ @.mapping
                  THEN [now |-> "ready", tries |-> 0, mapping |-> FALSE]
                  ELSE [@ EXCEPT !.now = said]]
            /\ UNCHANGED <<reviewVars, sharedVars, at, seen, lease, items>>

-----------------------------------------------------------------------------
(***************************************************************************)
(* Decisions.                                                              *)
(***************************************************************************)

\* Revision n is an automatic approval, or what publication made of one.
ByService(r, n) ==
    \E a \in automatic :
        a.record = r /\ (a.n = n \/ (a.n = n - 1 /\ Chain(r)[n].status = "PUBLISHED"))

\* A fact is not looked at before its mentions were approved.
Grounded(r) ==
    r \in Facts =>
        \A s \in Slots[r] :
            LET chain == mentions[Latest(facts[r]).ends[s].mention]
            IN  Visible(Latest(facts[r]).ends[s].mention, Latest(chain))
                /\ Latest(chain).status \in Endorsed

(* What the receipt says of a record that is not put to the model; the     *)
(* decisions of people are not in it.                                      *)
Standing(r, n) ==
    CASE Chain(r)[n].status \in Endorsed ->
            IF ByService(r, n) THEN "AUTO_APPROVED" ELSE NoItem
      [] Chain(r)[n].status \in Pending /\ Grounded(r) -> "NEEDS_HUMAN"
      [] OTHER -> "BLOCKED"

(* The records R at the revisions n: which of them the source proves is a  *)
(* choice, and those are put to the model.                                 *)
Sort(w, R, n, mapping) ==
    \E proven \in SUBSET {r \in R : Chain(r)[n[r]].status = "CANDIDATE" /\ Grounded(r)} :
        /\ batch' = [batch EXCEPT ![w] =
              [r \in JobRecords |->
                  IF r \in proven THEN [now |-> "ready", tries |-> 0, mapping |-> mapping]
                  ELSE NoBatch[r]]]
        /\ items' = [items EXCEPT ![w] =
              [r \in JobRecords |->
                  CASE r \in proven     -> NoItem
                    [] r \in R \ proven -> Standing(r, n[r])
                    [] OTHER            -> items[w][r]]]

Reviewed(n, R) == {r \in JobRecords \cap R : n[r] > 0}

\* With context projection the records are read again first.
SortIdentities(w, n) ==
    /\ In(w, "begun")
    /\ n = seen[w] \/ (CanLoad /\ Holds(w) /\ n = Loaded)
    /\ Sort(w, Reviewed(n, Mentions), n, FALSE)
    /\ seen' = [seen EXCEPT ![w] = n]
    /\ Enter(w, "identities")
    /\ UNCHANGED <<reviewVars, sharedVars, lease, calls>>

\* Mutant: the head is approved, whatever was read.
AsOfNow(w, r) == Len(Chain(r))
AsRead(w, r)  == seen[w][r]

Approves(w, r) ==
    LET n == AsRead(w, r)
    IN  IF r \in Mentions
        THEN \/ DecideMention(r, n, "APPROVED", NoEdit)
             \/ \E e \in Entities : Resolve(r, n, e)
        ELSE DecideFact(r, n, "APPROVED", NoEdit)

Fenced(w) == Holds(w)

\* Mutant: the receipt says what the model said.
RefusedQuietly(r) == "AUTO_APPROVED"
Refused(r) == IF r \in Mentions THEN "NEEDS_HUMAN" ELSE "INCOMPLETE"

Concluded(w, r, item) ==
    /\ items' = [items EXCEPT ![w][r] = item]
    /\ batch' = [batch EXCEPT ![w][r].now = "done"]

Asking(w) == \E r \in JobRecords : batch[w][r].now = "asking"

(* When the window was answered, what was accepted is approved together    *)
(* with an audit that names the token, or refused as a whole.              *)
Commit(w, r) ==
    /\ Reviewing(w) /\ ~Asking(w)
    /\ batch[w][r].now = "yes"
    /\ \/ /\ Fenced(w)
          /\ Approves(w, r)
          /\ automatic' = automatic \cup
                {[record |-> r, n |-> AsRead(w, r) + 1, token |-> lease[w]]}
          /\ Concluded(w, r, "AUTO_APPROVED")
          /\ UNCHANGED <<run, asked, at, seen, lease, calls>>
       \/ /\ Holds(w)
          /\ Concluded(w, r, Refused(r))
          /\ UNCHANGED <<reviewVars, sharedVars, at, seen, lease, calls>>
       \/ ~Holds(w) /\ Raise(w)

LeaveToPeople(w, r) ==
    /\ Reviewing(w) /\ ~Asking(w)
    /\ \/ batch[w][r].now = "no" /\ Concluded(w, r, "NEEDS_HUMAN")
       \/ batch[w][r].now = "unavailable" /\ Concluded(w, r, "INCOMPLETE")
    /\ UNCHANGED <<reviewVars, sharedVars, at, seen, lease, calls>>

AllConcluded(w) == \A r \in JobRecords : batch[w][r].now \in {"none", "done"}

\* The receipt so far is saved; the records are read again, since links move
\* the facts on.
SortFacts(w) ==
    /\ In(w, "identities") /\ AllConcluded(w)
    /\ Holds(w) /\ CanLoad
    /\ run' = [run EXCEPT !.calls = calls[w].now, !.items = items[w], !.live = TRUE]
    /\ \E mapping \in BOOLEAN : Sort(w, Reviewed(Loaded, Facts), Loaded, mapping)
    /\ seen' = [seen EXCEPT ![w] = Loaded]
    /\ Enter(w, "facts")
    /\ UNCHANGED <<reviewVars, automatic, asked, lease, calls>>

Saved(w, status, receipt) ==
    run' = [run EXCEPT !.status = status, !.live = FALSE,
                       !.calls = calls[w].now, !.items = receipt]

Finish(w) ==
    /\ In(w, "facts") /\ AllConcluded(w)
    /\ Holds(w)
    /\ \E status \in {"PARTIAL", "COMPLETED"} :
          /\ (\E r \in JobRecords : items[w][r] = "INCOMPLETE") => status = "PARTIAL"
          /\ Saved(w, status, items[w])
    /\ Forget(w)
    /\ UNCHANGED <<reviewVars, automatic, asked>>

(* An error, such as records that are not visible any more, ends the run   *)
(* with a receipt.                                                         *)
Interrupt(w) ==
    /\ In(w, "begun") \/ Reviewing(w)
    /\ Holds(w)
    /\ Saved(w, "PARTIAL",
             [r \in JobRecords |->
                 IF seen[w][r] > 0 /\ Chain(r)[seen[w][r]].status = "CANDIDATE"
                    /\ items[w][r] # "AUTO_APPROVED"
                 THEN "INCOMPLETE" ELSE items[w][r]])
    /\ Enter(w, "raised")
    /\ UNCHANGED <<reviewVars, automatic, asked, seen, lease, calls, items, batch>>

\* The next write of the run fails: another worker has its lease.
LoseLease(w) ==
    /\ In(w, "begun") \/ Reviewing(w)
    /\ ~Holds(w)
    /\ Raise(w)

\* The process dies, or the last open question of a failed run ends.
Vanish(w) ==
    /\ ~In(w, "idle")
    /\ Forget(w)
    /\ UNCHANGED <<reviewVars, sharedVars>>

LeaseLapses ==
    /\ run.live
    /\ run' = [run EXCEPT !.live = FALSE]
    /\ UNCHANGED <<reviewVars, automatic, asked, workerVars>>

ReviewAutomatically(w) ==
    \/ Load(w)
    \/ \E retry \in BOOLEAN : Start(w, retry)
    \/ SortIdentities(w, seen[w]) \/ SortIdentities(w, Loaded)
    \/ SortFacts(w) \/ Finish(w)
    \/ Interrupt(w) \/ LoseLease(w) \/ Vanish(w)
    \/ \E r \in JobRecords :
          \/ Reserve(w, r) \/ AskModel(w, r)
          \/ \E said \in {"yes", "no", "unavailable"} : AnswerModel(w, r, said)
          \/ Commit(w, r) \/ LeaveToPeople(w, r)

AutoNext ==
    \/ ReviewNext /\ UNCHANGED autoVars
    \/ \E w \in Reviewers : ReviewAutomatically(w)
    \/ LeaseLapses

AutoSpec == AutoInit /\ [][AutoNext]_allVars

-----------------------------------------------------------------------------

(* Over retries, crashes, takeovers and questions that workers leave open, *)
(* the provider is not called more often than the job has paid for, nor    *)
(* more often than a job may (_model, _start).                             *)
BudgetKept == asked <= run.calls /\ run.calls <= CallsInTotal

(* The service approves candidates only: what a person quarantined,        *)
(* rejected, corrected or approved while the model was asked stays as it   *)
(* is (_commit; "A human decision remains human").  And once a run was     *)
(* taken over, the worker that had it approves nothing any more, whatever  *)
(* it has read or asked (_audit_tx within _commit).                        *)
OnlyCandidatesApproved ==
    [][\A a \in automatic' \ automatic :
          /\ a.token = run'.token
          /\ a.n = Len(Chain(a.record)) + 1
          /\ Chain(a.record)[a.n - 1].status = "CANDIDATE"
          /\ Chain(a.record)'[a.n].status = "APPROVED"]_allVars

(* What the job says of itself is true: it has paid for every call, and a  *)
(* record that its receipt calls approved was approved by the service, in  *)
(* this run or in one before.                                              *)
ReceiptIsTrue ==
    /\ BudgetKept
    /\ \A r \in JobRecords :
           run.items[r] = "AUTO_APPROVED" => \E a \in automatic : a.record = r
=============================================================================
