----------------------------- MODULE LayoutQueue -----------------------------
(***************************************************************************)
(* Layouts of the published graph (graph/visualization.py), prepared by a  *)
(* queue of one worker after an activation, or by the reader that finds    *)
(* none.                                                                   *)
(*                                                                         *)
(* A layout is a file under the digest of the view it was computed for;    *)
(* here a view is that of one publication for one reader and policy, and   *)
(* the number of a layout tells one computation from another.  The lock    *)
(* and the queue are the process's, the files survive it.                  *)
(***************************************************************************)
EXTENDS Naturals, Sequences, FiniteSets

CONSTANTS
    Publications,
    Layouts,      \* artifact ids
    LayoutsOf,    \* those of a publication
    Browsers,     \* concurrent readers of graph pages
    Submissions,  \* activations that submit a preparation
    Slots,        \* the semaphore of the queue
    MaxComputed,  \* bound: layouts computed
    MaxRestarts   \* bound: restarts of the process

ASSUME LayoutAssumption ==
    /\ IsFiniteSet(Submissions) /\ "free" \notin Submissions
    /\ LayoutsOf \in [Publications -> SUBSET Layouts]
    /\ Slots \in Nat \ {0} /\ MaxComputed \in Nat /\ MaxRestarts \in Nat

Worker == "worker"
NoLayout == 0
Free == "free"
Preparers == Browsers \cup {Worker}

VARIABLES
    current,    \* the active publication
    files,      \* the complete layout under each id
    computed,   \* how many layouts were computed
    restarts,   \* how often the process was started anew
    generating, \* who holds _GENERATION_LOCK
    preparing,  \* where each preparer is in prepare(), and for which id
    task,       \* the task of the worker and the ids it has not prepared yet
    tasks,      \* the tasks waiting in the executor
    submitted,  \* what became of each submission
    slots,      \* the free slots
    queueClosed

taskVars == <<task, tasks, submitted, slots, queueClosed>>
layoutVars == <<current, files, computed, restarts, generating, preparing, taskVars>>

Resting == [at |-> "rest", id |-> Free]
NoTask  == [from |-> Free, left |-> {}]
Fates   == {"none", "slotted", "waiting", "running",
            "finished", "refused", "cancelled", "lost"}

LayoutTypeOK ==
    /\ current \in Publications
    /\ files \in [Layouts -> 0..MaxComputed] /\ computed \in 0..MaxComputed
    /\ restarts \in 0..MaxRestarts
    /\ generating \in Preparers \cup {Free}
    /\ preparing \in [Preparers -> [at : {"rest", "look", "wait", "again", "compute"},
                                    id : Layouts \cup {Free}]]
    /\ task \in [from : Submissions \cup {Free}, left : SUBSET Layouts]
    /\ tasks \in Seq(Submissions)
    /\ submitted \in [Submissions -> [fate : Fates, publication : Publications]]
    /\ slots \in 0..Slots /\ queueClosed \in BOOLEAN

LayoutInit ==
    /\ current \in Publications
    /\ files = [a \in Layouts |-> NoLayout] /\ computed = 0 /\ restarts = 0
    /\ generating = Free
    /\ preparing = [r \in Preparers |-> Resting]
    /\ task = NoTask /\ tasks = <<>>
    /\ submitted = [s \in Submissions |-> [fate |-> "none", publication |-> current]]
    /\ slots = Slots /\ queueClosed = FALSE

-----------------------------------------------------------------------------
(* prepare()                                                               *)

MoveTo(r, place) ==
    /\ preparing' = [preparing EXCEPT ![r] = place]
    /\ UNCHANGED <<current, restarts, taskVars>>

\* A page of the current view is asked for.
OpenPage(r, a) ==
    /\ r \in Browsers /\ preparing[r] = Resting
    /\ a \in LayoutsOf[current]
    /\ MoveTo(r, [at |-> "look", id |-> a])
    /\ UNCHANGED <<files, computed, generating>>

LookForLayout(r) ==
    /\ preparing[r].at = "look"
    /\ MoveTo(r, IF files[preparing[r].id] # NoLayout THEN Resting
                 ELSE [preparing[r] EXCEPT !.at = "wait"])
    /\ UNCHANGED <<files, computed, generating>>

LockGeneration(r) ==
    /\ preparing[r].at = "wait" /\ generating = Free
    /\ generating' = r
    /\ MoveTo(r, [preparing[r] EXCEPT !.at = "again"])
    /\ UNCHANGED <<files, computed>>

\* The lock was not free in time.
GiveUp(r) ==
    /\ preparing[r].at = "wait" /\ generating # Free
    /\ MoveTo(r, Resting)
    /\ UNCHANGED <<files, computed, generating>>

\* Someone else computed it meanwhile.
FoundAgain(a) == files[a] # NoLayout

LookAgain(r) ==
    /\ preparing[r].at = "again"
    /\ IF FoundAgain(preparing[r].id)
       THEN /\ generating' = Free /\ MoveTo(r, Resting)
       ELSE /\ UNCHANGED generating /\ MoveTo(r, [preparing[r] EXCEPT !.at = "compute"])
    /\ UNCHANGED <<files, computed>>

\* The file is replaced as a whole, or the layouter fails.
Compute(r) ==
    /\ preparing[r].at = "compute"
    /\ \/ /\ computed < MaxComputed
          /\ computed' = computed + 1
          /\ files' = [files EXCEPT ![preparing[r].id] = computed + 1]
       \/ UNCHANGED <<computed, files>>
    /\ generating' = Free
    /\ MoveTo(r, Resting)

-----------------------------------------------------------------------------
(* The queue: a submission takes a slot, then hands its task over          *)

QueueStep == UNCHANGED <<files, computed, restarts, generating, preparing>>

Fate(s, fate) == submitted' = [submitted EXCEPT ![s].fate = fate]

\* An activation commits; its preparation is submitted unless all slots are taken.
Activated(s, p) ==
    /\ submitted[s].fate = "none"
    /\ current' = p
    /\ submitted' = [submitted EXCEPT ![s] =
                        [fate |-> IF slots = 0 THEN "refused" ELSE "slotted",
                         publication |-> p]]
    /\ slots' = IF slots = 0 THEN 0 ELSE slots - 1
    /\ QueueStep /\ UNCHANGED <<task, tasks, queueClosed>>

\* Mutant: a refused submission keeps its slot.
KeepSlot == UNCHANGED slots

ReturnSlot == slots' = slots + 1

Enqueue(s) ==
    /\ submitted[s].fate = "slotted"
    /\ IF queueClosed
       THEN Fate(s, "refused") /\ ReturnSlot /\ UNCHANGED tasks
       ELSE Fate(s, "waiting") /\ tasks' = Append(tasks, s) /\ UNCHANGED slots
    /\ QueueStep /\ UNCHANGED <<current, task, queueClosed>>

StartTask ==
    /\ task = NoTask /\ tasks # <<>>
    /\ LET s == Head(tasks) IN
          /\ task' = [from |-> s, left |-> LayoutsOf[submitted[s].publication]]
          /\ Fate(s, "running")
    /\ tasks' = Tail(tasks)
    /\ QueueStep /\ UNCHANGED <<current, slots, queueClosed>>

\* The view is loaded; it must still be the publication's.
PrepareNext(a) ==
    /\ task # NoTask /\ preparing[Worker] = Resting
    /\ a \in task.left
    /\ task' = [task EXCEPT !.left = IF current = submitted[task.from].publication
                                     THEN @ \ {a} ELSE {}]
    /\ preparing' = [preparing EXCEPT ![Worker] =
                        IF current = submitted[task.from].publication
                        THEN [at |-> "look", id |-> a] ELSE Resting]
    /\ UNCHANGED <<current, files, computed, restarts, generating, tasks, submitted, slots,
                   queueClosed>>

\* Nothing is left to prepare, or the preparation failed.
EndTask ==
    /\ task # NoTask /\ preparing[Worker] = Resting
    /\ Fate(task.from, "finished")
    /\ task' = NoTask
    /\ ReturnSlot
    /\ QueueStep /\ UNCHANGED <<current, tasks, queueClosed>>

\* What waits is cancelled and keeps its slots; the running task is awaited.
CloseQueue ==
    /\ ~queueClosed
    /\ queueClosed' = TRUE
    /\ submitted' = [s \in Submissions |->
                        IF submitted[s].fate = "waiting"
                        THEN [submitted[s] EXCEPT !.fate = "cancelled"] ELSE submitted[s]]
    /\ tasks' = <<>>
    /\ QueueStep /\ UNCHANGED <<current, task, slots>>

\* The process dies and starts again: nothing but the files is left.
RestartProcess ==
    /\ restarts < MaxRestarts
    /\ restarts' = restarts + 1
    /\ generating' = Free
    /\ preparing' = [r \in Preparers |-> Resting]
    /\ task' = NoTask /\ tasks' = <<>>
    /\ submitted' = [s \in Submissions |->
                        IF submitted[s].fate \in {"slotted", "waiting", "running", "cancelled"}
                        THEN [submitted[s] EXCEPT !.fate = "lost"] ELSE submitted[s]]
    /\ slots' = Slots /\ queueClosed' = FALSE
    /\ UNCHANGED <<current, files, computed>>

-----------------------------------------------------------------------------

Preparer(r) ==
    \/ LookForLayout(r) \/ LockGeneration(r) \/ GiveUp(r) \/ LookAgain(r) \/ Compute(r)

LayoutNext ==
    \/ \E r \in Browsers, a \in Layouts : OpenPage(r, a)
    \/ \E r \in Preparers : Preparer(r)
    \/ \E s \in Submissions : Enqueue(s) \/ \E p \in Publications : Activated(s, p)
    \/ StartTask \/ EndTask \/ \E a \in Layouts : PrepareNext(a)
    \/ CloseQueue \/ RestartProcess

LayoutSpec == LayoutInit /\ [][LayoutNext]_layoutVars

-----------------------------------------------------------------------------

\* The submissions that hold a slot, those cancelled in the queue for good.
HoldSlots == {s \in Submissions :
                 submitted[s].fate \in {"slotted", "waiting", "running", "cancelled"}}

(* Every slot is free or held by one submission: none is lost to a full    *)
(* or closed queue, to a preparation that fails or to one that gives up    *)
(* because its publication was replaced, and none is returned twice.       *)
SlotsAccounted == LayoutTypeOK /\ slots + Cardinality(HoldSlots) = Slots

=============================================================================
