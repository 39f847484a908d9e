--------------------------- MODULE Services_proofs ---------------------------
(***************************************************************************)
(* Theorems of the services around the core, one part for each.  They hold *)
(* for any number of requests, submissions, operations, chunks, versions,  *)
(* principals and answers, and not only for the small instances of         *)
(* MCServices.                                                             *)
(***************************************************************************)
EXTENDS EmbeddingIndex, LayoutQueue, RequestBody, PlaygroundReset, Workspaces,
        OntologyStore, BulkLoad, UploadIntake, RateLimiter,
        OntologyExtraction, FiniteSetTheorems, TLAPS

\* One element more or less.
LEMMA OneMember ==
  ASSUME NEW old, IsFiniteSet(old), NEW new, NEW r, old \ {r} = new \ {r}
  PROVE  /\ IsFiniteSet(new) /\ Cardinality(old) \in Nat /\ Cardinality(new) \in Nat
         /\ r \in old /\ r \in new => Cardinality(new) = Cardinality(old)
         /\ r \notin old /\ r \notin new => Cardinality(new) = Cardinality(old)
         /\ r \in old /\ r \notin new => Cardinality(new) = Cardinality(old) - 1
         /\ r \notin old /\ r \in new => Cardinality(new) = Cardinality(old) + 1
<1>1. new = IF r \in new THEN old \cup {r} ELSE old \ {r}
  OBVIOUS
<1>2. /\ IsFiniteSet(new)
      /\ Cardinality(new) = IF r \in new
                            THEN IF r \in old THEN Cardinality(old) ELSE Cardinality(old) + 1
                            ELSE IF r \in old THEN Cardinality(old) - 1 ELSE Cardinality(old)
  BY <1>1, FS_AddElement, FS_RemoveElement
<1>3. Cardinality(old) \in Nat /\ Cardinality(new) \in Nat
  BY <1>2, FS_CardinalityType
<1> QED
  BY <1>2, <1>3

-----------------------------------------------------------------------------
(***************************************************************************)
(* Request bodies.                                                         *)
(***************************************************************************)

\* What is on its way to the buffer or beyond it was authenticated, and what
\* is buffered fits.
BodyInv ==
    /\ BuffersAccounted
    /\ \A r \in Clients : at[r] = "buffer" => credible[r]
    /\ \A r \in Clients : at[r] \in {"early", "buffer"} => received[r] = 0

\* The buffers after a request took one, returned one, or neither.
LEMMA HoldersChange ==
  ASSUME BodyInv, NEW r \in Clients,
         at' \in [Clients -> {"early", "buffer", "receiving", "dispatched", "over"}],
         \A q \in Clients \ {r} : at'[q] = at[q],
         \/ r \in BufferHolders /\ r \in BufferHolders' /\ buffers' = buffers
         \/ r \notin BufferHolders /\ r \notin BufferHolders' /\ buffers' = buffers
         \/ r \in BufferHolders /\ r \notin BufferHolders' /\ buffers' = buffers + 1
         \/ r \notin BufferHolders /\ r \in BufferHolders' /\ buffers # 0
            /\ buffers' = buffers - 1
  PROVE  buffers' \in 0..Buffers /\ buffers' + Cardinality(BufferHolders') = Buffers
<1>1. PICK old : old = BufferHolders
  OBVIOUS
<1>2. PICK new : new = BufferHolders'
  OBVIOUS
<1>3. IsFiniteSet(old)
  <2>1. old \subseteq Clients
    BY <1>1 DEF BufferHolders
  <2> QED
    BY <2>1, BodyAssumption, FS_Subset
<1>4. new = IF r \in new THEN old \cup {r} ELSE old \ {r}
  BY <1>1, <1>2 DEF BufferHolders
<1>5. Cardinality(old) \in Nat
  BY <1>3, FS_CardinalityType
<1>6. /\ IsFiniteSet(new)
      /\ Cardinality(new) = IF r \in new
                            THEN IF r \in old THEN Cardinality(old) ELSE Cardinality(old) + 1
                            ELSE IF r \in old THEN Cardinality(old) - 1 ELSE Cardinality(old)
  BY <1>3, <1>4, FS_AddElement, FS_RemoveElement
<1>7. Cardinality(new) \in Nat
  BY <1>6, FS_CardinalityType
<1>8. buffers \in 0..Buffers /\ buffers + Cardinality(old) = Buffers
  BY <1>1 DEF BodyInv, BuffersAccounted, BodyTypeOK
<1>9. Buffers \in Nat
  BY BodyAssumption
<1>10. \/ r \in old /\ r \in new /\ buffers' = buffers
       \/ r \notin old /\ r \notin new /\ buffers' = buffers
       \/ r \in old /\ r \notin new /\ buffers' = buffers + 1
       \/ r \notin old /\ r \in new /\ buffers # 0 /\ buffers' = buffers - 1
  BY <1>1, <1>2
<1>11. PICK c, d \in Nat : c = Cardinality(old) /\ d = Cardinality(new)
  BY <1>5, <1>7
<1> QED
  BY <1>2, <1>6, <1>8, <1>9, <1>10, <1>11

LEMMA BodyPreserved ==
  ASSUME BodyInv, [BodyNext]_bodyVars
  PROVE  BodyInv'
<1> USE DEF BodyInv, BuffersAccounted, BodyTypeOK
<1> DEFINE Places == {"early", "buffer", "receiving", "dispatched", "over"}
           Codes == {0, 200, 400, 401, 408, 413, 429, 503}
<1>1. ASSUME NEW r \in Clients, NEW code \in Codes, Refuse(r, code)
      PROVE  /\ at' \in [Clients -> Places] /\ status' \in [Clients -> Codes]
             /\ at'[r] = "over" /\ \A q \in Clients \ {r} : at'[q] = at[q]
  BY <1>1 DEF Refuse
<1>2. ASSUME NEW r \in Clients, RefuseEarly(r)
      PROVE  BodyInv'
  <2>1. PICK code \in Codes : Refuse(r, code)
    BY <1>2 DEF RefuseEarly
  <2>2. UNCHANGED <<received, whole, credible, buffers>> /\ at[r] = "early"
    BY <1>2 DEF RefuseEarly
  <2>3. buffers' \in 0..Buffers /\ buffers' + Cardinality(BufferHolders') = Buffers
    BY <1>1, <2>1, <2>2, HoldersChange DEF BufferHolders
  <2> QED
    BY <1>1, <2>1, <2>2, <2>3 DEF BufferHolders
<1>3. ASSUME NEW r \in Clients, AdmitEarly(r)
      PROVE  BodyInv'
  <2>1. buffers' \in 0..Buffers /\ buffers' + Cardinality(BufferHolders') = Buffers
    BY <1>3, HoldersChange DEF BufferHolders, AdmitEarly
  <2> QED
    BY <1>3, <2>1 DEF BufferHolders, AdmitEarly
<1>4. ASSUME NEW r \in Clients, NEW length, TakeBuffer(r, length)
      PROVE  BodyInv'
  <2>1. at[r] = "buffer" /\ UNCHANGED <<received, whole, credible>>
    BY <1>4 DEF TakeBuffer
  <2>2. CASE \E code \in Codes : Refuse(r, code) /\ UNCHANGED buffers
    <3>1. buffers' \in 0..Buffers /\ buffers' + Cardinality(BufferHolders') = Buffers
      BY <1>1, <2>1, <2>2, HoldersChange DEF BufferHolders
    <3> QED
      BY <1>1, <2>1, <2>2, <3>1 DEF BufferHolders
  <2>3. CASE /\ at' = [at EXCEPT ![r] = "receiving"] /\ buffers # 0
             /\ buffers' = buffers - 1 /\ UNCHANGED status
    <3>1. buffers' \in 0..Buffers /\ buffers' + Cardinality(BufferHolders') = Buffers
      BY <2>1, <2>3, HoldersChange DEF BufferHolders
    <3> QED
      BY <2>1, <2>3, <3>1, BodyAssumption DEF BufferHolders
  <2> QED
    BY <1>4, <2>2, <2>3 DEF TakeBuffer
<1>5. ASSUME NEW r \in Clients, NEW piece \in Pieces, NEW last \in BOOLEAN,
             Receive(r, piece, last)
      PROVE  BodyInv'
  <2>1. /\ at[r] = "receiving" /\ UNCHANGED credible
        /\ received' = [received EXCEPT ![r] = @ + piece]
    BY <1>5 DEF Receive
  <2>2. piece \in Nat /\ received' \in [Clients -> Nat]
    BY <2>1, BodyAssumption
  <2>3. CASE Exceeds(r, piece)
    <3>1. Refuse(r, 413) /\ ReturnBuffer /\ UNCHANGED whole
      BY <1>5, <2>3 DEF Receive
    <3>2. buffers' \in 0..Buffers /\ buffers' + Cardinality(BufferHolders') = Buffers
      BY <1>1, <2>1, <3>1, HoldersChange DEF BufferHolders, ReturnBuffer
    <3> QED
      BY <1>1, <2>1, <2>2, <3>1, <3>2 DEF BufferHolders
  <2>4. CASE ~Exceeds(r, piece)
    <3>1. /\ whole' = [whole EXCEPT ![r] = last]
          /\ at' = [at EXCEPT ![r] = IF last THEN "dispatched" ELSE @]
          /\ UNCHANGED <<buffers, status>>
      BY <1>5, <2>4 DEF Receive
    <3>2. buffers' \in 0..Buffers /\ buffers' + Cardinality(BufferHolders') = Buffers
      BY <2>1, <3>1, HoldersChange DEF BufferHolders
    <3>3. received'[r] <= Maximum
      BY <2>1, <2>2, <2>4, BodyAssumption DEF Exceeds
    <3> QED
      BY <2>1, <2>2, <3>1, <3>2, <3>3 DEF BufferHolders
  <2> QED
    BY <2>3, <2>4
<1>6. ASSUME NEW r \in Clients, LoseClient(r)
      PROVE  BodyInv'
  <2>1. buffers' \in 0..Buffers /\ buffers' + Cardinality(BufferHolders') = Buffers
    BY <1>6, HoldersChange DEF BufferHolders, LoseClient
  <2> QED
    BY <1>6, <2>1 DEF BufferHolders, LoseClient
<1>7. ASSUME NEW r \in Clients, ReceiveTooSlow(r) \/ Respond(r)
      PROVE  BodyInv'
  <2>1. PICK code \in Codes : Refuse(r, code)
    BY <1>7 DEF ReceiveTooSlow, Respond
  <2>2. /\ UNCHANGED <<received, whole, credible>> /\ ReturnBuffer
        /\ at[r] \in {"receiving", "dispatched"}
    BY <1>7 DEF ReceiveTooSlow, Respond
  <2>3. buffers' \in 0..Buffers /\ buffers' + Cardinality(BufferHolders') = Buffers
    BY <1>1, <2>1, <2>2, HoldersChange DEF BufferHolders, ReturnBuffer
  <2> QED
    BY <1>1, <2>1, <2>2, <2>3 DEF BufferHolders
<1>8. CASE UNCHANGED bodyVars
  BY <1>8 DEF bodyVars, BufferHolders
<1> QED
  BY <1>2, <1>3, <1>4, <1>5, <1>6, <1>7, <1>8 DEF BodyNext

\* Every buffer is free or held by one authenticated request whose body fits,
\* for any number of clients and buffers and whatever a body is declared to be.
THEOREM BuffersAreAccounted == BodySpec => []BuffersAccounted
<1>1. BodyInit => BodyInv
  <2> SUFFICES ASSUME BodyInit PROVE BodyInv
    OBVIOUS
  <2>1. BufferHolders = {}
    BY DEF BodyInit, BufferHolders
  <2>2. Cardinality(BufferHolders) = 0
    BY <2>1, FS_EmptySet
  <2> QED
    BY <2>1, <2>2, BodyAssumption DEF BodyInit, BodyInv, BuffersAccounted, BodyTypeOK
<1>2. BodyInv /\ [BodyNext]_bodyVars => BodyInv'
  BY BodyPreserved
<1>3. BodyInv => BuffersAccounted
  BY DEF BodyInv
<1> QED
  BY <1>1, <1>2, <1>3, PTL DEF BodySpec

-----------------------------------------------------------------------------
(***************************************************************************)
(* Layouts.                                                                *)
(***************************************************************************)

\* The tasks in the executor are waiting, each once.
TasksWait ==
    /\ \A i \in 1..Len(tasks) : submitted[tasks[i]].fate = "waiting"
    /\ \A i, j \in 1..Len(tasks) : tasks[i] = tasks[j] => i = j

\* The worker's task is a submission that is running.
TaskRuns ==
    task # NoTask => task.from \in Submissions /\ submitted[task.from].fate = "running"

LayoutInv == SlotsAccounted /\ TasksWait /\ TaskRuns

\* What the steps of prepare() leave alone, and keep well typed.
LayoutFilesOK ==
    /\ files \in [Layouts -> 0..MaxComputed] /\ computed \in 0..MaxComputed
    /\ generating \in Preparers \cup {Free}
    /\ preparing \in [Preparers -> [at : {"rest", "look", "wait", "again", "compute"},
                                    id : Layouts \cup {Free}]]

LayoutQueueOK ==
    /\ current \in Publications /\ restarts \in 0..MaxRestarts
    /\ task \in [from : Submissions \cup {Free}, left : SUBSET Layouts]
    /\ tasks \in Seq(Submissions)
    /\ submitted \in [Submissions -> [fate : Fates, publication : Publications]]
    /\ slots \in 0..Slots /\ queueClosed \in BOOLEAN

\* The queue is the same, whatever prepare() does.
LEMMA PreparingPreserves ==
  ASSUME LayoutInv, LayoutFilesOK', UNCHANGED <<current, restarts, taskVars>>
  PROVE  LayoutInv'
<1>1. LayoutTypeOK'
  BY DEF LayoutInv, SlotsAccounted, LayoutTypeOK, LayoutFilesOK, taskVars
<1> QED
  BY <1>1 DEF LayoutInv, SlotsAccounted, TasksWait, TaskRuns, HoldSlots, taskVars

LEMMA MoveToTyped ==
  ASSUME LayoutFilesOK, NEW r \in Preparers, NEW place, MoveTo(r, place),
         place \in [at : {"rest", "look", "wait", "again", "compute"},
                    id : Layouts \cup {Free}]
  PROVE  /\ preparing' \in [Preparers -> [at : {"rest", "look", "wait", "again", "compute"},
                                          id : Layouts \cup {Free}]]
         /\ UNCHANGED <<current, restarts, taskVars>>
BY DEF LayoutFilesOK, MoveTo

LEMMA PreparerPreserves ==
  ASSUME LayoutInv, NEW r \in Preparers, Preparer(r)
  PROVE  LayoutInv'
<1>1. LayoutFilesOK
  BY DEF LayoutInv, SlotsAccounted, LayoutTypeOK, LayoutFilesOK
<1> DEFINE Places == [at : {"rest", "look", "wait", "again", "compute"},
                      id : Layouts \cup {Free}]
<1>2. preparing[r] \in Places /\ Resting \in Places
  BY <1>1 DEF LayoutFilesOK, Resting
<1>3. ASSUME NEW place \in {"rest", "look", "wait", "again", "compute"}
      PROVE  [preparing[r] EXCEPT !.at = place] \in Places
  BY <1>2
<1>4. ASSUME NEW place \in Places, MoveTo(r, place), UNCHANGED <<files, computed>>,
             generating' \in Preparers \cup {Free}
      PROVE  LayoutInv'
  <2>1. LayoutFilesOK' /\ UNCHANGED <<current, restarts, taskVars>>
    BY <1>1, <1>4, MoveToTyped DEF LayoutFilesOK
  <2> QED
    BY <2>1, PreparingPreserves
<1>5. generating \in Preparers \cup {Free}
  BY <1>1 DEF LayoutFilesOK
<1>6. CASE LookForLayout(r)
  <2>1. PICK place : place = IF files[preparing[r].id] # NoLayout THEN Resting
                             ELSE [preparing[r] EXCEPT !.at = "wait"]
    OBVIOUS
  <2>2. place \in Places
    BY <1>2, <1>3, <2>1
  <2> QED
    BY <1>4, <1>5, <1>6, <2>1, <2>2 DEF LookForLayout
<1>7. CASE LockGeneration(r)
  BY <1>3, <1>4, <1>7 DEF LockGeneration
<1>8. CASE GiveUp(r)
  BY <1>2, <1>4, <1>5, <1>8 DEF GiveUp
<1>9. CASE LookAgain(r)
  BY <1>2, <1>3, <1>4, <1>5, <1>9 DEF LookAgain
<1>10. CASE Compute(r)
  <2>1. /\ files' \in [Layouts -> 0..MaxComputed] /\ computed' \in 0..MaxComputed
        /\ generating' = Free /\ MoveTo(r, Resting)
    BY <1>1, <1>10, LayoutAssumption DEF Compute, LayoutFilesOK
  <2>2. LayoutFilesOK' /\ UNCHANGED <<current, restarts, taskVars>>
    BY <1>1, <1>2, <2>1, MoveToTyped DEF LayoutFilesOK
  <2> QED
    BY <2>2, PreparingPreserves
<1> QED
  BY <1>6, <1>7, <1>8, <1>9, <1>10 DEF Preparer

\* The slots after one submission met its fate.
LEMMA SlotsChange ==
  ASSUME LayoutInv, NEW s \in Submissions,
         submitted' \in [Submissions -> [fate : Fates, publication : Publications]],
         \A q \in Submissions \ {s} : submitted'[q].fate = submitted[q].fate,
         \/ (s \in HoldSlots <=> s \in HoldSlots') /\ slots' = slots
         \/ s \in HoldSlots /\ s \notin HoldSlots' /\ slots' = slots + 1
         \/ s \notin HoldSlots /\ s \in HoldSlots' /\ slots # 0 /\ slots' = slots - 1
  PROVE  slots' \in 0..Slots /\ slots' + Cardinality(HoldSlots') = Slots
<1>1. PICK old : old = HoldSlots
  OBVIOUS
<1>2. PICK new : new = HoldSlots'
  OBVIOUS
<1>3. IsFiniteSet(old)
  BY <1>1, LayoutAssumption, FS_Subset DEF HoldSlots
<1>4. old \ {s} = new \ {s}
  BY <1>1, <1>2 DEF HoldSlots
<1>5. PICK c, d \in Nat : c = Cardinality(old) /\ d = Cardinality(new)
  BY <1>3, <1>4, OneMember
<1>6. /\ s \in old /\ s \in new => d = c
      /\ s \notin old /\ s \notin new => d = c
      /\ s \in old /\ s \notin new => d = c - 1
      /\ s \notin old /\ s \in new => d = c + 1
  BY <1>3, <1>4, <1>5, OneMember
<1>7. slots \in 0..Slots /\ slots + c = Slots /\ Slots \in Nat
  BY <1>1, <1>5, LayoutAssumption DEF LayoutInv, SlotsAccounted, LayoutTypeOK
<1>8. \/ (s \in old <=> s \in new) /\ slots' = slots
      \/ s \in old /\ s \notin new /\ slots' = slots + 1
      \/ s \notin old /\ s \in new /\ slots # 0 /\ slots' = slots - 1
  BY <1>1, <1>2
<1>9. slots' \in 0..Slots /\ slots' + d = Slots
  BY <1>6, <1>7, <1>8
<1> QED
  BY <1>2, <1>5, <1>9

LEMMA LayoutPreserved ==
  ASSUME LayoutInv, [LayoutNext]_layoutVars
  PROVE  LayoutInv'
<1>1. LayoutFilesOK /\ LayoutQueueOK /\ TasksWait /\ TaskRuns
  BY DEF LayoutInv, SlotsAccounted, LayoutTypeOK, LayoutFilesOK, LayoutQueueOK
<1>2. DOMAIN tasks = 1..Len(tasks) /\ Len(tasks) \in Nat
      /\ \A i \in 1..Len(tasks) : tasks[i] \in Submissions
  BY <1>1 DEF LayoutQueueOK
<1>3. ASSUME LayoutFilesOK', LayoutQueueOK', TasksWait', TaskRuns',
             slots' + Cardinality(HoldSlots') = Slots
      PROVE  LayoutInv'
  BY <1>3 DEF LayoutInv, SlotsAccounted, LayoutTypeOK, LayoutFilesOK, LayoutQueueOK
<1>4. ASSUME NEW r, NEW a \in Layouts, OpenPage(r, a)
      PROVE  LayoutInv'
  <2>1. r \in Preparers /\ MoveTo(r, [at |-> "look", id |-> a])
    BY <1>4 DEF OpenPage, Preparers
  <2>2. LayoutFilesOK' /\ UNCHANGED <<current, restarts, taskVars>>
    BY <1>1, <1>4, <2>1, MoveToTyped DEF OpenPage, LayoutFilesOK
  <2> QED
    BY <2>2, PreparingPreserves
<1>5. ASSUME NEW r \in Preparers, Preparer(r)
      PROVE  LayoutInv'
  BY <1>5, PreparerPreserves
<1>6. ASSUME NEW s \in Submissions, NEW p \in Publications, Activated(s, p)
      PROVE  LayoutInv'
  <2>1. /\ submitted[s].fate = "none" /\ current' = p
        /\ submitted' = [submitted EXCEPT ![s] =
                            [fate |-> IF slots = 0 THEN "refused" ELSE "slotted",
                             publication |-> p]]
        /\ slots' = IF slots = 0 THEN 0 ELSE slots - 1
        /\ QueueStep /\ UNCHANGED <<task, tasks, queueClosed>>
    BY <1>6 DEF Activated
  <2>2. submitted' \in [Submissions -> [fate : Fates, publication : Publications]]
    BY <1>1, <2>1 DEF LayoutQueueOK, Fates
  <2>3. slots' \in 0..Slots /\ slots' + Cardinality(HoldSlots') = Slots
    BY <1>1, <2>1, <2>2, SlotsChange DEF HoldSlots, LayoutQueueOK
  <2>4. LayoutFilesOK' /\ LayoutQueueOK'
    BY <1>1, <2>1, <2>2, <2>3 DEF QueueStep, LayoutFilesOK, LayoutQueueOK
  <2>5. TasksWait' /\ TaskRuns'
    BY <1>1, <1>2, <2>1 DEF TasksWait, TaskRuns, LayoutQueueOK
  <2> QED
    BY <1>3, <2>3, <2>4, <2>5
<1>7. ASSUME NEW s \in Submissions, Enqueue(s)
      PROVE  LayoutInv'
  <2>1. submitted[s].fate = "slotted" /\ QueueStep /\ UNCHANGED <<current, task, queueClosed>>
    BY <1>7 DEF Enqueue
  <2>2. CASE Fate(s, "refused") /\ ReturnSlot /\ UNCHANGED tasks
    <3>1. submitted' \in [Submissions -> [fate : Fates, publication : Publications]]
      BY <1>1, <2>2 DEF LayoutQueueOK, Fates, Fate
    <3>2. slots' \in 0..Slots /\ slots' + Cardinality(HoldSlots') = Slots
      BY <1>1, <2>1, <2>2, <3>1, SlotsChange DEF HoldSlots, LayoutQueueOK, Fate, ReturnSlot
    <3>3. LayoutFilesOK' /\ LayoutQueueOK'
      BY <1>1, <2>1, <2>2, <3>1, <3>2 DEF QueueStep, LayoutFilesOK, LayoutQueueOK
    <3>4. TasksWait' /\ TaskRuns'
      BY <1>1, <1>2, <2>1, <2>2 DEF TasksWait, TaskRuns, LayoutQueueOK, Fate
    <3> QED
      BY <1>3, <3>2, <3>3, <3>4
  <2>3. CASE Fate(s, "waiting") /\ tasks' = Append(tasks, s) /\ UNCHANGED slots
    <3>1. submitted' \in [Submissions -> [fate : Fates, publication : Publications]]
      BY <1>1, <2>3 DEF LayoutQueueOK, Fates, Fate
    <3>2. slots' \in 0..Slots /\ slots' + Cardinality(HoldSlots') = Slots
      BY <1>1, <2>1, <2>3, <3>1, SlotsChange, SMTT(20) DEF HoldSlots, LayoutQueueOK, Fate
    <3>3. /\ tasks' \in Seq(Submissions) /\ Len(tasks') = Len(tasks) + 1
          /\ \A i \in 1..Len(tasks) : tasks'[i] = tasks[i]
          /\ tasks'[Len(tasks) + 1] = s
      BY <1>1, <2>3 DEF LayoutQueueOK
    <3>4. LayoutFilesOK' /\ LayoutQueueOK'
      BY <1>1, <2>1, <2>3, <3>1, <3>2, <3>3 DEF QueueStep, LayoutFilesOK, LayoutQueueOK
    <3>5. \A i \in 1..Len(tasks) : tasks[i] # s
      BY <1>1, <2>1 DEF TasksWait
    <3>6. \A i \in 1..Len(tasks) + 1 : submitted'[tasks'[i]].fate = "waiting"
      BY <1>1, <1>2, <2>3, <3>3, <3>5 DEF TasksWait, Fate, LayoutQueueOK
    <3>7. \A i, j \in 1..Len(tasks) + 1 : tasks'[i] = tasks'[j] => i = j
      BY <1>1, <1>2, <3>3, <3>5 DEF TasksWait
    <3>8. TasksWait'
      BY <3>3, <3>6, <3>7 DEF TasksWait
    <3>9. TaskRuns'
      BY <1>1, <2>1, <2>3 DEF TaskRuns, LayoutQueueOK, Fate
    <3> QED
      BY <1>3, <3>2, <3>4, <3>8, <3>9
  <2> QED
    BY <1>7, <2>2, <2>3 DEF Enqueue
<1>8. CASE StartTask
  <2>1. PICK s : s = Head(tasks)
    OBVIOUS
  <2>2. /\ task = NoTask /\ tasks # <<>>
        /\ task' = [from |-> s, left |-> LayoutsOf[submitted[s].publication]]
        /\ Fate(s, "running") /\ tasks' = Tail(tasks)
        /\ QueueStep /\ UNCHANGED <<current, slots, queueClosed>>
    BY <1>8, <2>1 DEF StartTask
  <2>3. /\ Len(tasks) > 0 /\ s = tasks[1] /\ tasks' \in Seq(Submissions)
        /\ Len(tasks') = Len(tasks) - 1
        /\ \A i \in 1..Len(tasks) - 1 : tasks'[i] = tasks[i + 1]
    BY <1>1, <2>1, <2>2 DEF LayoutQueueOK
  <2>4. s \in Submissions /\ submitted[s].fate = "waiting"
    BY <1>1, <1>2, <2>3 DEF TasksWait
  <2>5. submitted' \in [Submissions -> [fate : Fates, publication : Publications]]
    BY <1>1, <2>2 DEF LayoutQueueOK, Fates, Fate
  <2>6. slots' \in 0..Slots /\ slots' + Cardinality(HoldSlots') = Slots
    BY <1>1, <2>2, <2>4, <2>5, SlotsChange DEF HoldSlots, LayoutQueueOK, Fate
  <2>7. task' \in [from : Submissions \cup {Free}, left : SUBSET Layouts]
    BY <1>1, <2>2, <2>4, LayoutAssumption DEF LayoutQueueOK
  <2>8. LayoutFilesOK' /\ LayoutQueueOK'
    BY <1>1, <2>2, <2>3, <2>5, <2>6, <2>7 DEF QueueStep, LayoutFilesOK, LayoutQueueOK
  <2>9. \A i \in 1..Len(tasks) - 1 : tasks'[i] # s /\ tasks'[i] \in Submissions
    BY <1>1, <1>2, <2>3 DEF TasksWait
  <2>10. \A i \in 1..Len(tasks) - 1 : submitted'[tasks'[i]].fate = "waiting"
    BY <1>1, <1>2, <2>2, <2>3, <2>9 DEF TasksWait, Fate, LayoutQueueOK
  <2>11. \A i, j \in 1..Len(tasks) - 1 : tasks'[i] = tasks'[j] => i = j
    BY <1>1, <1>2, <2>3 DEF TasksWait
  <2>12. TasksWait'
    BY <2>3, <2>10, <2>11 DEF TasksWait
  <2>13. TaskRuns'
    BY <1>1, <2>2, <2>4 DEF TaskRuns, LayoutQueueOK, Fate
  <2> QED
    BY <1>3, <2>6, <2>8, <2>12, <2>13
<1>9. ASSUME NEW a \in Layouts, PrepareNext(a)
      PROVE  LayoutInv'
  <2>1. /\ task # NoTask
        /\ task' = [task EXCEPT !.left = IF current = submitted[task.from].publication
                                         THEN @ \ {a} ELSE {}]
        /\ preparing' = [preparing EXCEPT ![Worker] =
                            IF current = submitted[task.from].publication
                            THEN [at |-> "look", id |-> a] ELSE Resting]
        /\ UNCHANGED <<current, files, computed, restarts, generating, tasks, submitted,
                       slots, queueClosed>>
    BY <1>9 DEF PrepareNext
  <2>2. task'.from = task.from /\ task'.left \subseteq Layouts
        /\ task' \in [from : Submissions \cup {Free}, left : SUBSET Layouts]
    BY <1>1, <2>1 DEF LayoutQueueOK
  <2>3. LayoutFilesOK' /\ LayoutQueueOK'
    BY <1>1, <2>1, <2>2 DEF LayoutFilesOK, LayoutQueueOK, Resting
  <2>4. TasksWait' /\ TaskRuns'
    BY <1>1, <2>1, <2>2 DEF TasksWait, TaskRuns
  <2>5. HoldSlots' = HoldSlots /\ slots' = slots
    BY <2>1 DEF HoldSlots
  <2> QED
    BY <1>3, <2>3, <2>4, <2>5 DEF LayoutInv, SlotsAccounted
<1>10. CASE EndTask
  <2>1. PICK s : s = task.from
    OBVIOUS
  <2>2. /\ task # NoTask /\ Fate(s, "finished") /\ task' = NoTask /\ ReturnSlot
        /\ QueueStep /\ UNCHANGED <<current, tasks, queueClosed>>
    BY <1>10, <2>1 DEF EndTask
  <2>3. s \in Submissions /\ submitted[s].fate = "running"
    BY <1>1, <2>1, <2>2 DEF TaskRuns
  <2>4. submitted' \in [Submissions -> [fate : Fates, publication : Publications]]
    BY <1>1, <2>2 DEF LayoutQueueOK, Fates, Fate
  <2>5. slots' \in 0..Slots /\ slots' + Cardinality(HoldSlots') = Slots
    BY <1>1, <2>2, <2>3, <2>4, SlotsChange DEF HoldSlots, LayoutQueueOK, Fate, ReturnSlot
  <2>6. LayoutFilesOK' /\ LayoutQueueOK'
    BY <1>1, <2>2, <2>4, <2>5 DEF QueueStep, LayoutFilesOK, LayoutQueueOK, NoTask
  <2>7. TasksWait' /\ TaskRuns'
    BY <1>1, <1>2, <2>2, <2>3 DEF TasksWait, TaskRuns, LayoutQueueOK, Fate
  <2> QED
    BY <1>3, <2>5, <2>6, <2>7
<1>11. CASE CloseQueue
  <2>1. /\ queueClosed' = TRUE
        /\ submitted' = [s \in Submissions |->
                            IF submitted[s].fate = "waiting"
                            THEN [submitted[s] EXCEPT !.fate = "cancelled"] ELSE submitted[s]]
        /\ tasks' = <<>>
        /\ QueueStep /\ UNCHANGED <<current, task, slots>>
    BY <1>11 DEF CloseQueue
  <2>2. ASSUME NEW s \in Submissions
        PROVE  /\ submitted'[s] \in [fate : Fates, publication : Publications]
               /\ submitted'[s].fate = IF submitted[s].fate = "waiting" THEN "cancelled"
                                       ELSE submitted[s].fate
    BY <1>1, <2>1 DEF LayoutQueueOK, Fates
  <2>3. submitted' \in [Submissions -> [fate : Fates, publication : Publications]]
    BY <2>1, <2>2
  <2>4. HoldSlots' = HoldSlots
    BY <2>2 DEF HoldSlots
  <2>5. LayoutFilesOK' /\ LayoutQueueOK'
    BY <1>1, <2>1, <2>3 DEF QueueStep, LayoutFilesOK, LayoutQueueOK
  <2>6. TasksWait' /\ TaskRuns'
    BY <1>1, <2>1, <2>2 DEF TasksWait, TaskRuns
  <2> QED
    BY <1>3, <2>1, <2>4, <2>5, <2>6 DEF LayoutInv, SlotsAccounted
<1>12. CASE RestartProcess
  <2>1. /\ restarts < MaxRestarts /\ restarts' = restarts + 1 /\ generating' = Free
        /\ preparing' = [r \in Preparers |-> Resting]
        /\ task' = NoTask /\ tasks' = <<>>
        /\ submitted' = [s \in Submissions |->
               IF submitted[s].fate \in {"slotted", "waiting", "running", "cancelled"}
               THEN [submitted[s] EXCEPT !.fate = "lost"] ELSE submitted[s]]
        /\ slots' = Slots /\ queueClosed' = FALSE
        /\ UNCHANGED <<current, files, computed>>
    BY <1>12 DEF RestartProcess
  <2>2. ASSUME NEW s \in Submissions
        PROVE  /\ submitted'[s] \in [fate : Fates, publication : Publications]
               /\ submitted'[s].fate \notin {"slotted", "waiting", "running", "cancelled"}
    BY <1>1, <2>1 DEF LayoutQueueOK, Fates
  <2>3. submitted' \in [Submissions -> [fate : Fates, publication : Publications]]
    BY <2>1, <2>2
  <2>4. HoldSlots' = {}
    BY <2>2 DEF HoldSlots
  <2>5. Cardinality(HoldSlots') = 0 /\ Slots \in Nat
    BY <2>4, LayoutAssumption, FS_EmptySet
  <2>6. LayoutFilesOK'
    BY <1>1, <2>1 DEF LayoutFilesOK, Resting
  <2>7. LayoutQueueOK'
    <3>1. current' \in Publications /\ restarts' \in 0..MaxRestarts
      BY <1>1, <2>1, LayoutAssumption DEF LayoutQueueOK
    <3>4. queueClosed' \in BOOLEAN
      BY <2>1
    <3>2. NoTask \in [from : Submissions \cup {Free}, left : SUBSET Layouts]
      BY DEF NoTask
    <3>3. slots' \in 0..Slots
      BY <2>1, <2>5
    <3> QED
      BY <2>1, <2>3, <3>1, <3>2, <3>3, <3>4 DEF LayoutQueueOK
  <2>8. TasksWait' /\ TaskRuns'
    BY <2>1 DEF TasksWait, TaskRuns
  <2> QED
    BY <1>3, <2>1, <2>5, <2>6, <2>7, <2>8
<1>13. CASE UNCHANGED layoutVars
  <2>1. LayoutFilesOK' /\ UNCHANGED <<current, restarts, taskVars>>
    BY <1>1, <1>13 DEF layoutVars, LayoutFilesOK
  <2> QED
    BY <2>1, PreparingPreserves
<1> QED
  BY <1>4, <1>5, <1>6, <1>7, <1>8, <1>9, <1>10, <1>11, <1>12, <1>13 DEF LayoutNext

\* Every slot of the queue is free or held by one submission, for any number
\* of submissions, slots, publications and restarts.
THEOREM SlotsAreAccounted == LayoutSpec => []SlotsAccounted
<1>1. LayoutInit => LayoutInv
  <2> SUFFICES ASSUME LayoutInit PROVE LayoutInv
    OBVIOUS
  <2>1. HoldSlots = {} /\ tasks = <<>> /\ task = NoTask /\ slots = Slots
    BY DEF LayoutInit, HoldSlots
  <2>2. Cardinality(HoldSlots) = 0 /\ Slots \in Nat
    BY <2>1, FS_EmptySet, LayoutAssumption
  <2>3. LayoutTypeOK
    <3>1. /\ current \in Publications /\ restarts \in 0..MaxRestarts
          /\ files \in [Layouts -> 0..MaxComputed] /\ computed \in 0..MaxComputed
      BY LayoutAssumption DEF LayoutInit, NoLayout
    <3>2. NoTask \in [from : Submissions \cup {Free}, left : SUBSET Layouts]
      BY DEF NoTask
    <3>3. /\ generating \in Preparers \cup {Free}
          /\ preparing \in [Preparers -> [at : {"rest", "look", "wait", "again", "compute"},
                                          id : Layouts \cup {Free}]]
      BY DEF LayoutInit, Resting
    <3>4. submitted \in [Submissions -> [fate : Fates, publication : Publications]]
      BY DEF LayoutInit, Fates
    <3>5. queueClosed \in BOOLEAN
      BY DEF LayoutInit
    <3> QED
      BY <2>1, <2>2, <3>1, <3>2, <3>3, <3>4, <3>5 DEF LayoutTypeOK
  <2> QED
    BY <2>1, <2>2, <2>3 DEF LayoutInv, SlotsAccounted, TasksWait, TaskRuns
<1>2. LayoutInv /\ [LayoutNext]_layoutVars => LayoutInv'
  BY LayoutPreserved
<1>3. LayoutInv => SlotsAccounted
  BY DEF LayoutInv
<1> QED
  BY <1>1, <1>2, <1>3, PTL DEF LayoutSpec

-----------------------------------------------------------------------------
(***************************************************************************)
(* The reset.                                                              *)
(***************************************************************************)

AtWork == {q \in Arrivals : operation[q].at = "inside"}

\* Every request that is admitted, and so every operation that may still start,
\* is of the present generation; while the reset runs there is none.
ResetInv ==
    /\ NoWorkAcrossReset
    /\ working = Cardinality(AtWork)
    /\ admitted = [q \in DOMAIN admitted |-> admitted[q]]
    /\ \A q \in DOMAIN admitted : admitted[q] = generation /\ operation[q].under = generation
    /\ resetState = "RUNNING" => DOMAIN admitted = {} /\ working = 0
    /\ generation = Cardinality(DOMAIN accepted)

Operations == [at : {"none", "pending", "inside", "over"}, under : ResetGenerations]

\* What the counter is after one operation entered or left, or none did.
LEMMA WorkCounted ==
  ASSUME ResetInv, NEW q \in Arrivals, operation' \in [Arrivals -> Operations],
         \A r \in Arrivals \ {q} : operation'[r] = operation[r],
         \/ (q \in AtWork <=> q \in AtWork') /\ working' = working
         \/ q \in AtWork /\ q \notin AtWork' /\ working' = working - 1
         \/ q \notin AtWork /\ q \in AtWork' /\ working' = working + 1
  PROVE  working' = Cardinality(AtWork') /\ working' \in Nat
<1>1. PICK old : old = AtWork
  OBVIOUS
<1>2. PICK new : new = AtWork'
  OBVIOUS
<1>3. IsFiniteSet(old)
  BY <1>1, ResetAssumption, FS_Subset DEF AtWork
<1>4. old \ {q} = new \ {q}
  BY <1>1, <1>2 DEF AtWork
<1>5. PICK c, d \in Nat : c = Cardinality(old) /\ d = Cardinality(new)
  BY <1>3, <1>4, OneMember
<1>6. /\ q \in old /\ q \in new => d = c
      /\ q \notin old /\ q \notin new => d = c
      /\ q \in old /\ q \notin new => d = c - 1
      /\ q \notin old /\ q \in new => d = c + 1
  BY <1>3, <1>4, <1>5, OneMember
<1>7. working = c
  BY <1>1, <1>5 DEF ResetInv
<1>8. \/ (q \in old <=> q \in new) /\ working' = working
      \/ q \in old /\ q \notin new /\ working' = working - 1
      \/ q \notin old /\ q \in new /\ working' = working + 1
  BY <1>1, <1>2
<1>9. working' = d
  BY <1>6, <1>7, <1>8
<1> QED
  BY <1>2, <1>5, <1>9

LEMMA NobodyAtWork ==
  ASSUME ResetInv, working = 0
  PROVE  \A q \in Arrivals : operation[q].at # "inside"
<1>1. PICK old : old = AtWork
  OBVIOUS
<1>2. IsFiniteSet(old) /\ Cardinality(old) = 0
  BY <1>1, ResetAssumption, FS_Subset DEF AtWork, ResetInv
<1>3. old = {}
  BY <1>2, FS_EmptySet
<1> QED
  BY <1>1, <1>3 DEF AtWork

LEMMA ResetPreserved ==
  ASSUME ResetInv, [ResetNext]_resetVars
  PROVE  ResetInv'
<1>1. /\ generation \in ResetGenerations
      /\ resetState \in {"READY", "RUNNING", "FAILED", "SUCCEEDED"}
      /\ resetting \in Resets \cup {NoReset}
      /\ DOMAIN admitted \subseteq Arrivals
      /\ operation \in [Arrivals -> Operations]
      /\ working \in Nat /\ DOMAIN accepted \subseteq Resets
  BY DEF ResetInv, NoWorkAcrossReset, ResetTypeOK, Operations
<1>2. /\ \A q \in Arrivals : operation[q].at = "inside" =>
            operation[q].under = generation /\ resetState # "RUNNING"
      /\ admitted = [q \in DOMAIN admitted |-> admitted[q]]
      /\ \A q \in DOMAIN admitted : admitted[q] = generation /\ operation[q].under = generation
      /\ resetState = "RUNNING" => DOMAIN admitted = {} /\ working = 0
      /\ generation = Cardinality(DOMAIN accepted)
      /\ working = Cardinality(AtWork)
  BY DEF ResetInv, NoWorkAcrossReset
<1>3. ASSUME NEW q \in Arrivals, NEW write, NEW tab, Admit(q, write, tab)
      PROVE  ResetInv'
  <2>1. /\ operation[q].at = "none" /\ resetState \notin Unavailable
        /\ admitted' = [r \in DOMAIN admitted \cup {q} |->
                           IF r = q THEN generation ELSE admitted[r]]
        /\ operation' = [operation EXCEPT ![q] = [at |-> "pending", under |-> generation]]
        /\ UNCHANGED <<generation, resetState, resetting, working, accepted>>
    BY <1>3 DEF Admit
  <2>2. operation' \in [Arrivals -> Operations]
    BY <1>1, <2>1 DEF Operations
  <2>3. working' = Cardinality(AtWork') /\ working' \in Nat
    BY <1>1, <2>1, <2>2, WorkCounted DEF AtWork
  <2>4. resetState # "RUNNING"
    BY <2>1 DEF Unavailable
  <2>5. ResetTypeOK'
    BY <1>1, <2>1, <2>2, <2>3 DEF ResetTypeOK, Operations
  <2>6. NoWorkAcrossReset'
    BY <1>1, <1>2, <2>1, <2>5 DEF NoWorkAcrossReset
  <2> QED
    BY <1>1, <1>2, <2>1, <2>3, <2>4, <2>6 DEF ResetInv
<1>4. ASSUME NEW q \in Arrivals, ReleaseRequest(q)
      PROVE  ResetInv'
  <2>1. /\ admitted' = [r \in DOMAIN admitted \ {q} |-> admitted[r]]
        /\ UNCHANGED <<generation, resetState, resetting, operation, working, accepted>>
    BY <1>4 DEF ReleaseRequest, Restrict
  <2>2. ResetTypeOK'
    BY <1>1, <2>1 DEF ResetTypeOK, Operations
  <2> QED
    BY <1>1, <1>2, <2>1, <2>2 DEF ResetInv, NoWorkAcrossReset, AtWork
<1>5. ASSUME NEW q \in Arrivals, EnterBackend(q)
      PROVE  ResetInv'
  <2>1. /\ operation[q].at = "pending" /\ resetState \notin Unavailable
        /\ q \in DOMAIN admitted
        /\ operation' = [operation EXCEPT ![q].at = "inside"]
        /\ working' = working + 1
        /\ UNCHANGED <<generation, resetState, resetting, admitted, accepted>>
    BY <1>5 DEF EnterBackend, MayEnter
  <2>2. operation' \in [Arrivals -> Operations]
        /\ \A r \in Arrivals : operation'[r].under = operation[r].under
    BY <1>1, <2>1 DEF Operations
  <2>3. working' = Cardinality(AtWork') /\ working' \in Nat
    BY <1>1, <2>1, <2>2, WorkCounted DEF AtWork
  <2>4. resetState # "RUNNING"
    BY <2>1 DEF Unavailable
  <2>5. ResetTypeOK'
    BY <1>1, <2>1, <2>2, <2>3 DEF ResetTypeOK, Operations
  <2>6. NoWorkAcrossReset'
    BY <1>1, <1>2, <2>1, <2>2, <2>4, <2>5 DEF NoWorkAcrossReset
  <2> QED
    BY <1>1, <1>2, <2>1, <2>2, <2>3, <2>4, <2>6 DEF ResetInv
<1>6. ASSUME NEW q \in Arrivals, operation[q].at = "pending",
             operation' = [operation EXCEPT ![q].at = "over"],
             UNCHANGED <<generation, resetState, resetting, admitted, working, accepted>>
      PROVE  ResetInv'
  <2>1. operation' \in [Arrivals -> Operations]
        /\ \A r \in Arrivals : operation'[r].under = operation[r].under
    BY <1>1, <1>6 DEF Operations
  <2>2. working' = Cardinality(AtWork') /\ working' \in Nat
    BY <1>1, <1>6, <2>1, WorkCounted DEF AtWork
  <2>3. ResetTypeOK'
    BY <1>1, <1>6, <2>1, <2>2 DEF ResetTypeOK, Operations
  <2> QED
    BY <1>1, <1>2, <1>6, <2>1, <2>2, <2>3 DEF ResetInv, NoWorkAcrossReset
<1>7. ASSUME NEW q \in Arrivals, RefuseOperation(q)
      PROVE  ResetInv'
  BY <1>6, <1>7 DEF RefuseOperation
<1>8. ASSUME NEW q \in Arrivals, LeaveBackend(q)
      PROVE  ResetInv'
  <2>1. /\ operation[q].at = "inside"
        /\ operation' = [operation EXCEPT ![q].at = "over"]
        /\ working' = working - 1
        /\ UNCHANGED <<generation, resetState, resetting, admitted, accepted>>
    BY <1>8 DEF LeaveBackend
  <2>2. operation' \in [Arrivals -> Operations]
        /\ \A r \in Arrivals : operation'[r].under = operation[r].under
    BY <1>1, <2>1 DEF Operations
  <2>3. working' = Cardinality(AtWork') /\ working' \in Nat
    BY <1>1, <2>1, <2>2, WorkCounted DEF AtWork
  <2>4. resetState # "RUNNING"
    BY <1>2, <2>1
  <2>5. ResetTypeOK'
    BY <1>1, <2>1, <2>2, <2>3 DEF ResetTypeOK, Operations
  <2> QED
    BY <1>1, <1>2, <2>1, <2>2, <2>3, <2>4, <2>5 DEF ResetInv, NoWorkAcrossReset
<1>9. ASSUME NEW o \in Resets, NEW tab, StartReset(o, tab)
      PROVE  ResetInv'
  <2>1. /\ o \notin DOMAIN accepted /\ Cardinality(DOMAIN accepted) < MaxAccepted
        /\ generation' = generation + 1 /\ resetState' = "RUNNING" /\ resetting' = o
        /\ DOMAIN accepted' = DOMAIN accepted \cup {o}
        /\ UNCHANGED <<admitted, operation, working>>
    BY <1>9 DEF StartReset
  <2>2. DOMAIN admitted = {} /\ working = 0
    <3>1. ~Busy
      BY <1>9 DEF StartReset
    <3>2. DOMAIN admitted = {} /\ ~(working > 0)
      BY <3>1 DEF Busy
    <3> QED
      BY <1>1, <3>2
  <2>3. Cardinality(DOMAIN accepted') = generation + 1
    <3>1. IsFiniteSet(DOMAIN accepted)
      BY <1>1, ResetAssumption, FS_Subset
    <3>2. PICK D : D = DOMAIN accepted
      OBVIOUS
    <3>3. Cardinality(D \cup {o}) = Cardinality(D) + 1
      BY <2>1, <3>1, <3>2, FS_AddElement
    <3> QED
      BY <1>2, <2>1, <3>2, <3>3
  <2>4. generation' \in ResetGenerations
    BY <1>1, <1>2, <2>1, ResetAssumption DEF ResetGenerations
  <2>5. ResetTypeOK'
    BY <1>1, <2>1, <2>4 DEF ResetTypeOK, Operations
  <2>6. NoWorkAcrossReset'
    BY <2>1, <2>2, <2>5, NobodyAtWork DEF NoWorkAcrossReset
  <2> QED
    BY <1>2, <2>1, <2>2, <2>3, <2>6 DEF ResetInv, AtWork
<1>10. CASE FinishReset
  <2>1. /\ resetState = "RUNNING" /\ resetState' \in {"SUCCEEDED", "FAILED"}
        /\ DOMAIN accepted' = DOMAIN accepted
        /\ UNCHANGED <<generation, resetting, admitted, operation, working>>
    BY <1>10 DEF FinishReset
  <2>2. ResetTypeOK'
    BY <1>1, <2>1 DEF ResetTypeOK, Operations
  <2> QED
    BY <1>2, <2>1, <2>2 DEF ResetInv, NoWorkAcrossReset, AtWork
<1>11. CASE UNCHANGED resetVars
  BY <1>11 DEF resetVars, ResetInv, NoWorkAcrossReset, ResetTypeOK, AtWork
<1> QED
  BY <1>3, <1>4, <1>5, <1>7, <1>8, <1>9, <1>10, <1>11 DEF ResetNext

\* Whatever works in the backend was admitted under the present generation and
\* nothing works while it is rebuilt, for any requests and resets.
THEOREM NothingWorksAcrossAReset == ResetSpec => []NoWorkAcrossReset
<1>1. ResetInit => ResetInv
  <2> SUFFICES ASSUME ResetInit PROVE ResetInv
    OBVIOUS
  <2>1. AtWork = {} /\ DOMAIN admitted = {} /\ DOMAIN accepted = {}
    BY DEF ResetInit, AtWork
  <2>2. Cardinality(AtWork) = 0 /\ Cardinality(DOMAIN accepted) = 0
    BY <2>1, FS_EmptySet
  <2>3. ResetTypeOK
    BY <2>1, ResetAssumption DEF ResetInit, ResetTypeOK, ResetGenerations
  <2>4. admitted = [q \in DOMAIN admitted |-> admitted[q]]
    BY DEF ResetInit
  <2> QED
    BY <2>1, <2>2, <2>3, <2>4 DEF ResetInit, ResetInv, NoWorkAcrossReset
<1>2. ResetInv /\ [ResetNext]_resetVars => ResetInv'
  BY ResetPreserved
<1>3. ResetInv => NoWorkAcrossReset
  BY DEF ResetInv
<1> QED
  BY <1>1, <1>2, <1>3, PTL DEF ResetSpec

-----------------------------------------------------------------------------
(***************************************************************************)
(* Workspaces.                                                             *)
(***************************************************************************)

Project == [name : Names, tenant : Tenants, generation : Nat \ {0}]
ArchivedTenants == [project : Projects, tenant : Tenants, generation : Nat]

\* A tenant is named after an operation that was carried out.
Known(t) == t = FirstOp \/ t \in DOMAIN done

\* The tenants of the projects are distinct, and none of them is archived.
ProjectsSound ==
    /\ projects \in [Projects -> {NoProject} \cup Project]
    /\ \A k \in Projects : projects[k] # NoProject => Known(projects[k].tenant)
    /\ \A j, k \in Projects :
          projects[j] # NoProject /\ projects[k] # NoProject
             /\ projects[j].tenant = projects[k].tenant => j = k

ArchiveSound ==
    /\ archive \subseteq ArchivedTenants
    /\ \A a \in archive :
          /\ Known(a.tenant) /\ projects[a.project] # NoProject
          /\ \A k \in Projects : projects[k] # NoProject => projects[k].tenant # a.tenant
    /\ \A k \in Projects : projects[k] # NoProject =>
          {a.generation : a \in {a \in archive : a.project = k}} = 1..(projects[k].generation - 1)

\* The change whose tenant is being prepared was checked against what is still
\* there: its project did not move, and nobody writes to the tenant it replaces.
ChangeSound ==
    change # NoChange =>
        /\ change.op \in OpIds \ DOMAIN done
        /\ change.project \in Projects
        /\ change.next \in Project /\ change.next.tenant = change.op
        /\ \/ /\ change.kind = "create" /\ projects[change.project] = NoProject
              /\ change.next.generation = 1
           \/ /\ change.kind = "reset" /\ projects[change.project] # NoProject
              /\ change.next.generation = projects[change.project].generation + 1
              /\ writers[projects[change.project].tenant] = 0

Writing(t) == {j \in Jobs : job[j].at = "inside" /\ job[j].write /\ job[j].tenant = t}

JobStates == [at : {"none", "inside", "answered", "refused"}, tenant : Tenants, write : BOOLEAN]

\* The counts are those of the jobs, and nobody writes to an archived tenant.
JobsSound ==
    /\ job \in [Jobs -> JobStates] /\ writers \in [Tenants -> Nat]
    /\ \A t \in Tenants : writers[t] = Cardinality(Writing(t))
    /\ \A a \in archive : Writing(a.tenant) = {}

WorkspaceInv ==
    /\ ProjectsSound /\ ArchiveSound /\ ChangeSound /\ JobsSound
    /\ DOMAIN done \subseteq OpIds /\ sessions \subseteq Tenants /\ crashes \in 0..MaxCrashes

LEMMA NobodyIsWriting ==
  ASSUME JobsSound, NEW t \in Tenants, writers[t] = 0
  PROVE  Writing(t) = {}
<1>1. PICK W : W = Writing(t)
  OBVIOUS
<1>2. IsFiniteSet(W) /\ Cardinality(W) = 0
  BY <1>1, WorkspaceAssumption, FS_Subset DEF Writing, JobsSound
<1> QED
  BY <1>1, <1>2, FS_EmptySet

\* The counts after one job began or ended.
LEMMA WritersCounted ==
  ASSUME JobsSound, NEW j \in Jobs, job' \in [Jobs -> JobStates],
         \A i \in Jobs \ {j} : job'[i] = job[i],
         NEW t \in Tenants, NEW n, n = writers'[t],
         \/ (j \in Writing(t) <=> j \in Writing(t)') /\ n = writers[t]
         \/ j \in Writing(t) /\ j \notin Writing(t)' /\ n = writers[t] - 1
         \/ j \notin Writing(t) /\ j \in Writing(t)' /\ n = writers[t] + 1
  PROVE  n \in Nat /\ n = Cardinality(Writing(t)')
<1>1. PICK old : old = Writing(t)
  OBVIOUS
<1>2. PICK new : new = Writing(t)'
  OBVIOUS
<1>3. IsFiniteSet(old)
  BY <1>1, WorkspaceAssumption, FS_Subset DEF Writing
<1>4. old \ {j} = new \ {j}
  BY <1>1, <1>2 DEF Writing
<1>5. PICK c, d \in Nat : c = Cardinality(old) /\ d = Cardinality(new)
  BY <1>3, <1>4, OneMember
<1>6. /\ j \in old /\ j \in new => d = c
      /\ j \notin old /\ j \notin new => d = c
      /\ j \in old /\ j \notin new => d = c - 1
      /\ j \notin old /\ j \in new => d = c + 1
  BY <1>3, <1>4, <1>5, OneMember
<1>7. writers[t] = c
  BY <1>1, <1>5 DEF JobsSound
<1>8. \/ (j \in old <=> j \in new) /\ n = writers[t]
      \/ j \in old /\ j \notin new /\ n = writers[t] - 1
      \/ j \notin old /\ j \in new /\ n = writers[t] + 1
  BY <1>1, <1>2
<1>9. n = d
  BY <1>6, <1>7, <1>8
<1> QED
  BY <1>2, <1>5, <1>9

LEMMA BeginPreserves ==
  ASSUME WorkspaceInv, ChangeSound',
         UNCHANGED <<projects, archive, done, sessions, job, writers, crashes>>
  PROVE  WorkspaceInv'
BY DEF WorkspaceInv, ProjectsSound, ArchiveSound, JobsSound, Known, Writing

LEMMA SavePreserves ==
  ASSUME WorkspaceInv, SaveChange
  PROVE  WorkspaceInv'
<1>1. PICK k, o, next, sort :
         k = change.project /\ o = change.op /\ next = change.next /\ sort = change.kind
  OBVIOUS
<1>2. /\ change # NoChange
      /\ projects' = [projects EXCEPT ![k] = next]
      /\ archive' = IF sort = "create" THEN archive
                    ELSE archive \cup {[project |-> k, tenant |-> projects[k].tenant,
                                        generation |-> projects[k].generation]}
      /\ DOMAIN done' = DOMAIN done \cup {o}
      /\ sessions' = sessions \cup {next.tenant}
      /\ change' = NoChange
      /\ UNCHANGED <<job, writers, crashes>>
  BY <1>1 DEF SaveChange
<1>3. /\ o \in OpIds \ DOMAIN done /\ k \in Projects /\ next \in Project /\ next.tenant = o
      /\ \/ sort = "create" /\ projects[k] = NoProject /\ next.generation = 1
         \/ /\ sort = "reset" /\ projects[k] # NoProject
            /\ next.generation = projects[k].generation + 1
            /\ writers[projects[k].tenant] = 0
  BY <1>1, <1>2 DEF WorkspaceInv, ChangeSound
<1>4. next # NoProject
  BY <1>3 DEF Project, NoProject
<1>5. ASSUME NEW t, Known(t)
      PROVE  Known(t)' /\ t # o
  BY <1>2, <1>3, <1>5, WorkspaceAssumption DEF Known
<1>6. Known(o)'
  BY <1>2 DEF Known
<1>7. ProjectsSound'
  <2>1. projects' \in [Projects -> {NoProject} \cup Project]
    BY <1>2, <1>3 DEF WorkspaceInv, ProjectsSound
  <2>2. ASSUME NEW j \in Projects, projects'[j] # NoProject
        PROVE  /\ Known(projects[j].tenant)'
               /\ j # k => projects'[j] = projects[j] /\ projects'[j].tenant # o
               /\ j = k => projects'[j].tenant = o
    <3>1. projects'[j] = IF j = k THEN next ELSE projects[j]
      BY <1>2 DEF WorkspaceInv, ProjectsSound
    <3>2. PICK t : t = projects'[j].tenant
      OBVIOUS
    <3>3. CASE j = k
      BY <1>2, <1>3, <3>1, <3>3 DEF Known
    <3>4. CASE j # k
      <4>1. Known(t)
        BY <2>2, <3>1, <3>2, <3>4 DEF WorkspaceInv, ProjectsSound
      <4>2. Known(t)' /\ t # o
        BY <1>5, <4>1
      <4> QED
        BY <3>1, <3>2, <3>4, <4>2 DEF Known
    <3> QED
      BY <3>3, <3>4
  <2>3. ASSUME NEW i \in Projects, NEW j \in Projects, projects'[i] # NoProject,
               projects'[j] # NoProject, projects'[i].tenant = projects'[j].tenant
        PROVE  i = j
    BY <2>2, <2>3 DEF WorkspaceInv, ProjectsSound
  <2> QED
    BY <2>1, <2>2, <2>3 DEF ProjectsSound, Known
<1>8. \A j \in Projects : projects[j] # NoProject => projects[j] \in Project
  BY DEF WorkspaceInv, ProjectsSound
<1>9. CASE sort = "create"
  <2>1. /\ archive' = archive /\ projects[k] = NoProject /\ next.generation = 1
    BY <1>2, <1>3, <1>9
  <2>2. ArchiveSound'
    <3>1. ASSUME NEW a \in archive
          PROVE  /\ a \in ArchivedTenants /\ Known(a.tenant)' /\ projects'[a.project] # NoProject
                 /\ a.project # k /\ a.tenant # o
                 /\ \A j \in Projects : projects'[j] # NoProject =>
                       projects'[j].tenant # a.tenant
      BY <1>2, <1>3, <1>4, <1>5, <2>1 DEF WorkspaceInv, ArchiveSound, ProjectsSound, ArchivedTenants
    <3>2. ASSUME NEW j \in Projects, projects'[j] # NoProject
          PROVE  {a.generation : a \in {a \in archive : a.project = j}}
                     = 1..(projects'[j].generation - 1)
      <4>1. CASE j = k
        <5>1. {a \in archive : a.project = j} = {}
          BY <3>1, <4>1
        <5>2. projects'[j].generation = 1
          BY <1>2, <1>3, <2>1, <4>1 DEF WorkspaceInv, ProjectsSound
        <5> QED
          BY <5>1, <5>2
      <4>2. CASE j # k
        BY <1>2, <3>2, <4>2 DEF WorkspaceInv, ArchiveSound, ProjectsSound
      <4> QED
        BY <4>1, <4>2
    <3> QED
      BY <2>1, <3>1, <3>2 DEF ArchiveSound
  <2>3. JobsSound'
    BY <1>2, <2>1 DEF WorkspaceInv, JobsSound, Writing
  <2> QED
    BY <1>2, <1>3, <1>7, <2>2, <2>3 DEF WorkspaceInv, ChangeSound, Tenants, Project
<1>10. CASE sort # "create"
  <2>1. PICK old : old = [project |-> k, tenant |-> projects[k].tenant,
                          generation |-> projects[k].generation]
    OBVIOUS
  <2>2. /\ archive' = archive \cup {old} /\ projects[k] # NoProject
        /\ next.generation = projects[k].generation + 1
        /\ writers[projects[k].tenant] = 0
    BY <1>2, <1>3, <1>10, <2>1
  <2>3. /\ projects[k] \in Project /\ old \in ArchivedTenants
        /\ old.project = k /\ old.tenant = projects[k].tenant
        /\ old.generation = projects[k].generation
    BY <1>3, <1>8, <2>1, <2>2 DEF Project, ArchivedTenants
  <2>4. ASSUME NEW a \in archive
        PROVE  /\ a \in ArchivedTenants /\ Known(a.tenant) /\ projects[a.project] # NoProject
               /\ \A j \in Projects : projects[j] # NoProject => projects[j].tenant # a.tenant
    BY DEF WorkspaceInv, ArchiveSound
  <2>5. Known(old.tenant)
    BY <1>3, <2>2, <2>3 DEF WorkspaceInv, ProjectsSound
  <2>6. ASSUME NEW j \in Projects
        PROVE  /\ projects'[j] = IF j = k THEN next ELSE projects[j]
    BY <1>2 DEF WorkspaceInv, ProjectsSound
  <2>7. ASSUME NEW a \in archive'
        PROVE  /\ a \in ArchivedTenants /\ Known(a.tenant)' /\ projects'[a.project] # NoProject
               /\ \A j \in Projects : projects'[j] # NoProject => projects'[j].tenant # a.tenant
    <3>1. Known(a.tenant) /\ a \in ArchivedTenants
      BY <2>2, <2>3, <2>4, <2>5
    <3>2. Known(a.tenant)' /\ a.tenant # o
      BY <1>5, <3>1
    <3>3. projects'[a.project] # NoProject
      BY <1>4, <2>2, <2>3, <2>4, <2>6 DEF ArchivedTenants
    <3>4. ASSUME NEW j \in Projects, projects'[j] # NoProject
          PROVE  projects'[j].tenant # a.tenant
      <4>1. CASE j = k
        BY <1>3, <2>6, <3>2, <4>1
      <4>2. CASE j # k
        <5>1. projects'[j] = projects[j] /\ projects[j].tenant # old.tenant
          BY <1>3, <2>2, <2>3, <2>6, <3>4, <4>2 DEF WorkspaceInv, ProjectsSound
        <5> QED
          BY <2>2, <2>4, <3>4, <5>1
      <4> QED
        BY <4>1, <4>2
    <3> QED
      BY <3>1, <3>2, <3>3, <3>4
  <2>8. ASSUME NEW j \in Projects, projects'[j] # NoProject
        PROVE  {a.generation : a \in {a \in archive' : a.project = j}}
                   = 1..(projects'[j].generation - 1)
    <3>1. CASE j = k
      <4>1. {a.generation : a \in {a \in archive : a.project = k}} =
               1..(projects[k].generation - 1)
        BY <1>3, <2>2 DEF WorkspaceInv, ArchiveSound
      <4>2. {a \in archive' : a.project = j} = {a \in archive : a.project = k} \cup {old}
        BY <2>2, <2>3, <3>1
      <4>3. PICK g \in Nat \ {0} : g = projects[k].generation
        BY <2>3 DEF Project
      <4>4. {a.generation : a \in {a \in archive' : a.project = j}} = 1..(g - 1) \cup {g}
        BY <2>3, <4>1, <4>2, <4>3
      <4>5. projects'[j].generation = g + 1
        BY <2>2, <2>6, <3>1, <4>3
      <4> QED
        BY <4>4, <4>5
    <3>2. CASE j # k
      <4>1. {a \in archive' : a.project = j} = {a \in archive : a.project = j}
        BY <2>2, <2>3, <3>2
      <4> QED
        BY <2>6, <2>8, <3>2, <4>1 DEF WorkspaceInv, ArchiveSound
    <3> QED
      BY <3>1, <3>2
  <2>9. ArchiveSound'
    BY <2>7, <2>8 DEF ArchiveSound
  <2>10. JobsSound'
    <3>1. Writing(old.tenant) = {}
      BY <2>2, <2>3, NobodyIsWriting DEF WorkspaceInv, Project
    <3>2. \A t : Writing(t)' = Writing(t)
      BY <1>2 DEF Writing
    <3> QED
      BY <1>2, <2>2, <3>1, <3>2 DEF WorkspaceInv, JobsSound
  <2> QED
    BY <1>2, <1>3, <1>7, <2>9, <2>10 DEF WorkspaceInv, ChangeSound, Tenants, Project
<1> QED
  BY <1>9, <1>10

LEMMA JobPreserves ==
  ASSUME WorkspaceInv, change = NoChange,
         UNCHANGED <<projects, archive, done, change, sessions, crashes>>,
         NEW j \in Jobs, job' \in [Jobs -> JobStates],
         \A i \in Jobs \ {j} : job'[i] = job[i],
         writers' = [t \in Tenants |-> writers'[t]],
         \A t \in Tenants :
            \/ (j \in Writing(t) <=> j \in Writing(t)') /\ writers'[t] = writers[t]
            \/ j \in Writing(t) /\ j \notin Writing(t)' /\ writers'[t] = writers[t] - 1
            \/ j \notin Writing(t) /\ j \in Writing(t)' /\ writers'[t] = writers[t] + 1,
         \A a \in archive : j \notin Writing(a.tenant)'
  PROVE  WorkspaceInv'
<1>1. JobsSound
  BY DEF WorkspaceInv
<1>2. ASSUME NEW t \in Tenants
      PROVE  writers'[t] \in Nat /\ writers'[t] = Cardinality(Writing(t)')
  <2>1. PICK n : n = writers'[t]
    OBVIOUS
  <2> QED
    BY <1>1, <2>1, WritersCounted
<1>3. ASSUME NEW a \in archive
      PROVE  Writing(a.tenant)' = {}
  BY <1>1 DEF JobsSound, Writing
<1>4. writers' \in [Tenants -> Nat]
  BY <1>2
<1>5. JobsSound'
  BY <1>2, <1>3, <1>4 DEF JobsSound
<1> QED
  BY <1>5 DEF WorkspaceInv, ProjectsSound, ArchiveSound, ChangeSound, Known

LEMMA WorkspacePreserved ==
  ASSUME WorkspaceInv, [WorkspaceNext]_workspaceVars
  PROVE  WorkspaceInv'
<1>1. /\ ProjectsSound /\ ArchiveSound /\ ChangeSound /\ JobsSound
      /\ DOMAIN done \subseteq OpIds /\ sessions \subseteq Tenants
  BY DEF WorkspaceInv
<1>2. ASSUME NEW t \in Tenants, NEW k \in Projects, NEW o \in OpIds, NEW n \in Names,
             BeginCreate(t, k, o, n)
      PROVE  WorkspaceInv'
  <2>1. PICK next : next = [name |-> n, tenant |-> o, generation |-> 1]
    OBVIOUS
  <2>2. next \in Project /\ next.tenant = o /\ next.generation = 1
    BY <2>1 DEF Project, Tenants
  <2>3. /\ change' = [op |-> o, kind |-> "create", project |-> k, next |-> next]
        /\ o \notin DOMAIN done /\ projects[k] = NoProject
        /\ UNCHANGED <<projects, archive, done, sessions, job, writers, crashes>>
    BY <1>2, <2>1 DEF BeginCreate, Answered
  <2>4. ChangeSound'
    BY <2>2, <2>3 DEF ChangeSound
  <2> QED
    BY <2>3, <2>4, BeginPreserves
<1>3. ASSUME NEW t \in Tenants, NEW k \in Projects, NEW o \in OpIds, NEW expected,
             BeginReset(t, k, o, expected)
      PROVE  WorkspaceInv'
  <2>1. PICK old : old = projects[k]
    OBVIOUS
  <2>2. PICK next : next = [old EXCEPT !.tenant = o, !.generation = @ + 1]
    OBVIOUS
  <2>3. old # NoProject
    <3>1. old.tenant = t
      BY <1>3, <2>1 DEF BeginReset
    <3> QED
      BY <3>1, WorkspaceAssumption DEF NoProject, Tenants
  <2>4. old \in Project
    BY <1>1, <2>1, <2>3 DEF ProjectsSound
  <2>5. /\ next \in Project /\ next.tenant = o /\ next.generation = old.generation + 1
    <3>1. PICK g : g = old.generation + 1
      OBVIOUS
    <3>2. g \in Nat \ {0}
      BY <2>4, <3>1 DEF Project
    <3>3. next = [name |-> old.name, tenant |-> o, generation |-> g]
      BY <2>2, <2>4, <3>1 DEF Project
    <3> QED
      BY <2>4, <3>1, <3>2, <3>3 DEF Project, Tenants
  <2>6. /\ change' = [op |-> o, kind |-> "reset", project |-> k, next |-> next]
        /\ o \notin DOMAIN done /\ writers[old.tenant] = 0
        /\ UNCHANGED <<projects, archive, done, sessions, job, writers, crashes>>
    BY <1>3, <2>1, <2>2 DEF BeginReset, Answered, NobodyWrites
  <2>7. ChangeSound'
    BY <2>1, <2>3, <2>5, <2>6 DEF ChangeSound
  <2> QED
    BY <2>6, <2>7, BeginPreserves
<1>4. CASE FailChange
  <2>1. ChangeSound'
    BY <1>4 DEF FailChange, ChangeSound
  <2> QED
    BY <1>4, <2>1, BeginPreserves DEF FailChange
<1>5. CASE Die
  <2>1. /\ crashes < MaxCrashes /\ crashes' = crashes + 1 /\ change' = NoChange
        /\ writers' = [t \in Tenants |-> 0]
        /\ job' = [j \in Jobs |-> IF job[j].at = "inside" THEN [job[j] EXCEPT !.at = "refused"]
                                  ELSE job[j]]
        /\ UNCHANGED <<projects, archive, done, sessions>>
    BY <1>5 DEF Die
  <2>2. ASSUME NEW j \in Jobs
        PROVE  job'[j] \in JobStates /\ job'[j].at # "inside"
    BY <1>1, <2>1 DEF JobsSound, JobStates
  <2>3. \A t : Writing(t)' = {}
    BY <2>2 DEF Writing
  <2>4. job' \in [Jobs -> JobStates]
    BY <2>1, <2>2
  <2>5. JobsSound'
    BY <2>1, <2>3, <2>4, FS_EmptySet DEF JobsSound
  <2>6. crashes' \in 0..MaxCrashes
    BY <2>1, WorkspaceAssumption DEF WorkspaceInv
  <2> QED
    BY <1>1, <2>1, <2>5, <2>6 DEF WorkspaceInv, ProjectsSound, ArchiveSound, ChangeSound, Known
<1>6. ASSUME NEW j \in Jobs, EndJob(j)
      PROVE  WorkspaceInv'
  <2>1. PICK end : end = IF job[j].tenant \in Active THEN "answered" ELSE "refused"
    OBVIOUS
  <2>2. PICK u, w : u = job[j].tenant /\ w = job[j].write
    OBVIOUS
  <2>3. /\ change = NoChange /\ job[j].at = "inside"
        /\ job' = [job EXCEPT ![j].at = end]
        /\ writers' = [writers EXCEPT ![u] = IF w THEN @ - 1 ELSE @]
        /\ UNCHANGED <<projects, archive, done, change, sessions, crashes>>
    BY <1>6, <2>1, <2>2 DEF EndJob
  <2>4. end \in {"answered", "refused"}
    BY <2>1
  <2>5. /\ job' \in [Jobs -> JobStates] /\ job'[j].at # "inside"
        /\ \A i \in Jobs \ {j} : job'[i] = job[i]
    BY <1>1, <2>3, <2>4 DEF JobsSound, JobStates
  <2>6. writers' = [t \in Tenants |-> writers'[t]]
    BY <1>1, <2>3 DEF JobsSound
  <2>7. ASSUME NEW t
        PROVE  /\ j \notin Writing(t)'
               /\ j \in Writing(t) <=> w /\ t = u
    BY <2>2, <2>3, <2>5 DEF Writing
  <2>8. ASSUME NEW t \in Tenants
        PROVE  writers'[t] = IF w /\ t = u THEN writers[t] - 1 ELSE writers[t]
    BY <1>1, <2>3 DEF JobsSound
  <2> QED
    BY <2>3, <2>5, <2>6, <2>7, <2>8, JobPreserves
<1>7. ASSUME NEW j \in Jobs, NEW u \in Tenants, NEW w \in BOOLEAN, BeginJob(j, u, w)
      PROVE  WorkspaceInv'
  <2>1. /\ change = NoChange /\ job[j].at = "none"
        /\ UNCHANGED <<projects, archive, done, change, sessions, crashes>>
    BY <1>7 DEF BeginJob
  <2>2. \A t : j \notin Writing(t)
    BY <2>1 DEF Writing
  <2>3. CASE u \in Active
    <3>1. PICK new : new = [at |-> "inside", tenant |-> u, write |-> w]
      OBVIOUS
    <3>2. job' = [job EXCEPT ![j] = new]
          /\ writers' = [writers EXCEPT ![u] = IF w THEN @ + 1 ELSE @]
      BY <1>7, <2>3, <3>1 DEF BeginJob
    <3>3. new \in JobStates /\ new.at = "inside" /\ new.tenant = u /\ new.write = w
      BY <3>1 DEF JobStates
    <3>4. /\ job' \in [Jobs -> JobStates] /\ job'[j] = new
          /\ \A i \in Jobs \ {j} : job'[i] = job[i]
      BY <1>1, <3>2, <3>3 DEF JobsSound
    <3>5. writers' = [t \in Tenants |-> writers'[t]]
      BY <1>1, <3>2 DEF JobsSound
    <3>6. ASSUME NEW t
          PROVE  j \in Writing(t)' <=> w /\ t = u
      BY <3>3, <3>4 DEF Writing
    <3>7. ASSUME NEW t \in Tenants
          PROVE  writers'[t] = IF w /\ t = u THEN writers[t] + 1 ELSE writers[t]
      BY <1>1, <3>2 DEF JobsSound
    <3>8. \A a \in archive : a.tenant # u
      BY <1>1, <2>3 DEF Active, ArchiveSound
    <3> QED
      BY <2>1, <2>2, <3>4, <3>5, <3>6, <3>7, <3>8, JobPreserves
  <2>4. CASE u \notin Active
    <3>1. PICK new : new = [at |-> "refused", tenant |-> u, write |-> w]
      OBVIOUS
    <3>2. job' = [job EXCEPT ![j] = new] /\ UNCHANGED writers
      BY <1>7, <2>4, <3>1 DEF BeginJob
    <3>3. new \in JobStates /\ new.at = "refused"
      BY <3>1 DEF JobStates
    <3>4. /\ job' \in [Jobs -> JobStates] /\ job'[j] = new
          /\ \A i \in Jobs \ {j} : job'[i] = job[i]
      BY <1>1, <3>2, <3>3 DEF JobsSound
    <3>5. writers' = [t \in Tenants |-> writers'[t]]
      BY <1>1, <3>2 DEF JobsSound
    <3>6. \A t : j \notin Writing(t)'
      BY <3>3, <3>4 DEF Writing
    <3> QED
      BY <2>1, <2>2, <3>2, <3>4, <3>5, <3>6, JobPreserves
  <2> QED
    BY <2>3, <2>4
<1>8. CASE UNCHANGED workspaceVars
  BY <1>8 DEF workspaceVars, WorkspaceInv, ProjectsSound, ArchiveSound, ChangeSound, JobsSound,
             Known, Writing
<1> QED
  BY <1>2, <1>3, <1>4, <1>5, <1>6, <1>7, <1>8, SavePreserves DEF WorkspaceNext

LEMMA WorkspaceStarts ==
  ASSUME WorkspaceInit
  PROVE  WorkspaceInv
<1>1. PICK k \in Projects, n \in Names :
         projects = [j \in Projects |->
             IF j = k THEN [name |-> n, tenant |-> FirstOp, generation |-> 1] ELSE NoProject]
  BY DEF WorkspaceInit
<1>2. PICK first : first = [name |-> n, tenant |-> FirstOp, generation |-> 1]
  OBVIOUS
<1>3. first \in Project /\ first.tenant = FirstOp /\ first.generation = 1
  BY <1>2 DEF Project, Tenants
<1>4. projects = [j \in Projects |-> IF j = k THEN first ELSE NoProject]
  BY <1>1, <1>2
<1>5. /\ archive = {} /\ DOMAIN done = {} /\ change = NoChange /\ sessions = {FirstOp}
      /\ job = [j \in Jobs |-> NoJob] /\ writers = [t \in Tenants |-> 0] /\ crashes = 0
  BY DEF WorkspaceInit
<1>6. ProjectsSound
  BY <1>3, <1>4 DEF ProjectsSound, Known
<1>7. ArchiveSound
  <2>1. ASSUME NEW j \in Projects, projects[j] # NoProject
        PROVE  {a.generation : a \in {a \in archive : a.project = j}}
                   = 1..(projects[j].generation - 1)
    BY <1>3, <1>4, <1>5, <2>1
  <2> QED
    BY <1>5, <2>1 DEF ArchiveSound
<1>8. JobsSound
  <2>1. \A t : Writing(t) = {}
    BY <1>5 DEF Writing, NoJob
  <2>2. NoJob \in JobStates
    BY DEF NoJob, JobStates, Tenants
  <2> QED
    BY <1>5, <2>1, <2>2, FS_EmptySet DEF JobsSound
<1> QED
  BY <1>5, <1>6, <1>7, <1>8, WorkspaceAssumption DEF WorkspaceInv, ChangeSound, Tenants

\* A tenant that was archived is nobody's again and nothing writes to it, and
\* each generation is archived once, for any projects, operation ids and jobs.
THEOREM ArchivedStaysClosed == WorkspaceSpec => []ArchivedIsClosed
<1>1. WorkspaceInv => ArchivedIsClosed
  <2> SUFFICES ASSUME WorkspaceInv PROVE ArchivedIsClosed
    OBVIOUS
  <2>1. /\ ProjectsSound /\ ArchiveSound /\ JobsSound
    BY DEF WorkspaceInv
  <2>2. WorkspaceTypeOK
    <3>1. projects \in [Projects ->
              {NoProject} \cup [name : Names, tenant : Tenants, generation : Nat]]
      BY <2>1 DEF ProjectsSound, Project
    <3>2. \A a \in archive : a \in [project : Projects, tenant : Tenants, generation : Nat]
      BY <2>1 DEF ArchiveSound, ArchivedTenants
    <3> QED
      BY <2>1, <3>1, <3>2 DEF WorkspaceTypeOK, WorkspaceInv, JobsSound, JobStates
  <2>3. ASSUME NEW a \in archive
        PROVE  /\ a.tenant \notin Active
               /\ \A j \in Jobs :
                     ~(job[j].at = "inside" /\ job[j].write /\ job[j].tenant = a.tenant)
    BY <2>1 DEF ArchiveSound, JobsSound, Writing, Active
  <2> QED
    BY <2>1, <2>2, <2>3 DEF ArchivedIsClosed, ArchiveSound
<1>2. WorkspaceInit => WorkspaceInv
  BY WorkspaceStarts
<1>3. WorkspaceInv /\ [WorkspaceNext]_workspaceVars => WorkspaceInv'
  BY WorkspacePreserved
<1> QED
  BY <1>1, <1>2, <1>3, PTL DEF WorkspaceSpec

-----------------------------------------------------------------------------
(***************************************************************************)
(* T-Box versions.                                                         *)
(***************************************************************************)

\* A version has a definition as soon as it exists.
OntologyInv ==
    /\ CatalogAgrees
    /\ \A v \in TBoxes : tbox[v].status = "ABSENT" <=> tbox[v].definition = NoDefinition

StoredVersions == [status : {"ABSENT", "DRAFT", "PUBLISHED", "RETIRED"},
              definition : Definitions \cup {NoDefinition}]

LEMMA SourceTyped ==
  ASSUME OntologyInv, NEW v \in TBoxes, NEW definition \in Definitions,
         NEW file \in Files \cup {NoFile}, WriteSource(v, file, definition)
  PROVE  sources' \in [TBoxes -> SUBSET Sources]
<1>1. SourceOf(file, definition) \subseteq Sources
  BY DEF SourceOf, Sources
<1> QED
  BY <1>1 DEF WriteSource, OntologyInv, CatalogAgrees, OntologyTypeOK

\* The version v, a draft, is published with the nodes of its definition.
LEMMA PublishedAgrees ==
  ASSUME OntologyInv, NEW v \in TBoxes, NEW definition \in Definitions,
         sources' \in [TBoxes -> SUBSET Sources],
         tbox[v].status \in {"ABSENT", "DRAFT"}, activeTBox # NoTBox => v > activeTBox,
         tbox' = Published(v, definition), activeTBox' = v,
         IF tbox[v].definition = definition THEN UNCHANGED declared
                                            ELSE Declare(v, definition)
  PROVE  OntologyInv'
<1>1. /\ tbox \in [TBoxes -> StoredVersions] /\ declared \in [TBoxes -> SUBSET Definitions]
      /\ activeTBox \in TBoxes \cup {NoTBox}
  BY DEF OntologyInv, CatalogAgrees, OntologyTypeOK, StoredVersions
<1>2. ASSUME NEW u \in TBoxes
      PROVE  /\ tbox'[u] \in StoredVersions
             /\ tbox'[u].status = IF u = v THEN "PUBLISHED"
                                  ELSE IF u = activeTBox THEN "RETIRED" ELSE tbox[u].status
             /\ tbox'[u].definition = IF u = v THEN definition ELSE tbox[u].definition
  BY <1>1 DEF Published, StoredVersions
<1>3. declared' \in [TBoxes -> SUBSET Definitions]
      /\ declared'[v] = {definition}
      /\ \A u \in TBoxes \ {v} : declared'[u] = declared[u]
  <2>1. CASE tbox[v].definition = definition
    BY <1>1, <2>1, OntologyAssumption DEF OntologyInv, CatalogAgrees
  <2>2. CASE tbox[v].definition # definition
    BY <1>1, <2>2 DEF Declare
  <2> QED
    BY <2>1, <2>2
<1>4. tbox' \in [TBoxes -> StoredVersions]
  BY <1>2 DEF Published
<1>5. OntologyTypeOK'
  BY <1>3, <1>4 DEF OntologyTypeOK, StoredVersions
<1>6. ASSUME NEW u \in TBoxes
      PROVE  /\ tbox'[u].status = "PUBLISHED" <=> u = v
             /\ declared'[u] = {tbox'[u].definition} \ {NoDefinition}
             /\ tbox'[u].status = "ABSENT" <=> tbox'[u].definition = NoDefinition
  <2>1. /\ tbox[u].status = "PUBLISHED" <=> activeTBox = u
        /\ declared[u] = {tbox[u].definition} \ {NoDefinition}
        /\ tbox[u].status = "ABSENT" <=> tbox[u].definition = NoDefinition
    BY DEF OntologyInv, CatalogAgrees
  <2> QED
    BY <1>2, <1>3, <2>1, OntologyAssumption
<1>7. ASSUME NEW u \in TBoxes, tbox'[u].status = "RETIRED"
      PROVE  v # NoTBox /\ u < v
  <2>1. u # v /\ (u = activeTBox \/ tbox[u].status = "RETIRED")
    BY <1>2, <1>7
  <2>2. activeTBox # NoTBox /\ u <= activeTBox /\ activeTBox \in TBoxes
    BY <1>1, <2>1, OntologyAssumption DEF OntologyInv, CatalogAgrees
  <2> QED
    BY <2>2, OntologyAssumption
<1> QED
  BY <1>5, <1>6, <1>7 DEF OntologyInv, CatalogAgrees

LEMMA OntologyPreserved ==
  ASSUME OntologyInv, [OntologyNext]_ontologyVars
  PROVE  OntologyInv'
<1>1. /\ tbox \in [TBoxes -> StoredVersions] /\ declared \in [TBoxes -> SUBSET Definitions]
      /\ sources \in [TBoxes -> SUBSET Sources] /\ activeTBox \in TBoxes \cup {NoTBox}
  BY DEF OntologyInv, CatalogAgrees, OntologyTypeOK, StoredVersions
<1>2. ASSUME UNCHANGED <<tbox, declared, activeTBox>>,
             sources' \in [TBoxes -> SUBSET Sources]
      PROVE  OntologyInv'
  BY <1>2 DEF OntologyInv, CatalogAgrees, OntologyTypeOK
<1>3. ASSUME NEW v \in TBoxes, NEW expected, Publish(v, expected)
      PROVE  OntologyInv'
  <2>1. PICK definition : definition = tbox[v].definition
    OBVIOUS
  <2>2. tbox[v].status = "DRAFT"
    BY <1>3 DEF Publish, MayPublish
  <2>3. definition \in Definitions
    BY <1>1, <2>1, <2>2 DEF OntologyInv, StoredVersions
  <2> QED
    BY <1>1, <1>3, <2>1, <2>2, <2>3, PublishedAgrees DEF Publish, MayPublish
<1>4. ASSUME NEW v \in TBoxes, NEW definition \in Definitions,
             NEW file \in Files \cup {NoFile}, ReplayImport(v, definition, file)
      PROVE  OntologyInv'
  BY <1>2, <1>4, SourceTyped DEF ReplayImport
<1>5. ASSUME NEW v \in TBoxes, NEW definition \in Definitions, NEW expected,
             NEW file \in Files \cup {NoFile}, ImportVersion(v, definition, expected, file)
      PROVE  OntologyInv'
  <2>1. /\ tbox[v].status \in {"ABSENT", "DRAFT"}
        /\ tbox' = [tbox EXCEPT ![v] = [status |-> "DRAFT", definition |-> definition]]
        /\ declared' = [declared EXCEPT ![v] = {definition}]
        /\ WriteSource(v, file, definition) /\ UNCHANGED activeTBox
    BY <1>5 DEF ImportVersion, MayImport, Declare
  <2>2. sources' \in [TBoxes -> SUBSET Sources]
    BY <2>1, SourceTyped
  <2>3. OntologyTypeOK'
    BY <1>1, <2>1, <2>2 DEF OntologyTypeOK, StoredVersions
  <2> QED
    BY <1>1, <2>1, <2>3, OntologyAssumption DEF OntologyInv, CatalogAgrees
<1>6. ASSUME NEW v \in TBoxes, NEW definition \in Definitions, NEW expected, NEW active,
             NEW file \in Files \cup {NoFile},
             SaveAndActivate(v, definition, expected, file, active)
      PROVE  OntologyInv'
  <2>1. sources' \in [TBoxes -> SUBSET Sources]
    BY <1>6, SourceTyped DEF SaveAndActivate
  <2>2. CASE activeTBox = v
    BY <1>2, <1>6, <2>1, <2>2 DEF SaveAndActivate
  <2>3. CASE activeTBox # v
    <3>1. /\ tbox[v].status \in {"ABSENT", "DRAFT"}
          /\ activeTBox # NoTBox => v > activeTBox
          /\ tbox' = Published(v, definition) /\ activeTBox' = v
          /\ IF tbox[v].definition = definition THEN UNCHANGED declared
                                                ELSE Declare(v, definition)
      BY <1>6, <2>3 DEF SaveAndActivate, MayPublish, Replay
    <3> QED
      BY <2>1, <3>1, PublishedAgrees
  <2> QED
    BY <2>2, <2>3
<1>7. CASE UNCHANGED ontologyVars
  BY <1>1, <1>2, <1>7 DEF ontologyVars
<1> QED
  BY <1>3, <1>4, <1>5, <1>6, <1>7 DEF OntologyNext

\* For any versions, definitions and files: one version at most is published,
\* the one the catalog points at, older ones are retired, and the nodes of the
\* types are those of the version's definition.
THEOREM CatalogAlwaysAgrees == OntologySpec => []CatalogAgrees
<1>1. OntologyInit => OntologyInv
  BY OntologyAssumption DEF OntologyInit, OntologyInv, CatalogAgrees, OntologyTypeOK, Unsaved
<1>2. OntologyInv /\ [OntologyNext]_ontologyVars => OntologyInv'
  BY OntologyPreserved
<1>3. OntologyInv => CatalogAgrees
  BY DEF OntologyInv
<1> QED
  BY <1>1, <1>2, <1>3, PTL DEF OntologySpec

-----------------------------------------------------------------------------
(***************************************************************************)
(* The initial load.                                                       *)
(***************************************************************************)

\* What OneSnapshotServed says is inductive as soon as the chunks are typed.
BulkInv ==
    /\ OneSnapshotServed
    /\ chunkAccess = [c \in AllPieces |-> chunkAccess[c]]

LEMMA LoadPreserves ==
  ASSUME BulkInv, NEW w \in Loaders, Load(w)
  PROVE  BulkInv'
<1>1. PICK l : l = loading[w]
  OBVIOUS
<1>2. PICK p : p = LoadOf[l]
  OBVIOUS
<1>3. PICK s : s = p.content
  OBVIOUS
<1>4. /\ l # NoLoad /\ shown # s /\ MayLoad(p) /\ Compatible(s)
      /\ mode' = "OFFLINE_INITIAL_LOAD" /\ shown' = s /\ number' = p.number
      /\ built' = [t \in Contents |-> IF t = s THEN "PUBLISHED"
                                      ELSE IF t = shown THEN "RETIRED" ELSE built[t]]
      /\ rows' = RowsAfter(s) /\ searchable' = SearchableAfter(s)
      /\ access' = p.access
      /\ chunkAccess' = [c \in AllPieces |-> IF c \in PiecesOf[s] THEN p.access
                                             ELSE chunkAccess[c]]
      /\ highest' = IF p.number > highest THEN p.number ELSE highest
      /\ Returns(w) \/ KeepsTrying(w)
  BY <1>1, <1>2, <1>3 DEF Load
<1>5. BulkTypeOK /\ OneSnapshotServed
  BY DEF BulkInv, OneSnapshotServed
<1>6. s \in Contents /\ p.number \in Nat
  <2>1. l \in Loads
    BY <1>1, <1>4, <1>5 DEF BulkTypeOK
  <2> QED
    BY <1>2, <1>3, <2>1, BulkAssumption
<1>7. searchable' = PiecesOf[s]
  BY <1>4, <1>5 DEF SearchableAfter, OneSnapshotServed
<1>8. PiecesOf[s] \subseteq AllPieces /\ ArtifactsOf[s] \subseteq AllArtifacts
  BY <1>6 DEF AllPieces, AllArtifacts
<1>9. rows' \subseteq AllArtifacts /\ ArtifactsOf[s] \subseteq rows'
  <2>1. rows' = rows \cup {a \in ArtifactsOf[s] : \A b \in rows : b.id # a.id}
    BY <1>4 DEF RowsAfter
  <2>2. ASSUME NEW a \in ArtifactsOf[s], NEW b \in rows, b.id = a.id
        PROVE  a \in rows
    BY <1>4, <2>2 DEF Compatible
  <2> QED
    BY <1>5, <1>8, <2>1, <2>2 DEF BulkTypeOK
<1>10. loading' \in [Loaders -> Loads \cup {NoLoad}]
  BY <1>4, <1>5 DEF Returns, KeepsTrying, BulkTypeOK
<1>11. built' \in [Contents -> {"ABSENT", "PUBLISHED", "RETIRED"}]
  BY <1>4, <1>5 DEF BulkTypeOK
<1>12. \A t \in Contents : built'[t] = "PUBLISHED" <=> s = t
  BY <1>4, <1>5 DEF OneSnapshotServed
<1>13. number' = highest'
  BY <1>4, <1>5, <1>6 DEF MayLoad, OneSnapshotServed, BulkTypeOK
<1>14. \A c \in searchable' : chunkAccess'[c] = access'
  BY <1>4, <1>7, <1>8
<1>15. BulkTypeOK'
  BY <1>4, <1>6, <1>7, <1>8, <1>9, <1>10, <1>11 DEF BulkTypeOK
<1>16. s # NoContent
  BY <1>6, BulkAssumption
<1>17. chunkAccess' = [c \in AllPieces |-> chunkAccess'[c]]
  BY <1>4
<1> QED
  BY <1>4, <1>7, <1>9, <1>12, <1>13, <1>14, <1>15, <1>16, <1>17 DEF BulkInv, OneSnapshotServed

LEMMA BulkPreserved ==
  ASSUME BulkInv, [BulkNext]_bulkVars
  PROVE  BulkInv'
<1>1. ASSUME mode' \in {"NONE", "OFFLINE_INITIAL_LOAD", "MANAGED_INCREMENTAL"},
             loading' \in [Loaders -> Loads \cup {NoLoad}],
             UNCHANGED <<shown, number, built, searchable, access, chunkAccess, rows, highest>>
      PROVE  BulkInv'
  BY <1>1 DEF BulkInv, OneSnapshotServed, BulkTypeOK
<1>2. /\ mode \in {"NONE", "OFFLINE_INITIAL_LOAD", "MANAGED_INCREMENTAL"}
      /\ loading \in [Loaders -> Loads \cup {NoLoad}]
  BY DEF BulkInv, OneSnapshotServed, BulkTypeOK
<1>3. ASSUME NEW w \in Loaders, NEW l \in Loads, CallLoad(w, l)
      PROVE  BulkInv'
  BY <1>1, <1>2, <1>3 DEF CallLoad
<1>4. ASSUME NEW w \in Loaders, EndLoad(w)
      PROVE  BulkInv'
  BY <1>1, <1>2, <1>4 DEF EndLoad, Returns
<1>5. CASE BecomeManaged
  BY <1>1, <1>2, <1>5 DEF BecomeManaged
<1>6. CASE UNCHANGED bulkVars
  BY <1>1, <1>2, <1>6 DEF bulkVars
<1> QED
  BY <1>3, <1>4, <1>5, <1>6, LoadPreserves DEF BulkNext

\* For any plans and loaders, however often a load is run again: the document
\* serves the newest snapshot that was loaded, all of it and nothing else.
THEOREM LoadsServeOneSnapshot == BulkSpec => []OneSnapshotServed
<1>1. BulkInit => BulkInv
  BY BulkAssumption DEF BulkInit, BulkInv, OneSnapshotServed, BulkTypeOK
<1>2. BulkInv /\ [BulkNext]_bulkVars => BulkInv'
  BY BulkPreserved
<1>3. BulkInv => OneSnapshotServed
  BY DEF BulkInv
<1> QED
  BY <1>1, <1>2, <1>3, PTL DEF BulkSpec

-----------------------------------------------------------------------------
(***************************************************************************)
(* The embedding index.  EmbeddingInv is inductive: AdvanceRevision clears *)
(* the pointer in the step that moves the corpus, Relabel makes the labels *)
(* of a generation the covered chunks in the step that selects it, and in  *)
(* between nothing relabels a generation that is ACTIVE, which is the      *)
(* selected one.                                                           *)
(***************************************************************************)

USE EmbeddingAssumption

LEMMA InitialIndex == EmbeddingInit => EmbeddingInv
  BY DEF EmbeddingInit, EmbeddingInv, EmbeddingTypeOK, IndexIsCorpus, IndexIsCurrent,
         ActiveIsSelected, VersionRemembered, Idle

\* What a change of the corpus leaves: no selected and no ACTIVE generation.
LEMMA Invalidated ==
  ASSUME EmbeddingInv, AdvanceRevision
  PROVE  /\ selected' = NoGeneration
         /\ \A g \in Generations : state'[g] # "ACTIVE"
         /\ state' \in [Generations ->
                         {"ABSENT", "BUILDING", "READY", "ACTIVE", "RETIRED", "STALE"}]
         /\ corpusRev' \in Nat
         /\ UNCHANGED <<sealedAt, lastVersion, call>>
  BY DEF EmbeddingInv, EmbeddingTypeOK, ActiveIsSelected, AdvanceRevision, Invalidate

\* The invariant of a tenant whose index was just invalidated.
LEMMA WithoutIndex ==
  ASSUME EmbeddingTypeOK', selected' = NoGeneration,
         \A g \in Generations : state'[g] # "ACTIVE"
  PROVE  EmbeddingInv'
  BY DEF EmbeddingInv, IndexIsCorpus, IndexIsCurrent, ActiveIsSelected, VersionRemembered

LEMMA IndexStep == EmbeddingInv /\ [EmbeddingNext]_embeddingVars => EmbeddingInv'
<1> SUFFICES ASSUME EmbeddingInv, [EmbeddingNext]_embeddingVars PROVE EmbeddingInv'
  OBVIOUS
<1> USE DEF EmbeddingInv, EmbeddingTypeOK
<1>1. ASSUME NEW next \in SUBSET Chunks, MoveCorpus(next) PROVE EmbeddingInv'
  <2>1. EmbeddingTypeOK'
    BY <1>1, Invalidated DEF MoveCorpus
  <2> QED
    BY <1>1, <2>1, Invalidated, WithoutIndex DEF MoveCorpus
<1>2. ASSUME NEW gone \in SUBSET Chunks, DeleteChunks(gone) PROVE EmbeddingInv'
  <2>1. EmbeddingTypeOK'
    BY <1>2, Invalidated DEF DeleteChunks
  <2> QED
    BY <1>2, <2>1, Invalidated, WithoutIndex DEF DeleteChunks
<1> USE DEF IndexIsCorpus, IndexIsCurrent, ActiveIsSelected, VersionRemembered
<1>3. ASSUME NEW c \in Chunks, NEW space \in Spaces, StageVector(c, space)
      PROVE  EmbeddingInv'
  BY <1>3 DEF StageVector, indexVars
<1>4. ASSUME NEW batch \in SUBSET Chunks, NEW space \in Spaces, Materialize(batch, space)
      PROVE  EmbeddingInv'
  BY <1>4 DEF Materialize, indexVars
<1>5. ASSUME NEW w \in Callers, NEW g \in Generations, EnsureGeneration(w, g)
      PROVE  EmbeddingInv'
  BY <1>5 DEF EnsureGeneration, Idle, corpusVars
<1>6. ASSUME NEW w \in Callers, NEW g \in Generations,
             NEW h \in Generations \cup {NoGeneration}, ReadTarget(w, g, h)
      PROVE  EmbeddingInv'
  BY <1>6 DEF ReadTarget, corpusVars, indexVars
<1>7. ASSUME NEW w \in Callers, FinalizePrepare(w) PROVE EmbeddingInv'
  <2> DEFINE g == call[w].gen
  <2>1. g \in Generations
    BY <1>7 DEF FinalizePrepare
  <2>2. CASE Seals(g)
    <3>1. g # selected
      BY <2>1, <2>2 DEF Seals
    <3>2. Covered(g) \in SUBSET Chunks
      BY DEF Covered
    <3> QED
      BY <1>7, <2>1, <2>2, <3>1, <3>2
      DEF FinalizePrepare, Relabel, Idle, corpusVars
  <2>3. CASE ~Seals(g)
    BY <1>7, <2>1, <2>3 DEF FinalizePrepare, Idle, corpusVars
  <2> QED
    BY <2>2, <2>3
<1>8. ASSUME NEW w \in Callers, Switch(w) PROVE EmbeddingInv'
  <2> DEFINE g == call[w].gen
  <2>1. g \in Generations
    BY <1>8 DEF Switch
  <2>2. CASE selected # g /\ SwitchAllowed(w)
    <3>1. labels' = [labels EXCEPT ![g] = corpus]
      BY <1>8, <2>2 DEF Switch, SwitchAllowed, Relabel
    <3>2. /\ selected' = g
          /\ lastVersion' = VersionOf[g]
          /\ sealedAt' = [sealedAt EXCEPT ![g] = corpusRev]
          /\ state' = [h \in Generations |-> IF h = g THEN "ACTIVE"
                                             ELSE IF h = selected THEN "RETIRED"
                                             ELSE state[h]]
          /\ call' = [call EXCEPT ![w] = Idle]
          /\ UNCHANGED corpusVars
      BY <1>8, <2>2 DEF Switch
    <3> QED
      BY <2>1, <3>1, <3>2 DEF Idle, corpusVars
  <2>3. CASE ~(selected # g /\ SwitchAllowed(w))
    BY <1>8, <2>1, <2>3 DEF Switch, Idle, corpusVars, indexVars
  <2> QED
    BY <2>2, <2>3
<1>9. ASSUME NEW w \in Callers, Abandon(w) PROVE EmbeddingInv'
  BY <1>9 DEF Abandon, Idle, corpusVars, indexVars
<1>10. CASE UNCHANGED embeddingVars
  BY <1>10 DEF embeddingVars, corpusVars, indexVars, Covered
<1> QED
  BY <1>1, <1>2, <1>3, <1>4, <1>5, <1>6, <1>7, <1>8, <1>9, <1>10 DEF EmbeddingNext

-----------------------------------------------------------------------------

(* The whole invariant holds for any generations, chunks, spaces and       *)
(* callers of prepare() and activate().                                    *)
THEOREM IndexInvariance == EmbeddingSpec => []EmbeddingInv
  BY InitialIndex, IndexStep, PTL DEF EmbeddingSpec

(* The selected generation labels the active chunks and nothing else       *)
(* (_activate_tx with _advance_corpus_revision_tx).                        *)
THEOREM IndexCovers == EmbeddingSpec => []IndexIsCorpus
<1>1. EmbeddingInv => IndexIsCorpus
  BY DEF EmbeddingInv
<1> QED
  BY <1>1, IndexInvariance, PTL

(* The selected generation was sealed at the current corpus revision.      *)
THEOREM IndexNeverStale == EmbeddingSpec => []IndexIsCurrent
<1>1. EmbeddingInv => IndexIsCurrent
  BY DEF EmbeddingInv
<1> QED
  BY <1>1, IndexInvariance, PTL

\* A step changes the selected generation by a switch or clears it.
LEMMA RollbackStep ==
  ASSUME EmbeddingInv, [EmbeddingNext]_embeddingVars
  PROVE  /\ lastVersion' >= lastVersion
         /\ selected' \notin {selected, NoGeneration} => VersionOf[selected'] >= lastVersion
<1>0. lastVersion \in Nat
  BY DEF EmbeddingInv, EmbeddingTypeOK
<1>1. CASE UNCHANGED <<selected, lastVersion>>
  BY <1>0, <1>1
<1>2. CASE AdvanceRevision
  BY <1>0, <1>2 DEF AdvanceRevision, Invalidate
<1>3. ASSUME NEW w \in Callers, Switch(w), ~UNCHANGED <<selected, lastVersion>>
      PROVE  /\ selected' = call[w].gen
             /\ lastVersion' = VersionOf[selected'] /\ lastVersion' >= lastVersion
  BY <1>3 DEF Switch, SwitchAllowed, NoRollback, indexVars
<1>4. ASSUME ~UNCHANGED <<selected, lastVersion>>, ~AdvanceRevision
      PROVE  \E w \in Callers : Switch(w)
  BY <1>4 DEF EmbeddingNext, embeddingVars, corpusVars, indexVars, MoveCorpus, DeleteChunks,
              StageVector, Materialize, EnsureGeneration, ReadTarget, FinalizePrepare, Abandon
<1> QED
  BY <1>1, <1>2, <1>3, <1>4

(* "embedding generation cannot roll back", whatever clears the pointer.   *)
THEOREM Monotone == EmbeddingSpec => NeverRollsBack
<1>1. EmbeddingInv /\ [EmbeddingNext]_embeddingVars =>
        [/\ lastVersion' >= lastVersion
         /\ selected' \notin {selected, NoGeneration} =>
              VersionOf[selected'] >= lastVersion]_embeddingVars
  BY RollbackStep
<1> QED
  BY <1>1, IndexInvariance, PTL DEF EmbeddingSpec, NeverRollsBack

HIDE EmbeddingAssumption

-----------------------------------------------------------------------------
(***************************************************************************)
(* Uploads.  Of the uploads of one text for the same readers one at most   *)
(* holds the reservation, so no twin is stored between what the holder     *)
(* reads and what it stores.  What it reads is whole, or so long that the  *)
(* report says it is cut off; for that a limited answer of the database is *)
(* looked at first.                                                        *)
(***************************************************************************)

\* Two sets without a common element, and a part of a set of a given size.
LEMMA Disjoint ==
  ASSUME NEW S, IsFiniteSet(S), NEW T, IsFiniteSet(T), S \cap T = {}
  PROVE  /\ IsFiniteSet(S \cup T) /\ Cardinality(S) \in Nat /\ Cardinality(T) \in Nat
         /\ Cardinality(S \cup T) = Cardinality(S) + Cardinality(T)
<1>1. Cardinality({}) = 0
  BY FS_EmptySet
<1>2. Cardinality(S) \in Nat /\ Cardinality(T) \in Nat
  BY FS_CardinalityType
<1>3. PICK k \in Nat : k = Cardinality(S)
  BY <1>2
<1>4. PICK m \in Nat : m = Cardinality(T)
  BY <1>2
<1>5. /\ IsFiniteSet(S \cup T)
      /\ Cardinality(S \cup T) = Cardinality(S) + Cardinality(T) - Cardinality(S \cap T)
  BY FS_Union
<1>6. Cardinality(S \cup T) = k + m - 0
  BY <1>1, <1>3, <1>4, <1>5
<1> QED
  BY <1>3, <1>4, <1>5, <1>6

LEMMA PartOfSize ==
  ASSUME NEW S, IsFiniteSet(S), NEW n \in Nat, n <= Cardinality(S)
  PROVE  \E T \in SUBSET S : IsFiniteSet(T) /\ Cardinality(T) = n
<1>1. PICK m \in Nat : m = Cardinality(S)
  BY FS_CardinalityType
<1>2. PICK f : f \in Bijection(1..m, S)
  BY <1>1, FS_CardinalityType DEF ExistsBijection
<1>3. f \in [1..m -> S] /\ \A i, j \in 1..m : f[i] = f[j] => i = j
  BY <1>2 DEF Bijection, Injection, Surjection, IsInjective
<1>4. PICK g : g = [i \in 1..n |-> f[i]]
  OBVIOUS
<1>5. PICK T : T = {f[i] : i \in 1..n}
  OBVIOUS
<1>6. 1..n \subseteq 1..m
  BY <1>1
<1>7. g \in Bijection(1..n, T)
  BY <1>3, <1>4, <1>5, <1>6 DEF Bijection, Injection, Surjection, IsInjective
<1>8. IsFiniteSet(T) /\ Cardinality(T) = n
  <2>1. ExistsBijection(1..n, T)
    BY <1>7 DEF ExistsBijection
  <2> QED
    BY <2>1, FS_CountingElements, FS_NatBijection
<1>9. T \in SUBSET S
  BY <1>3, <1>5, <1>6
<1> QED
  BY <1>8, <1>9

\* A limited answer is whole unless the limit is reached.
LEMMA LimitedParts ==
  ASSUME NEW u \in Uploads, NEW read, IsFiniteSet(read), NEW n \in Nat
  PROVE  /\ IsFiniteSet(Limited(u, read, n))
         /\ Cardinality(read) <= n => Limited(u, read, n) = read
         /\ Cardinality(read) > n => Cardinality(Limited(u, read, n)) = n
<1> DEFINE own == {r \in read : r.uri = UriOf[u]}
           Fits(S) == Cardinality(S) <= n /\ (own \subseteq S \/ S \subseteq own)
           fitting == {S \in SUBSET read : Fits(S)}
           Greatest(S) == \A T \in fitting : Cardinality(T) <= Cardinality(S)
<1>1. Limited(u, read, n) = CHOOSE S \in fitting : Greatest(S)
  BY DEF Limited
<1>2. \A S \in SUBSET read : IsFiniteSet(S) /\ Cardinality(S) \in Nat
                             /\ Cardinality(S) <= Cardinality(read)
                             /\ (Cardinality(S) = Cardinality(read) => S = read)
  BY FS_Subset, FS_CardinalityType
<1>3. Cardinality(read) \in Nat
  BY FS_CardinalityType
<1>4. own \in SUBSET read
  OBVIOUS
<1>5. CASE Cardinality(read) <= n
  <2>1. read \in fitting /\ Greatest(read)
    BY <1>2, <1>4, <1>5
  <2> DEFINE S == CHOOSE S \in fitting : Greatest(S)
  <2>2. S \in fitting /\ Greatest(S)
    BY <2>1
  <2>3. S \in SUBSET read /\ Cardinality(read) <= Cardinality(S)
    BY <2>1, <2>2
  <2>4. S = read
    <3> HIDE DEF S
    <3>1. Cardinality(S) \in Nat /\ Cardinality(S) <= Cardinality(read)
      BY <2>3, <1>2
    <3> QED
      BY <2>3, <3>1, <1>2, <1>3
  <2>5. Limited(u, read, n) = read
    BY <2>4, <1>1
  <2> QED
    BY <2>5, <1>3, <1>5
<1>6. CASE Cardinality(read) > n
  <2>1. \E S \in fitting : Cardinality(S) = n
    <3>1. CASE Cardinality(own) >= n
      <4>1. PICK S \in SUBSET own : IsFiniteSet(S) /\ Cardinality(S) = n
        BY <3>1, <1>2, <1>4, PartOfSize
      <4>2. S \in fitting
        BY <4>1
      <4> QED
        BY <4>1, <4>2
    <3>2. CASE Cardinality(own) < n
      <4> DEFINE rest == read \ own
      <4>1. IsFiniteSet(own) /\ Cardinality(own) \in Nat /\ IsFiniteSet(rest)
            /\ Cardinality(rest) \in Nat
        BY <1>2, <1>4
      <4>2. read = own \cup rest /\ own \cap rest = {}
        OBVIOUS
      <4>3. Cardinality(read) = Cardinality(own) + Cardinality(rest)
        BY <4>1, <4>2, Disjoint
      <4>4. n - Cardinality(own) \in Nat /\ n - Cardinality(own) <= Cardinality(rest)
        BY <4>1, <4>3, <3>2, <1>6
      <4>5. PICK T \in SUBSET rest : IsFiniteSet(T) /\ Cardinality(T) = n - Cardinality(own)
        BY <4>1, <4>4, PartOfSize
      <4>6. own \cap T = {}
        BY <4>5
      <4>7. Cardinality(own \cup T) = n
        <5>1. Cardinality(own \cup T) = Cardinality(own) + Cardinality(T)
          BY <4>1, <4>5, <4>6, Disjoint
        <5> QED
          BY <5>1, <4>1, <4>5
      <4>8. own \cup T \in fitting
        BY <4>5, <4>7
      <4> QED
        BY <4>7, <4>8
    <3> QED
      BY <3>1, <3>2, <1>2, <1>4
  <2>2. \A T \in fitting : Cardinality(T) \in Nat /\ Cardinality(T) <= n
    BY <1>2
  <2> DEFINE S == CHOOSE S \in fitting : Greatest(S)
  <2>3. S \in fitting /\ Greatest(S)
    BY <2>1, <2>2
  <2>4. Cardinality(S) = n
    <3>1. PICK Z \in fitting : Cardinality(Z) = n
      BY <2>1
    <3> HIDE DEF S, fitting
    <3>2. PICK k \in Nat : k = Cardinality(S)
      BY <2>2, <2>3
    <3>3. n <= k /\ k <= n
      BY <2>2, <2>3, <3>1, <3>2
    <3> QED
      BY <3>2, <3>3
  <2>5. IsFiniteSet(S)
    BY <2>3, <1>2
  <2> HIDE DEF S
  <2> QED
    BY <2>4, <2>5, <1>1, <1>3, <1>6 DEF S
<1> QED
  BY <1>3, <1>5, <1>6

-----------------------------------------------------------------------------

Owners == Uploads \X Nat
Policies == {SharedWith[u] : u \in Uploads} \cup {GroupsBefore, {}}

IntakeTypeOK ==
    /\ reserved \in [Keys -> [owner : Owners \cup {Nobody}, live : BOOLEAN]]
    /\ step \in [Uploads -> {"idle", "possible", "exact", "similar", "exact again",
                             "similar again", "checked", "running", "leaving"}]
    /\ kind \in [Uploads -> {"asks", "uploads"}]
    /\ tries \in [Uploads -> Nat] /\ late \in [Uploads -> BOOLEAN]
    /\ DOMAIN found = Uploads /\ DOMAIN token = Uploads
    /\ document \in [Uris -> [active : Texts \cup {NoText}, policy : Nat \ {0},
                              generation : Nat, groups : Policies]]
    /\ stored \in [Uris \X Texts -> [policy : Nat, by : Owners \cup {Nobody}]]

\* An upload that is not late holds the reservation.
Holds(u) ==
    kind[u] = "uploads" /\ ~late[u] =>
        reserved[KeyOf(u)] = [owner |-> OwnerToken(u), live |-> TRUE]

StepFollows(u) ==
    /\ kind[u] = "uploads" => step[u] # "idle"
    /\ step[u] = "running" => kind[u] = "uploads"
    /\ found[u] = [exact |-> found[u].exact, similar |-> found[u].similar]
    /\ IsFiniteSet(found[u].exact)

\* The active version has the policy of its document, of which the first is
\* that of the upload that stored it.
SourceFollows(d) ==
    LET v == stored[<<d, document[d].active>>] IN
    document[d].active # NoText =>
        /\ v.policy = document[d].policy
        /\ document[d].policy = 1 /\ v.by # Nobody => document[d].groups = SharedWith[v.by[1]]

\* What u must not overlook: its text as another upload for its readers stored it.
Twin(u, d) ==
    LET v == stored[<<d, TextOf[u]>>].by IN
    /\ document[d].active = TextOf[u] /\ document[d].policy = 1
    /\ v # Nobody /\ KeyOf(v[1]) = KeyOf(u)

Seen(u, d) ==
    \/ MatchLimit < Cardinality(found[u].exact)
    \/ \E r \in found[u].exact : r.uri = d /\ r.text = TextOf[u]
Reported(u, d) == token[u].truncated \/ [uri |-> d, text |-> TextOf[u]] \in token[u].exact

ReadSoFar(u) ==
    kind[u] = "uploads" /\ ~late[u] =>
        \A d \in Uris : Twin(u, d) =>
            /\ step[u] \in {"similar", "exact again", "similar again", "checked"} => Seen(u, d)
            /\ step[u] = "running" => Reported(u, d)

IntakeInv ==
    /\ IntakeTypeOK
    /\ \A u \in Uploads : Holds(u) /\ StepFollows(u) /\ ReadSoFar(u)
    /\ \A d \in Uris : SourceFollows(d)

LEMMA OwnersAreNoNobody ==
  ASSUME NEW u \in Uploads, NEW n \in Nat
  PROVE  <<u, n>> \in Owners /\ <<u, n>> # Nobody /\ <<u, n>>[1] = u
  BY IntakeAssumption DEF Owners

LEMMA KeysOfUploads ==
  ASSUME NEW u \in Uploads
  PROVE  KeyOf(u) \in Keys /\ UriOf[u] \in Uris /\ TextOf[u] \in Texts /\ TextOf[u] # NoText
  BY IntakeAssumption DEF Keys, KeyOf

LEMMA InitialIntake == IntakeInit => IntakeInv
<1> SUFFICES ASSUME IntakeInit PROVE IntakeInv
  OBVIOUS
<1>1. PICK text \in StartsWith :
        /\ document = [d \in Uris |->
                [active |-> text[d], policy |-> 1, generation |-> 0,
                 groups |-> IF text[d] = NoText THEN {} ELSE GroupsBefore]]
        /\ stored = [x \in Uris \X Texts |->
                [policy |-> IF text[x[1]] = x[2] THEN 1 ELSE 0, by |-> Nobody]]
  BY DEF IntakeInit
<1>2. text \in [Uris -> Texts \cup {NoText}]
  BY IntakeAssumption
<1>3. document \in [Uris -> [active : Texts \cup {NoText}, policy : Nat \ {0},
                             generation : Nat, groups : Policies]]
  BY <1>1, <1>2 DEF Policies
<1>4. stored \in [Uris \X Texts -> [policy : Nat, by : Owners \cup {Nobody}]]
  BY <1>1
<1>5. reserved \in [Keys -> [owner : Owners \cup {Nobody}, live : BOOLEAN]]
  BY DEF IntakeInit, Unreserved
<1>6. IntakeTypeOK
  BY <1>3, <1>4, <1>5 DEF IntakeInit, IntakeTypeOK
<1>7. \A u \in Uploads : Holds(u) /\ StepFollows(u) /\ ReadSoFar(u)
  BY FS_EmptySet DEF IntakeInit, Holds, StepFollows, ReadSoFar, Empty
<1>8. ASSUME NEW d \in Uris PROVE SourceFollows(d)
  <2>1. document[d].active = text[d] /\ document[d].policy = 1
    BY <1>1
  <2>2. CASE text[d] \in Texts
    <3>1. <<d, text[d]>> \in Uris \X Texts
      BY <2>2
    <3>2. stored[<<d, text[d]>>] = [policy |-> 1, by |-> Nobody]
      BY <1>1, <3>1
    <3> QED
      BY <2>1, <3>2 DEF SourceFollows
  <2> QED
    BY <1>2, <2>1, <2>2 DEF SourceFollows
<1> QED
  BY <1>6, <1>7, <1>8 DEF IntakeInv

\* One reservation, one upload under it.
LEMMA SoleHolder ==
  ASSUME IntakeInv, NEW u \in Uploads, NEW w \in Uploads, KeyOf(u) = KeyOf(w),
         kind[u] = "uploads", ~late[u], kind[w] = "uploads", ~late[w]
  PROVE  u = w
<1>1. reserved[KeyOf(u)].owner = OwnerToken(u) /\ reserved[KeyOf(w)].owner = OwnerToken(w)
  <2>1. Holds(u) /\ Holds(w)
    BY DEF IntakeInv
  <2>2. /\ reserved[KeyOf(u)] = [owner |-> OwnerToken(u), live |-> TRUE]
        /\ reserved[KeyOf(w)] = [owner |-> OwnerToken(w), live |-> TRUE]
    BY <2>1 DEF Holds
  <2> QED
    BY <2>2
<1>2. <<u, tries[u]>> = <<w, tries[w]>>
  BY <1>1 DEF OwnerToken
<1> QED
  BY <1>2

\* What another step leaves alone of an upload stays true of it, unless its
\* text was stored for its readers meanwhile.
LEMMA RequestKept ==
  ASSUME IntakeInv, NEW u \in Uploads,
         step'[u] = step[u], kind'[u] = kind[u], late[u] => late'[u],
         found'[u] = found[u], token'[u] = token[u],
         \A d \in Uris : kind[u] = "uploads" /\ ~late[u] /\ Twin(u, d)' => Twin(u, d)
  PROVE  StepFollows(u)' /\ ReadSoFar(u)'
<1>1. StepFollows(u)'
  BY DEF IntakeInv, StepFollows
<1>2. ReadSoFar(u)'
  <2> SUFFICES ASSUME kind[u] = "uploads", ~late'[u], NEW d \in Uris, Twin(u, d)'
               PROVE  /\ step[u] \in {"similar", "exact again", "similar again", "checked"} =>
                           Seen(u, d)'
                      /\ step[u] = "running" => Reported(u, d)'
    BY DEF ReadSoFar
  <2>1. Twin(u, d) /\ ~late[u]
    OBVIOUS
  <2>2. Seen(u, d)' = Seen(u, d) /\ Reported(u, d)' = Reported(u, d)
    BY DEF Seen, Reported
  <2> QED
    BY <2>1, <2>2 DEF IntakeInv, ReadSoFar
<1> QED
  BY <1>1, <1>2

LEMMA SourceKept ==
  ASSUME UNCHANGED <<document, stored>>
  PROVE  /\ \A d \in Uris : SourceFollows(d)' = SourceFollows(d)
         /\ \A u \in Uploads, d \in Uris : Twin(u, d)' = Twin(u, d)
  BY DEF SourceFollows, Twin, KeyOf

\* A step of w that stores nothing.
LEMMA RequestMoves ==
  ASSUME IntakeInv, NEW w \in Uploads, UNCHANGED <<document, stored>>, IntakeTypeOK',
         \A u \in Uploads \ {w} : /\ step'[u] = step[u] /\ kind'[u] = kind[u]
                                  /\ late'[u] = late[u] /\ found'[u] = found[u]
                                  /\ token'[u] = token[u],
         \A u \in Uploads : Holds(u)', StepFollows(w)', ReadSoFar(w)'
  PROVE  IntakeInv'
<1>1. ASSUME NEW u \in Uploads \ {w} PROVE StepFollows(u)' /\ ReadSoFar(u)'
  BY <1>1, SourceKept, RequestKept
<1>2. \A u \in Uploads : StepFollows(u)' /\ ReadSoFar(u)'
  BY <1>1
<1>3. \A d \in Uris : SourceFollows(d)'
  BY SourceKept DEF IntakeInv
<1> QED
  BY <1>2, <1>3 DEF IntakeInv

\* What the other uploads hold they keep.
LEMMA HoldsKept ==
  ASSUME IntakeInv, UNCHANGED <<reserved, tries>>, NEW u \in Uploads,
         kind'[u] = "uploads" /\ ~late'[u] => kind[u] = "uploads" /\ ~late[u]
  PROVE  Holds(u)'
<1>1. Holds(u)
  BY DEF IntakeInv
<1> QED
  BY <1>1 DEF Holds, OwnerToken, KeyOf

\* A twin is open to the upload's principal: its readers are its own.
LEMMA TwinIsOffered ==
  ASSUME IntakeInv, NEW u \in Uploads, NEW d \in Uris, Twin(u, d)
  PROVE  /\ document[d].active = TextOf[u] /\ TextOf[u] \in Texts /\ TextOf[u] # NoText
         /\ document[d].groups \cap VisibleTo[u] # {}
         /\ stored[<<d, TextOf[u]>>].policy = document[d].policy
         /\ document[d].policy # 0
<1> DEFINE t == TextOf[u]
<1>1. /\ document[d].active = t /\ document[d].policy = 1 /\ stored[<<d, t>>].by # Nobody
      /\ KeyOf(stored[<<d, t>>].by[1]) = KeyOf(u)
  BY DEF Twin
<1>2. t \in Texts /\ t # NoText
  BY KeysOfUploads
<1>3. /\ stored[<<d, t>>].policy = document[d].policy
      /\ document[d].groups = SharedWith[stored[<<d, t>>].by[1]]
  <2>1. SourceFollows(d)
    BY DEF IntakeInv
  <2> QED
    BY <2>1, <1>1, <1>2 DEF SourceFollows
<1>4. SharedWith[stored[<<d, t>>].by[1]] = SharedWith[u]
  BY <1>1 DEF KeyOf
<1>5. document[d].groups \cap VisibleTo[u] # {}
  BY <1>3, <1>4, IntakeAssumption
<1> QED
  BY <1>1, <1>2, <1>3, <1>5

LEMMA RowsAreFinite ==
  ASSUME NEW u \in Uploads, NEW t
  PROVE  IsFiniteSet(Rows(u, {t}))
<1> DEFINE F == {Row(d, t) : d \in Uris}
<1>1. IsFiniteSet(F)
  <2>1. PICK f : f = [d \in Uris |-> Row(d, t)]
    OBVIOUS
  <2>2. f \in Surjection(Uris, F)
    <3>1. f \in [Uris -> F] /\ \A x \in F : \E d \in Uris : f[d] = x
      BY <2>1
    <3> QED
      BY <3>1 DEF Surjection
  <2> HIDE DEF F
  <2> QED
    BY <2>2, IntakeAssumption, FS_Surjection
<1>2. Rows(u, {t}) \subseteq F
  BY DEF Rows
<1> QED
  BY <1>1, <1>2, FS_Subset

LEMMA LimitIsNat == MatchLimit \in Nat /\ MatchLimit + 1 \in Nat
<1>1. MatchLimit \in Nat
  BY IntakeAssumption
<1> QED
  BY <1>1

\* A twin is among what is read, or so much is read that the report says so.
LEMMA ExactSeesTwins ==
  ASSUME IntakeInv, NEW u \in Uploads, NEW d \in Uris, Twin(u, d)
  PROVE  \/ MatchLimit < Cardinality(Exact(u))
         \/ \E r \in Exact(u) : r.uri = d /\ r.text = TextOf[u]
<1> DEFINE read == Rows(u, {TextOf[u]})
           t == TextOf[u]
<1>1. Offered(u, d, t)
  BY TwinIsOffered DEF Offered
<1>2. Row(d, t) \in read
  <2>1. <<d, t>> \in Uris \X {t}
    OBVIOUS
  <2> QED
    BY <1>1, <2>1 DEF Rows
<1>3. Row(d, t).uri = d /\ Row(d, t).text = t
  BY DEF Row
<1>4. IsFiniteSet(read) /\ Cardinality(read) \in Nat
  BY RowsAreFinite, FS_CardinalityType
<1>5. Exact(u) = Limited(u, read, MatchLimit + 1)
  BY DEF Exact
<1> HIDE DEF read
<1>6. CASE Cardinality(read) <= MatchLimit + 1
  BY <1>2, <1>3, <1>4, <1>5, <1>6, LimitIsNat, LimitedParts
<1>7. CASE Cardinality(read) > MatchLimit + 1
  <2>1. Cardinality(Exact(u)) = MatchLimit + 1
    BY <1>4, <1>5, <1>7, LimitIsNat, LimitedParts
  <2> QED
    BY <2>1, LimitIsNat
<1> QED
  BY <1>4, <1>6, <1>7, LimitIsNat

LEMMA ExactIsFinite ==
  ASSUME NEW u \in Uploads
  PROVE  IsFiniteSet(Exact(u))
<1>1. IsFiniteSet(Rows(u, {TextOf[u]})) /\ MatchLimit + 1 \in Nat
  BY RowsAreFinite, LimitIsNat
<1> QED
  BY <1>1, LimitedParts DEF Exact

\* What was seen is reported.
LEMMA SeenIsReported ==
  ASSUME IntakeInv, NEW u \in Uploads, NEW d \in Uris, Seen(u, d), Reviewed(u)
  PROVE  Reported(u, d)
<1> DEFINE read == found[u].exact
           report == Report(u)
<1>1. IsFiniteSet(read) /\ Cardinality(read) \in Nat /\ MatchLimit \in Nat
  BY FS_CardinalityType, LimitIsNat DEF IntakeInv, StepFollows
<1>2. report.truncated \/ [uri |-> d, text |-> TextOf[u]] \in report.exact
  <2>1. CASE MatchLimit < Cardinality(read)
    BY <2>1 DEF Report
  <2>2. CASE Cardinality(read) <= MatchLimit
    <3>1. Limited(u, read, MatchLimit) = read
      BY <1>1, <2>2, LimitedParts
    <3>2. PICK r \in read : r.uri = d /\ r.text = TextOf[u]
      BY <1>1, <2>2 DEF Seen
    <3>3. report.exact = Told(read)
      BY <3>1 DEF Report
    <3> QED
      BY <3>2, <3>3 DEF Told
  <2> QED
    BY <1>1, <2>1, <2>2
<1>3. report # NothingFound
  BY <1>2 DEF NothingFound
<1>4. token[u] = report
  BY <1>3 DEF Reviewed
<1> QED
  BY <1>2, <1>4 DEF Reported

-----------------------------------------------------------------------------
(* Step by step                                                            *)

LEMMA StepParts ==
  ASSUME IntakeInv, NEW w \in Uploads
  PROVE  /\ step[w] \in {"idle", "possible", "exact", "similar", "exact again",
                         "similar again", "checked", "running", "leaving"}
         /\ DOMAIN step = Uploads /\ DOMAIN kind = Uploads /\ DOMAIN tries = Uploads
         /\ DOMAIN late = Uploads /\ DOMAIN found = Uploads /\ DOMAIN token = Uploads
         /\ StepFollows(w) /\ ReadSoFar(w) /\ Holds(w)
  BY DEF IntakeInv, IntakeTypeOK

\* A step of w within its request: it reads, decides or reports.
LEMMA Progress ==
  ASSUME IntakeInv, NEW w \in Uploads, NEW s, GoTo(w, s),
         s \in {"exact", "similar", "exact again", "similar again", "checked", "running",
                "leaving", "idle"},
         s = "running" => kind[w] = "uploads", s = "idle" => kind[w] # "uploads",
         UNCHANGED <<reserved, kind, tries, late, document, stored>>,
         DOMAIN found' = Uploads, DOMAIN token' = Uploads,
         \A u \in Uploads \ {w} : found'[u] = found[u] /\ token'[u] = token[u],
         found'[w] = [exact |-> found'[w].exact, similar |-> found'[w].similar],
         IsFiniteSet(found'[w].exact),
         \A d \in Uris : kind[w] = "uploads" /\ ~late[w] /\ Twin(w, d) =>
            /\ s \in {"similar", "exact again", "similar again", "checked"} => Seen(w, d)'
            /\ s = "running" => Reported(w, d)'
  PROVE  IntakeInv'
<1>1. step' \in [Uploads -> {"idle", "possible", "exact", "similar", "exact again",
                             "similar again", "checked", "running", "leaving"}]
  BY DEF GoTo, IntakeInv, IntakeTypeOK
<1>2. step'[w] = s /\ \A u \in Uploads \ {w} : step'[u] = step[u]
  BY StepParts DEF GoTo
<1>3. IntakeTypeOK'
  BY <1>1 DEF IntakeInv, IntakeTypeOK
<1>4. \A u \in Uploads : Holds(u)'
  BY HoldsKept
<1>5. StepFollows(w)'
  BY <1>2, StepParts DEF StepFollows
<1>6. ReadSoFar(w)'
  BY <1>2, SourceKept DEF ReadSoFar
<1> QED
  BY <1>2, <1>3, <1>4, <1>5, <1>6, RequestMoves

LEMMA LookForPossibleStep ==
  ASSUME IntakeInv, NEW w \in Uploads, LookForPossible(w)
  PROVE  IntakeInv'
<1>1. PICK s : s = IF Possible(w) THEN "exact" ELSE "checked"
  OBVIOUS
<1>2. GoTo(w, s) /\ s \in {"exact", "checked"}
  BY <1>1 DEF LookForPossible
<1>3. UNCHANGED <<reserved, kind, tries, late, found, token, document, stored>>
  BY DEF LookForPossible, intakeSourceVars
<1>4. ASSUME NEW d \in Uris, Twin(w, d) PROVE s = "exact"
  <2>1. Possible(w)
    <3>1. /\ document[d].groups \cap VisibleTo[w] # {} /\ TextOf[w] \in Texts
          /\ stored[<<d, TextOf[w]>>].policy # 0
      BY <1>4, TwinIsOffered
    <3> QED
      BY <3>1 DEF Possible
  <2> QED
    BY <1>1, <2>1
<1>5. /\ found'[w] = [exact |-> found'[w].exact, similar |-> found'[w].similar]
      /\ IsFiniteSet(found'[w].exact)
  BY <1>3, StepParts DEF StepFollows
<1> QED
  BY <1>2, <1>3, <1>4, <1>5, StepParts, Progress

LEMMA ReadExactStep ==
  ASSUME IntakeInv, NEW w \in Uploads, ReadExact(w)
  PROVE  IntakeInv'
<1>0. PICK s : s = "similar"
  OBVIOUS
<1>1. GoTo(w, s) /\ UNCHANGED <<reserved, kind, tries, late, token, document, stored>>
  BY <1>0 DEF ReadExact, intakeSourceVars
<1>2. /\ found'[w] = [exact |-> Exact(w), similar |-> found[w].similar]
      /\ DOMAIN found' = Uploads /\ \A u \in Uploads \ {w} : found'[u] = found[u]
  <2>1. found' = [found EXCEPT ![w].exact = Exact(w)] /\ DOMAIN found = Uploads
    BY StepParts DEF ReadExact
  <2>2. found[w] = [exact |-> found[w].exact, similar |-> found[w].similar]
    BY StepParts DEF StepFollows
  <2>3. [found[w] EXCEPT !.exact = Exact(w)] = [exact |-> Exact(w), similar |-> found[w].similar]
    BY <2>2
  <2> QED
    BY <2>1, <2>3
<1>3. ASSUME NEW d \in Uris, Twin(w, d) PROVE Seen(w, d)'
  BY <1>2, <1>3, ExactSeesTwins DEF Seen
<1>4. /\ found'[w] = [exact |-> found'[w].exact, similar |-> found'[w].similar]
      /\ IsFiniteSet(found'[w].exact)
  BY <1>2, ExactIsFinite
<1>5. /\ DOMAIN found' = Uploads /\ DOMAIN token' = Uploads
      /\ \A u \in Uploads \ {w} : found'[u] = found[u] /\ token'[u] = token[u]
  BY <1>1, <1>2, StepParts
<1>6. s \notin {"running", "idle"}
  BY <1>0
<1> QED
  BY <1>0, <1>1, <1>3, <1>4, <1>5, <1>6, Progress

LEMMA ReadSimilarStep ==
  ASSUME IntakeInv, NEW w \in Uploads, ReadSimilar(w)
  PROVE  IntakeInv'
<1>0. PICK s : s = "exact again"
  OBVIOUS
<1>1. /\ GoTo(w, s) /\ step[w] = "similar"
      /\ UNCHANGED <<reserved, kind, tries, late, token, document, stored>>
  BY <1>0 DEF ReadSimilar, At, intakeSourceVars
<1>2. /\ found'[w] = [exact |-> found[w].exact, similar |-> Similar(w)]
      /\ DOMAIN found' = Uploads /\ \A u \in Uploads \ {w} : found'[u] = found[u]
  <2>1. found' = [found EXCEPT ![w].similar = Similar(w)] /\ DOMAIN found = Uploads
    BY StepParts DEF ReadSimilar
  <2>2. found[w] = [exact |-> found[w].exact, similar |-> found[w].similar]
    BY StepParts DEF StepFollows
  <2>3. [found[w] EXCEPT !.similar = Similar(w)]
           = [exact |-> found[w].exact, similar |-> Similar(w)]
    BY <2>2
  <2> QED
    BY <2>1, <2>3
<1>3. ASSUME NEW d \in Uris, kind[w] = "uploads", ~late[w], Twin(w, d) PROVE Seen(w, d)'
  <2>1. Seen(w, d)
    BY <1>1, <1>3, StepParts DEF ReadSoFar
  <2> QED
    BY <1>2, <2>1 DEF Seen
<1>4. /\ found'[w] = [exact |-> found'[w].exact, similar |-> found'[w].similar]
      /\ IsFiniteSet(found'[w].exact)
  <2>1. found'[w].exact = found[w].exact /\ found'[w].similar = Similar(w)
    BY <1>2
  <2>2. IsFiniteSet(found[w].exact)
    BY StepParts DEF StepFollows
  <2> QED
    BY <1>2, <2>1, <2>2
<1>5. /\ DOMAIN found' = Uploads /\ DOMAIN token' = Uploads
      /\ \A u \in Uploads \ {w} : found'[u] = found[u] /\ token'[u] = token[u]
  BY <1>1, <1>2, StepParts
<1>6. s \notin {"running", "idle"}
  BY <1>0
<1> QED
  BY <1>0, <1>1, <1>3, <1>4, <1>5, <1>6, Progress

LEMMA EmptyParts ==
  Empty = [exact |-> Empty.exact, similar |-> Empty.similar] /\ IsFiniteSet(Empty.exact)
  BY FS_EmptySet DEF Empty

\* Whoever leaves has nothing read any more.
LEMMA LeaveStep ==
  ASSUME IntakeInv, NEW w \in Uploads, Leave(w),
         UNCHANGED <<reserved, kind, tries, late, token, document, stored>>
  PROVE  IntakeInv'
<1>0. PICK s : s = "leaving"
  OBVIOUS
<1>1. /\ GoTo(w, s) /\ found'[w] = Empty
      /\ DOMAIN found' = Uploads /\ \A u \in Uploads \ {w} : found'[u] = found[u]
  BY <1>0, StepParts DEF Leave
<1>2. /\ found'[w] = [exact |-> found'[w].exact, similar |-> found'[w].similar]
      /\ IsFiniteSet(found'[w].exact)
  BY <1>1, EmptyParts
<1>3. /\ DOMAIN found' = Uploads /\ DOMAIN token' = Uploads
      /\ \A u \in Uploads \ {w} : found'[u] = found[u] /\ token'[u] = token[u]
  BY <1>1, StepParts
<1>4. GoTo(w, s) /\ s \notin {"running", "idle"}
  BY <1>0, <1>1
<1> QED
  BY <1>0, <1>2, <1>3, <1>4, Progress

LEMMA RereadStep ==
  ASSUME IntakeInv, NEW w \in Uploads, RereadExact(w) \/ RereadSimilar(w)
  PROVE  IntakeInv'
<1>1. UNCHANGED <<reserved, kind, tries, late, token, document, stored>>
  BY DEF RereadExact, RereadSimilar, intakeSourceVars
<1>2. CASE Leave(w)
  BY <1>1, <1>2, LeaveStep
<1>3. CASE ~Leave(w)
  <2>1. PICK s \in {"similar again", "checked"} : On(w, s)
    BY <1>3 DEF RereadExact, RereadSimilar
  <2>2. step[w] \in {"exact again", "similar again"}
    BY DEF RereadExact, RereadSimilar, At
  <2>3. GoTo(w, s) /\ UNCHANGED found
    BY <2>1 DEF On
  <2>4. ASSUME NEW d \in Uris, kind[w] = "uploads", ~late[w], Twin(w, d) PROVE Seen(w, d)'
    <3>1. Seen(w, d)
      BY <2>2, <2>4, StepParts DEF ReadSoFar
    <3> QED
      BY <2>3, <3>1 DEF Seen
  <2>5. /\ found'[w] = [exact |-> found'[w].exact, similar |-> found'[w].similar]
        /\ IsFiniteSet(found'[w].exact)
    BY <2>3, StepParts DEF StepFollows
  <2> QED
    BY <1>1, <2>3, <2>4, <2>5, StepParts, Progress
<1> QED
  BY <1>2, <1>3

LEMMA GiveReceiptStep ==
  ASSUME IntakeInv, NEW w \in Uploads, GiveReceipt(w)
  PROVE  IntakeInv'
<1>1. /\ GoTo(w, "idle") /\ kind[w] = "asks"
      /\ UNCHANGED <<reserved, kind, tries, late, document, stored>>
  BY DEF GiveReceipt, intakeSourceVars
<1>2. /\ found'[w] = Empty /\ DOMAIN found' = Uploads /\ DOMAIN token' = Uploads
      /\ \A u \in Uploads \ {w} : found'[u] = found[u] /\ token'[u] = token[u]
  BY StepParts DEF GiveReceipt
<1>3. /\ found'[w] = [exact |-> found'[w].exact, similar |-> found'[w].similar]
      /\ IsFiniteSet(found'[w].exact)
  BY <1>2, EmptyParts
<1> QED
  BY <1>1, <1>2, <1>3, Progress

LEMMA DecideUploadStep ==
  ASSUME IntakeInv, NEW w \in Uploads, DecideUpload(w)
  PROVE  IntakeInv'
<1>1. PICK s : s = IF Reviewed(w) THEN "running" ELSE "leaving"
  OBVIOUS
<1>2. /\ GoTo(w, s) /\ s \in {"running", "leaving"} /\ kind[w] = "uploads" /\ step[w] = "checked"
      /\ UNCHANGED <<reserved, kind, tries, late, token, document, stored>>
  BY <1>1 DEF DecideUpload, At, intakeSourceVars
<1>3. /\ found'[w] = Empty /\ DOMAIN found' = Uploads
      /\ \A u \in Uploads \ {w} : found'[u] = found[u]
  BY StepParts DEF DecideUpload
<1>4. /\ found'[w] = [exact |-> found'[w].exact, similar |-> found'[w].similar]
      /\ IsFiniteSet(found'[w].exact)
  BY <1>3, EmptyParts
<1>5. ASSUME NEW d \in Uris, ~late[w], Twin(w, d), s = "running" PROVE Reported(w, d)'
  <2>1. Seen(w, d) /\ Reviewed(w)
    BY <1>1, <1>2, <1>5, StepParts DEF ReadSoFar
  <2>2. Reported(w, d)
    BY <2>1, SeenIsReported
  <2> QED
    BY <1>2, <2>2 DEF Reported
<1> QED
  BY <1>2, <1>3, <1>4, <1>5, StepParts, Progress

\* An attempt begins or ends.
LEMMA FreshStep ==
  ASSUME IntakeInv, NEW w \in Uploads, NEW s \in {"idle", "possible"}, GoTo(w, s),
         NEW k \in {"asks", "uploads"}, kind' = [kind EXCEPT ![w] = k],
         s = "idle" => k = "asks",
         found' = [found EXCEPT ![w] = Empty], IntakeTypeOK',
         UNCHANGED <<token, document, stored>>,
         \A u \in Uploads \ {w} : late'[u] = late[u],
         \A u \in Uploads : Holds(u)'
  PROVE  IntakeInv'
<1>1. step'[w] = s /\ kind'[w] = k /\ found'[w] = Empty
  BY StepParts DEF GoTo
<1>2. \A u \in Uploads \ {w} : /\ step'[u] = step[u] /\ kind'[u] = kind[u]
                               /\ late'[u] = late[u] /\ found'[u] = found[u]
                               /\ token'[u] = token[u]
  BY StepParts DEF GoTo
<1>3. StepFollows(w)'
  BY <1>1, EmptyParts DEF StepFollows
<1>4. ReadSoFar(w)'
  BY <1>1 DEF ReadSoFar
<1> QED
  BY <1>2, <1>3, <1>4, RequestMoves

LEMMA StepTyped ==
  ASSUME IntakeInv, NEW w \in Uploads, NEW s \in {"idle", "possible"}, GoTo(w, s)
  PROVE  step' \in [Uploads -> {"idle", "possible", "exact", "similar", "exact again",
                                "similar again", "checked", "running", "leaving"}]
  BY DEF IntakeInv, IntakeTypeOK, GoTo

LEMMA AskStep ==
  ASSUME IntakeInv, NEW w \in Uploads, AskForReceipt(w)
  PROVE  IntakeInv'
<1>0. PICK s, k : s = "possible" /\ k = "asks"
  OBVIOUS
<1>1. /\ GoTo(w, s) /\ kind' = [kind EXCEPT ![w] = k] /\ found' = [found EXCEPT ![w] = Empty]
      /\ UNCHANGED <<reserved, tries, late, token, document, stored>>
  BY <1>0 DEF AskForReceipt, Compare, intakeSourceVars
<1>2. IntakeTypeOK'
  <2>1. kind' \in [Uploads -> {"asks", "uploads"}]
    BY <1>0, <1>1 DEF IntakeInv, IntakeTypeOK
  <2> QED
    BY <1>0, <1>1, <2>1, StepTyped DEF IntakeInv, IntakeTypeOK
<1>3. kind'[w] = "asks" /\ \A u \in Uploads \ {w} : kind'[u] = kind[u]
  BY <1>0, <1>1, StepParts
<1>4. \A u \in Uploads : Holds(u)'
  BY <1>1, <1>3, HoldsKept
<1> QED
  BY <1>0, <1>1, <1>2, <1>4, FreshStep

LEMMA ClaimStep ==
  ASSUME IntakeInv, NEW w \in Uploads, ClaimUpload(w)
  PROVE  IntakeInv'
<1>0. PICK s, k : s = "possible" /\ k = "uploads"
  OBVIOUS
<1>1. /\ GoTo(w, s) /\ kind' = [kind EXCEPT ![w] = k] /\ found' = [found EXCEPT ![w] = Empty]
      /\ late' = [late EXCEPT ![w] = FALSE]
      /\ UNCHANGED <<token, document, stored>>
  BY <1>0 DEF ClaimUpload, Compare, intakeSourceVars
<1>2. PICK n \in Nat : n = tries[w] + 1
  <2>1. tries[w] \in Nat
    BY DEF IntakeInv, IntakeTypeOK
  <2> QED
    BY <2>1
<1>3. PICK r : r = [owner |-> <<w, n>>, live |-> TRUE]
  OBVIOUS
<1>4. /\ tries' = [tries EXCEPT ![w] = n] /\ Claimable(w)
      /\ reserved' = [reserved EXCEPT ![KeyOf(w)] = r]
  BY <1>2, <1>3 DEF ClaimUpload
<1>5. r \in [owner : Owners \cup {Nobody}, live : BOOLEAN]
  BY <1>3, OwnersAreNoNobody
<1>6. IntakeTypeOK'
  <2>1. kind' \in [Uploads -> {"asks", "uploads"}] /\ late' \in [Uploads -> BOOLEAN]
    BY <1>0, <1>1 DEF IntakeInv, IntakeTypeOK
  <2>2. tries' \in [Uploads -> Nat]
    BY <1>4 DEF IntakeInv, IntakeTypeOK
  <2>3. reserved' \in [Keys -> [owner : Owners \cup {Nobody}, live : BOOLEAN]]
    BY <1>4, <1>5 DEF IntakeInv, IntakeTypeOK
  <2> QED
    BY <1>0, <1>1, <2>1, <2>2, <2>3, StepTyped DEF IntakeInv, IntakeTypeOK
<1>7. Holds(w)'
  <2>1. tries'[w] = n
    BY <1>4, StepParts
  <2>2. reserved'[KeyOf(w)] = r
    BY <1>4, KeysOfUploads DEF IntakeInv, IntakeTypeOK
  <2> QED
    BY <1>3, <2>1, <2>2 DEF Holds, OwnerToken, KeyOf
<1>8. ASSUME NEW u \in Uploads \ {w} PROVE Holds(u)'
  <2>1. Holds(u) /\ kind'[u] = kind[u] /\ late'[u] = late[u] /\ tries'[u] = tries[u]
    BY <1>1, <1>4, StepParts
  <2>2. CASE KeyOf(u) = KeyOf(w)
    <3>1. ~(kind[u] = "uploads" /\ ~late[u])
      <4> SUFFICES ASSUME kind[u] = "uploads", ~late[u] PROVE FALSE
        OBVIOUS
      <4>1. reserved[KeyOf(w)] = [owner |-> OwnerToken(u), live |-> TRUE]
        BY <2>1, <2>2 DEF Holds
      <4>2. OwnerToken(u) # Nobody
        BY OwnersAreNoNobody DEF OwnerToken, IntakeInv, IntakeTypeOK
      <4> QED
        BY <1>4, <4>1, <4>2 DEF Claimable
    <3> QED
      BY <2>1, <3>1 DEF Holds
  <2>3. CASE KeyOf(u) # KeyOf(w)
    <3>1. reserved'[KeyOf(u)] = reserved[KeyOf(u)]
      BY <1>4, <2>3, KeysOfUploads DEF IntakeInv, IntakeTypeOK
    <3> QED
      BY <2>1, <3>1 DEF Holds, OwnerToken, KeyOf
  <2> QED
    BY <2>2, <2>3
<1>9. \A u \in Uploads \ {w} : late'[u] = late[u]
  BY <1>1, StepParts
<1>10. \A u \in Uploads : Holds(u)'
  BY <1>7, <1>8
<1> QED
  BY <1>0, <1>1, <1>6, <1>9, <1>10, FreshStep

LEMMA EndStep ==
  ASSUME IntakeInv, NEW w \in Uploads, EndAttempt(w), UNCHANGED reserved \/ GiveBack(w)
  PROVE  IntakeInv'
<1>0. PICK s, k : s = "idle" /\ k = "asks"
  OBVIOUS
<1>1. /\ GoTo(w, s) /\ kind' = [kind EXCEPT ![w] = k] /\ found' = [found EXCEPT ![w] = Empty]
      /\ late' = [late EXCEPT ![w] = FALSE]
      /\ UNCHANGED <<tries, token, document, stored>>
  BY <1>0 DEF EndAttempt, intakeSourceVars
<1>2. /\ reserved' \in [Keys -> [owner : Owners \cup {Nobody}, live : BOOLEAN]]
      /\ \A x \in Keys : reserved[x].owner # OwnerToken(w) => reserved'[x] = reserved[x]
  <2>1. CASE UNCHANGED reserved
    BY <2>1 DEF IntakeInv, IntakeTypeOK
  <2>2. CASE GiveBack(w)
    <3>1. KeyOf(w) \in Keys /\ DOMAIN reserved = Keys
      BY KeysOfUploads DEF IntakeInv, IntakeTypeOK
    <3>2. PICK r : r = IF reserved[KeyOf(w)].owner = OwnerToken(w) THEN Unreserved
                       ELSE reserved[KeyOf(w)]
      OBVIOUS
    <3>3. reserved' = [reserved EXCEPT ![KeyOf(w)] = r]
      BY <2>2, <3>2 DEF GiveBack
    <3>4. r \in [owner : Owners \cup {Nobody}, live : BOOLEAN]
      BY <3>1, <3>2 DEF IntakeInv, IntakeTypeOK, Unreserved
    <3>5. reserved' \in [Keys -> [owner : Owners \cup {Nobody}, live : BOOLEAN]]
      BY <3>3, <3>4 DEF IntakeInv, IntakeTypeOK
    <3> QED
      BY <3>1, <3>2, <3>3, <3>5
  <2> QED
    BY <2>1, <2>2
<1>3. IntakeTypeOK'
  <2>1. kind' \in [Uploads -> {"asks", "uploads"}] /\ late' \in [Uploads -> BOOLEAN]
    BY <1>0, <1>1 DEF IntakeInv, IntakeTypeOK
  <2> QED
    BY <1>0, <1>1, <1>2, <2>1, StepTyped DEF IntakeInv, IntakeTypeOK
<1>4. kind'[w] = "asks" /\ \A u \in Uploads \ {w} : kind'[u] = kind[u] /\ late'[u] = late[u]
  BY <1>0, <1>1, StepParts
<1>5. ASSUME NEW u \in Uploads PROVE Holds(u)'
  <2>1. CASE u = w
    BY <1>4, <2>1 DEF Holds
  <2>2. CASE u # w /\ kind[u] = "uploads" /\ ~late[u]
    <3>1. reserved[KeyOf(u)] = [owner |-> OwnerToken(u), live |-> TRUE]
      BY <2>2 DEF IntakeInv, Holds
    <3>2. OwnerToken(u) # OwnerToken(w)
      BY <2>2 DEF OwnerToken
    <3>3. reserved'[KeyOf(u)] = reserved[KeyOf(u)]
      BY <1>2, <3>1, <3>2, KeysOfUploads
    <3> QED
      BY <1>1, <3>1, <3>3 DEF Holds, OwnerToken, KeyOf
  <2>3. CASE u # w /\ ~(kind[u] = "uploads" /\ ~late[u])
    BY <1>4, <2>3 DEF Holds
  <2> QED
    BY <2>1, <2>2, <2>3
<1> QED
  BY <1>0, <1>1, <1>3, <1>4, <1>5, FreshStep

\* A lease that lapses makes its holder late.
LEMMA LeaseEndsStep ==
  ASSUME IntakeInv, NEW x \in Keys, LeaseEnds(x)
  PROVE  IntakeInv'
<1>1. /\ reserved' = [reserved EXCEPT ![x].live = FALSE]
      /\ late' = [u \in Uploads |->
            late[u] \/ (OwnerToken(u) = reserved[x].owner /\ kind[u] = "uploads")]
      /\ UNCHANGED <<step, kind, tries, found, token, document, stored>>
  BY DEF LeaseEnds, intakeSourceVars
<1>2. /\ DOMAIN reserved = Keys
      /\ reserved[x] \in [owner : Owners \cup {Nobody}, live : BOOLEAN]
  BY DEF IntakeInv, IntakeTypeOK
<1>3. /\ reserved'[x].owner = reserved[x].owner
      /\ \A y \in Keys : y # x => reserved'[y] = reserved[y]
      /\ reserved' \in [Keys -> [owner : Owners \cup {Nobody}, live : BOOLEAN]]
  BY <1>1, <1>2 DEF IntakeInv, IntakeTypeOK
<1>4. late' \in [Uploads -> BOOLEAN]
  BY <1>1 DEF IntakeInv, IntakeTypeOK
<1>5. IntakeTypeOK'
  BY <1>1, <1>3, <1>4 DEF IntakeInv, IntakeTypeOK
<1>6. ASSUME NEW u \in Uploads PROVE Holds(u)' /\ StepFollows(u)' /\ ReadSoFar(u)'
  <2>1. late[u] => late'[u]
    BY <1>1
  <2>2. StepFollows(u)' /\ ReadSoFar(u)'
    BY <1>1, <2>1, SourceKept, RequestKept
  <2>3. Holds(u)'
    <3> SUFFICES ASSUME kind[u] = "uploads", ~late'[u]
                 PROVE  reserved'[KeyOf(u)] = [owner |-> OwnerToken(u), live |-> TRUE]
      BY <1>1 DEF Holds, OwnerToken, KeyOf
    <3>1. reserved[KeyOf(u)] = [owner |-> OwnerToken(u), live |-> TRUE]
      BY <2>1 DEF IntakeInv, Holds
    <3>2. OwnerToken(u) # reserved[x].owner
      BY <1>1
    <3>3. KeyOf(u) # x
      BY <3>1, <3>2
    <3> QED
      BY <1>3, <3>1, <3>3, KeysOfUploads
  <2> QED
    BY <2>2, <2>3
<1>7. \A d \in Uris : SourceFollows(d)'
  BY <1>1, SourceKept DEF IntakeInv
<1> QED
  BY <1>5, <1>6, <1>7 DEF IntakeInv

\* The requests stay as they are while a document changes.
LEMMA SourceMoves ==
  ASSUME IntakeInv, UNCHANGED <<reserved, step, kind, tries, late, found, token>>,
         NEW d \in Uris, NEW doc \in [active : Texts \cup {NoText}, policy : Nat \ {0},
                                      generation : Nat, groups : Policies],
         document' = [document EXCEPT ![d] = doc],
         stored' \in [Uris \X Texts -> [policy : Nat, by : Owners \cup {Nobody}]],
         \A e \in Uris \ {d}, t \in Texts : stored'[<<e, t>>] = stored[<<e, t>>],
         SourceFollows(d)',
         \A u \in Uploads : Twin(u, d)' => Twin(u, d)
  PROVE  IntakeInv'
<1>1. document' \in [Uris -> [active : Texts \cup {NoText}, policy : Nat \ {0},
                              generation : Nat, groups : Policies]]
      /\ \A e \in Uris \ {d} : document'[e] = document[e]
  BY DEF IntakeInv, IntakeTypeOK
<1>2. IntakeTypeOK'
  BY <1>1 DEF IntakeInv, IntakeTypeOK
<1>3. ASSUME NEW e \in Uris \ {d} PROVE SourceFollows(e)'
  <2>1. document[e].active \in Texts \cup {NoText} /\ document'[e] = document[e]
    BY <1>1 DEF IntakeInv, IntakeTypeOK
  <2>2. SourceFollows(e)
    BY DEF IntakeInv
  <2>3. CASE document[e].active \in Texts
    <3>1. stored'[<<e, document[e].active>>] = stored[<<e, document[e].active>>]
      BY <2>3
    <3> QED
      BY <2>1, <2>2, <3>1 DEF SourceFollows
  <2>4. CASE document[e].active = NoText
    BY <2>1, <2>4 DEF SourceFollows
  <2> QED
    BY <2>1, <2>3, <2>4
<1>4. ASSUME NEW u \in Uploads, NEW e \in Uris, Twin(u, e)' PROVE Twin(u, e)
  <2>1. CASE e = d
    BY <1>4, <2>1
  <2>2. CASE e # d
    <3>1. document'[e] = document[e] /\ stored'[<<e, TextOf[u]>>] = stored[<<e, TextOf[u]>>]
      BY <1>1, <2>2, KeysOfUploads
    <3> QED
      BY <1>4, <3>1 DEF Twin, KeyOf
  <2> QED
    BY <2>1, <2>2
<1>5. ASSUME NEW u \in Uploads PROVE Holds(u)' /\ StepFollows(u)' /\ ReadSoFar(u)'
  BY <1>4, HoldsKept, RequestKept
<1> QED
  BY <1>2, <1>3, <1>5 DEF IntakeInv

LEMMA ChangeGroupsStep ==
  ASSUME IntakeInv, NEW d \in Uris, NEW w \in Uploads, ChangeGroups(d, SharedWith[w])
  PROVE  IntakeInv'
<1>1. PICK t : t = document[d].active
  OBVIOUS
<1>2. /\ document[d] \in [active : Texts \cup {NoText}, policy : Nat \ {0},
                          generation : Nat, groups : Policies]
      /\ DOMAIN document = Uris
  BY DEF IntakeInv, IntakeTypeOK
<1>3. t \in Texts /\ <<d, t>> \in Uris \X Texts
  BY <1>1, <1>2 DEF ChangeGroups
<1>4. PICK n \in Nat \ {0, 1} : n = document[d].policy + 1
  BY <1>2
<1>5. PICK doc : doc = [document[d] EXCEPT !.groups = SharedWith[w], !.policy = n]
  OBVIOUS
<1>6. document' = [document EXCEPT ![d] = doc]
  BY <1>2, <1>4, <1>5 DEF ChangeGroups
<1>7. doc \in [active : Texts \cup {NoText}, policy : Nat \ {0},
               generation : Nat, groups : Policies]
      /\ doc.active = t /\ doc.policy = n
  <2>1. SharedWith[w] \in Policies
    BY DEF Policies
  <2> QED
    BY <1>1, <1>2, <1>4, <1>5, <2>1
<1>8. /\ stored' = [stored EXCEPT ![<<d, t>>].policy = n]
      /\ stored[<<d, t>>] \in [policy : Nat, by : Owners \cup {Nobody}]
  BY <1>1, <1>3, <1>4 DEF ChangeGroups, IntakeInv, IntakeTypeOK
<1>9. stored' \in [Uris \X Texts -> [policy : Nat, by : Owners \cup {Nobody}]]
      /\ stored'[<<d, t>>].policy = n
      /\ \A e \in Uris \ {d}, x \in Texts : stored'[<<e, x>>] = stored[<<e, x>>]
  BY <1>3, <1>4, <1>8 DEF IntakeInv, IntakeTypeOK
<1>10. document'[d] = doc /\ n # 1
  BY <1>2, <1>4, <1>6
<1>11. SourceFollows(d)'
  BY <1>7, <1>9, <1>10 DEF SourceFollows
<1>12. \A u \in Uploads : ~Twin(u, d)'
  BY <1>7, <1>10 DEF Twin
<1>13. UNCHANGED <<reserved, step, kind, tries, late, found, token>>
  BY DEF ChangeGroups, requestVars
<1> QED
  BY <1>6, <1>7, <1>9, <1>11, <1>12, <1>13, SourceMoves

LEMMA DeleteStep ==
  ASSUME IntakeInv, NEW d \in Uris, DeleteDocument(d)
  PROVE  IntakeInv'
<1>1. /\ document[d] \in [active : Texts \cup {NoText}, policy : Nat \ {0},
                          generation : Nat, groups : Policies]
      /\ DOMAIN document = Uris /\ DOMAIN stored = Uris \X Texts
  BY DEF IntakeInv, IntakeTypeOK
<1>0. PICK n \in Nat : n = document[d].generation + 1
  BY <1>1
<1>2. PICK doc : doc = [document[d] EXCEPT !.active = NoText, !.groups = {}, !.policy = 1,
                                           !.generation = n]
  OBVIOUS
<1>3. document' = [document EXCEPT ![d] = doc]
  BY <1>0, <1>1, <1>2 DEF DeleteDocument
<1>4. doc \in [active : Texts \cup {NoText}, policy : Nat \ {0},
               generation : Nat, groups : Policies]
      /\ doc.active = NoText
  <2>1. {} \in Policies
    BY DEF Policies
  <2>2. doc = [active |-> NoText, policy |-> 1, generation |-> n, groups |-> {}]
    BY <1>1, <1>2
  <2> QED
    BY <2>1, <2>2
<1>5. PICK none : none = [policy |-> 0, by |-> Nobody]
  OBVIOUS
<1>6. none \in [policy : Nat, by : Owners \cup {Nobody}]
  BY <1>5
<1>7. stored' = [x \in Uris \X Texts |-> IF x[1] = d THEN none ELSE stored[x]]
  BY <1>1, <1>5 DEF DeleteDocument
<1>8. stored' \in [Uris \X Texts -> [policy : Nat, by : Owners \cup {Nobody}]]
      /\ \A e \in Uris \ {d}, x \in Texts : stored'[<<e, x>>] = stored[<<e, x>>]
  BY <1>6, <1>7 DEF IntakeInv, IntakeTypeOK
<1>9. document'[d].active = NoText
  BY <1>1, <1>3, <1>4
<1>10. SourceFollows(d)' /\ \A u \in Uploads : ~Twin(u, d)'
  BY <1>9, KeysOfUploads DEF SourceFollows, Twin
<1>11. UNCHANGED <<reserved, step, kind, tries, late, found, token>>
  BY DEF DeleteDocument, requestVars
<1> QED
  BY <1>3, <1>4, <1>8, <1>10, <1>11, SourceMoves

LEMMA StoreStep ==
  ASSUME IntakeInv, NEW w \in Uploads, StoreVersion(w)
  PROVE  IntakeInv'
<1> DEFINE d == UriOf[w]
           t == TextOf[w]
<1>1. d \in Uris /\ t \in Texts /\ t # NoText /\ <<d, t>> \in Uris \X Texts
  BY KeysOfUploads
<1>2. GoTo(w, "leaving") /\ step[w] = "running" /\ kind[w] = "uploads"
      /\ UNCHANGED <<reserved, kind, tries, late, found, token>>
  BY StepParts DEF StoreVersion, At, StepFollows
<1>3. PICK maker : maker = IF late[w] THEN Nobody ELSE OwnerToken(w)
  OBVIOUS
<1>4. maker \in Owners \cup {Nobody} /\ (maker # Nobody => ~late[w] /\ maker[1] = w)
  BY <1>3, OwnersAreNoNobody DEF OwnerToken, IntakeInv, IntakeTypeOK
<1>5. CASE document[d].active = t
  <2>1. PICK s : s = "leaving"
    OBVIOUS
  <2>2. GoTo(w, s) /\ s \notin {"running", "idle"}
    BY <1>2, <2>1
  <2>3. UNCHANGED <<document, stored>>
    BY <1>5 DEF StoreVersion
  <2>4. /\ DOMAIN found' = Uploads /\ DOMAIN token' = Uploads
        /\ \A u \in Uploads \ {w} : found'[u] = found[u] /\ token'[u] = token[u]
    BY <1>2, StepParts
  <2>5. /\ found'[w] = [exact |-> found'[w].exact, similar |-> found'[w].similar]
        /\ IsFiniteSet(found'[w].exact)
    BY <1>2, StepParts DEF StepFollows
  <2> QED
    BY <1>2, <2>1, <2>2, <2>3, <2>4, <2>5, Progress
<1>6. CASE document[d].active # t
  <2>1. /\ document[d] \in [active : Texts \cup {NoText}, policy : Nat \ {0},
                            generation : Nat, groups : Policies]
        /\ DOMAIN document = Uris
    BY <1>1 DEF IntakeInv, IntakeTypeOK
  <2>2. PICK doc : doc = [document[d] EXCEPT !.active = t, !.groups = SharedWith[w]]
    OBVIOUS
  <2>3. PICK made : made = [policy |-> document[d].policy, by |-> maker]
    OBVIOUS
  <2>4. document' = [document EXCEPT ![d] = doc] /\ stored' = [stored EXCEPT ![<<d, t>>] = made]
    BY <1>3, <1>6, <2>1, <2>2, <2>3 DEF StoreVersion
  <2>5. doc \in [active : Texts \cup {NoText}, policy : Nat \ {0},
                 generation : Nat, groups : Policies]
        /\ doc.active = t /\ doc.groups = SharedWith[w] /\ doc.policy = document[d].policy
    <3>1. SharedWith[w] \in Policies
      BY DEF Policies
    <3> QED
      BY <1>1, <2>1, <2>2, <3>1
  <2>6. made \in [policy : Nat, by : Owners \cup {Nobody}]
    BY <1>4, <2>1, <2>3
  <2>7. /\ document'[d] = doc /\ stored'[<<d, t>>] = made
        /\ \A e \in Uris \ {d} : document'[e] = document[e]
        /\ \A e \in Uris \ {d}, x \in Texts : stored'[<<e, x>>] = stored[<<e, x>>]
    BY <1>1, <2>1, <2>4 DEF IntakeInv, IntakeTypeOK
  <2>8. stored' \in [Uris \X Texts -> [policy : Nat, by : Owners \cup {Nobody}]]
    BY <2>4, <2>6 DEF IntakeInv, IntakeTypeOK
  <2>9. document' \in [Uris -> [active : Texts \cup {NoText}, policy : Nat \ {0},
                                generation : Nat, groups : Policies]]
    BY <2>4, <2>5 DEF IntakeInv, IntakeTypeOK
  <2>10. SourceFollows(d)'
    BY <1>4, <2>3, <2>5, <2>7 DEF SourceFollows
  <2>11. PICK s \in {"leaving"} : step' = [step EXCEPT ![w] = s]
    BY <1>2 DEF GoTo
  <2>12. step'[w] = "leaving" /\ \A u \in Uploads \ {w} : step'[u] = step[u]
    BY <2>11, StepParts
  <2>13. step' \in [Uploads -> {"idle", "possible", "exact", "similar", "exact again",
                                "similar again", "checked", "running", "leaving"}]
    BY <2>11 DEF IntakeInv, IntakeTypeOK
  <2>14. IntakeTypeOK'
    BY <1>2, <2>8, <2>9, <2>13 DEF IntakeInv, IntakeTypeOK
  <2>15. ASSUME NEW e \in Uris \ {d} PROVE SourceFollows(e)'
    <3>1. document[e].active \in Texts \cup {NoText} /\ document'[e] = document[e]
      BY <2>7 DEF IntakeInv, IntakeTypeOK
    <3>2. SourceFollows(e)
      BY DEF IntakeInv
    <3>3. CASE document[e].active \in Texts
      <4>1. stored'[<<e, document[e].active>>] = stored[<<e, document[e].active>>]
        BY <2>7, <3>3
      <4> QED
        BY <3>1, <3>2, <4>1 DEF SourceFollows
    <3>4. CASE document[e].active = NoText
      BY <3>1, <3>4 DEF SourceFollows
    <3> QED
      BY <3>1, <3>3, <3>4
  <2>16. ASSUME NEW u \in Uploads \ {w}, NEW e \in Uris, kind[u] = "uploads", ~late[u],
                Twin(u, e)'
         PROVE  Twin(u, e)
    <3>1. CASE e # d
      <4>1. document'[e] = document[e] /\ stored'[<<e, TextOf[u]>>] = stored[<<e, TextOf[u]>>]
        BY <2>7, <3>1, KeysOfUploads
      <4> QED
        BY <2>16, <4>1 DEF Twin, KeyOf
    <3>2. CASE e = d
      <4>1. TextOf[u] = t
        BY <2>5, <2>7, <2>16, <3>2 DEF Twin
      <4>2. made.by # Nobody /\ KeyOf(made.by[1]) = KeyOf(u)
        BY <2>7, <2>16, <3>2, <4>1 DEF Twin, KeyOf
      <4>3. ~late[w] /\ KeyOf(w) = KeyOf(u)
        BY <1>4, <2>3, <4>2
      <4> QED
        BY <1>2, <2>16, <4>3, SoleHolder
    <3> QED
      BY <3>1, <3>2
  <2>17. ASSUME NEW u \in Uploads \ {w} PROVE StepFollows(u)' /\ ReadSoFar(u)'
    BY <1>2, <2>12, <2>16, RequestKept
  <2>18. StepFollows(w)' /\ ReadSoFar(w)'
    BY <1>2, <2>12, StepParts DEF StepFollows, ReadSoFar
  <2>19. \A u \in Uploads : Holds(u)'
    BY <1>2, HoldsKept
  <2>20. \A u \in Uploads : Holds(u)' /\ StepFollows(u)' /\ ReadSoFar(u)'
    BY <2>17, <2>18, <2>19
  <2>21. \A e \in Uris : SourceFollows(e)'
    BY <2>10, <2>15
  <2> QED
    BY <2>14, <2>20, <2>21 DEF IntakeInv
<1> QED
  BY <1>5, <1>6

LEMMA IntakeRests ==
  ASSUME IntakeInv, UNCHANGED <<reserved, requestVars, document, stored>>
  PROVE  IntakeInv'
<1>1. UNCHANGED <<reserved, step, kind, tries, late, found, token>>
  BY DEF requestVars
<1>2. IntakeTypeOK' /\ \A d \in Uris : SourceFollows(d)'
  BY <1>1, SourceKept DEF IntakeInv, IntakeTypeOK
<1>3. ASSUME NEW u \in Uploads PROVE Holds(u)' /\ StepFollows(u)' /\ ReadSoFar(u)'
  BY <1>1, SourceKept, HoldsKept, RequestKept
<1> QED
  BY <1>2, <1>3 DEF IntakeInv

LEMMA IntakeStep == IntakeInv /\ [IntakeNext]_intakeVars => IntakeInv'
<1> SUFFICES ASSUME IntakeInv, [IntakeNext]_intakeVars PROVE IntakeInv'
  OBVIOUS
<1>1. ASSUME NEW w \in Uploads, LookForPossible(w) \/ ReadExact(w) \/ ReadSimilar(w)
             \/ RereadExact(w) \/ RereadSimilar(w) \/ GiveReceipt(w) \/ DecideUpload(w)
      PROVE  IntakeInv'
  BY <1>1, LookForPossibleStep, ReadExactStep, ReadSimilarStep, RereadStep, GiveReceiptStep,
     DecideUploadStep
<1>2. ASSUME NEW w \in Uploads, AskForReceipt(w) \/ ClaimUpload(w) \/ StoreVersion(w)
      PROVE  IntakeInv'
  BY <1>2, AskStep, ClaimStep, StoreStep
<1>3. ASSUME NEW w \in Uploads, FailUpload(w) PROVE IntakeInv'
  BY <1>3, LeaveStep DEF FailUpload, intakeSourceVars
<1>4. ASSUME NEW w \in Uploads, ReleaseUpload(w) \/ AbandonUpload(w) PROVE IntakeInv'
  <2>1. EndAttempt(w) /\ (UNCHANGED reserved \/ GiveBack(w))
    BY <1>4 DEF ReleaseUpload, AbandonUpload
  <2> QED
    BY <2>1, EndStep
<1>5. ASSUME NEW x \in Keys, LeaseEnds(x) PROVE IntakeInv'
  BY <1>5, LeaseEndsStep
<1>6. ASSUME NEW d \in Uris, NEW groups \in {SharedWith[u] : u \in Uploads},
             ChangeGroups(d, groups)
      PROVE  IntakeInv'
  <2>1. PICK w \in Uploads : groups = SharedWith[w]
    OBVIOUS
  <2>2. ChangeGroups(d, SharedWith[w])
    BY <1>6, <2>1
  <2> QED
    BY <2>2, ChangeGroupsStep
<1>7. ASSUME NEW d \in Uris, DeleteDocument(d) PROVE IntakeInv'
  BY <1>7, DeleteStep
<1>8. ASSUME NEW versions \in SUBSET (Uris \X Texts), ActivateRelease(versions)
      PROVE  IntakeInv'
  <2>1. UNCHANGED <<reserved, requestVars, document, stored>>
    BY <1>8 DEF ActivateRelease
  <2> QED
    BY <2>1, IntakeRests
<1>9. ASSUME UNCHANGED intakeVars PROVE IntakeInv'
  <2>1. UNCHANGED <<reserved, requestVars, document, stored>>
    BY <1>9 DEF intakeVars, intakeSourceVars
  <2> QED
    BY <2>1, IntakeRests
<1>10. CASE IntakeNext
  BY <1>1, <1>2, <1>3, <1>4, <1>5, <1>6, <1>7, <1>8, <1>10 DEF IntakeNext
<1> QED
  BY <1>9, <1>10

(* An upload holds the reservation of its content and readers until its    *)
(* lease lapses, and what it must not overlook it has seen since it read.  *)
THEOREM IntakeInvariance == IntakeSpec => []IntakeInv
<1> QED
  BY InitialIntake, IntakeStep, PTL DEF IntakeSpec

\* Only the upload itself writes its name.
LEMMA WhoStores ==
  ASSUME IntakeInv, [IntakeNext]_intakeVars, NEW u \in Uploads,
         stored'[<<UriOf[u], TextOf[u]>>].by # stored[<<UriOf[u], TextOf[u]>>].by,
         stored'[<<UriOf[u], TextOf[u]>>].by = OwnerToken(u)
  PROVE  StoreVersion(u) /\ ~late[u]
<1> DEFINE x == <<UriOf[u], TextOf[u]>>
<1>1. x \in Uris \X Texts /\ OwnerToken(u) # Nobody
  BY KeysOfUploads, OwnersAreNoNobody DEF OwnerToken, IntakeInv, IntakeTypeOK
<1>2. stored' # stored
  OBVIOUS
<1>3. ASSUME NEW d \in Uris, NEW groups, ChangeGroups(d, groups) PROVE FALSE
  <2>1. PICK n : n = document[d].policy + 1
    OBVIOUS
  <2>2. PICK y : y = <<d, document[d].active>>
    OBVIOUS
  <2>3. stored' = [stored EXCEPT ![y].policy = n]
    BY <1>3, <2>1, <2>2 DEF ChangeGroups
  <2>4. DOMAIN stored = Uris \X Texts /\ stored[x] \in [policy : Nat, by : Owners \cup {Nobody}]
    BY <1>1 DEF IntakeInv, IntakeTypeOK
  <2>5. stored'[x].by = stored[x].by
    BY <1>1, <2>3, <2>4
  <2> QED
    BY <2>5
<1>4. ASSUME NEW d \in Uris, DeleteDocument(d) PROVE FALSE
  <2>1. stored'[x] = IF x[1] = d THEN [policy |-> 0, by |-> Nobody] ELSE stored[x]
    BY <1>1, <1>4 DEF DeleteDocument, IntakeInv, IntakeTypeOK
  <2>2. x[1] = d => stored'[x].by = Nobody
    BY <2>1
  <2> QED
    BY <1>1, <2>1, <2>2
<1>5. ASSUME NEW w \in Uploads, StoreVersion(w) PROVE w = u /\ ~late[u]
  <2>1. PICK maker : maker = IF late[w] THEN Nobody ELSE OwnerToken(w)
    OBVIOUS
  <2>2. PICK y, made : /\ y = <<UriOf[w], TextOf[w]>>
                       /\ made = [policy |-> document[UriOf[w]].policy, by |-> maker]
    OBVIOUS
  <2>3. stored' = [stored EXCEPT ![y] = made]
    BY <1>2, <1>5, <2>1, <2>2 DEF StoreVersion
  <2>4. x = y
    BY <1>1, <2>3 DEF IntakeInv, IntakeTypeOK
  <2>5. stored'[x].by = maker
    BY <1>1, <2>2, <2>3, <2>4 DEF IntakeInv, IntakeTypeOK
  <2>6. maker = OwnerToken(w) /\ ~late[w]
    BY <1>1, <2>1, <2>5
  <2>7. <<w, tries[w]>> = <<u, tries[u]>>
    BY <2>5, <2>6 DEF OwnerToken
  <2> QED
    BY <2>6, <2>7
<1>6. \E w \in Uploads : StoreVersion(w)
  <2>1. stored' = stored
        \/ (\E d \in Uris, groups \in {SharedWith[w] : w \in Uploads} : ChangeGroups(d, groups))
        \/ (\E d \in Uris : DeleteDocument(d))
        \/ (\E w \in Uploads : StoreVersion(w))
    BY DEF IntakeNext, intakeVars, intakeSourceVars, AskForReceipt, ClaimUpload, LookForPossible,
           ReadExact, ReadSimilar, RereadExact, RereadSimilar, GiveReceipt, DecideUpload,
           FailUpload, ReleaseUpload, AbandonUpload, EndAttempt, LeaseEnds, ActivateRelease
  <2> QED
    BY <1>2, <1>3, <1>4, <2>1
<1> QED
  BY <1>5, <1>6

(* No version is stored beside a twin that its caller was not told of.     *)
THEOREM TwinsAreReviewed == IntakeSpec => NoUnreviewedTwin
<1>1. ASSUME IntakeInv, [IntakeNext]_intakeVars, NEW u \in Uploads,
             stored'[<<UriOf[u], TextOf[u]>>].by # stored[<<UriOf[u], TextOf[u]>>].by,
             stored'[<<UriOf[u], TextOf[u]>>].by = OwnerToken(u),
             NEW d \in Uris, NEW v \in Uploads,
             document[d].active = TextOf[u], document[d].policy = 1,
             stored[<<d, TextOf[u]>>].by # Nobody, stored[<<d, TextOf[u]>>].by[1] = v,
             KeyOf(v) = KeyOf(u)
      PROVE  token[u].truncated \/ [uri |-> d, text |-> TextOf[u]] \in token[u].exact
  <2>1. StoreVersion(u) /\ ~late[u]
    BY <1>1, WhoStores
  <2>2. step[u] = "running" /\ kind[u] = "uploads"
    BY <1>1, <2>1, StepParts DEF StoreVersion, At, StepFollows
  <2>3. Twin(u, d)
    BY <1>1 DEF Twin
  <2>4. Reported(u, d)
    BY <1>1, <2>1, <2>2, <2>3, StepParts DEF ReadSoFar
  <2> QED
    BY <2>4 DEF Reported
<1>2. IntakeInv /\ [IntakeNext]_intakeVars =>
        [\A u \in Uploads :
          stored'[<<UriOf[u], TextOf[u]>>].by # stored[<<UriOf[u], TextOf[u]>>].by
          /\ stored'[<<UriOf[u], TextOf[u]>>].by = OwnerToken(u) =>
            \A d \in Uris : \A v \in Uploads :
                /\ document[d].active = TextOf[u] /\ document[d].policy = 1
                /\ stored[<<d, TextOf[u]>>].by # Nobody /\ stored[<<d, TextOf[u]>>].by[1] = v
                /\ KeyOf(v) = KeyOf(u)
                => token[u].truncated
                   \/ [uri |-> d, text |-> TextOf[u]] \in token[u].exact]_intakeVars
  BY <1>1
<1> QED
  BY <1>2, IntakeInvariance, PTL DEF IntakeSpec, NoUnreviewedTwin

-----------------------------------------------------------------------------
(***************************************************************************)
(* The rate limiter.  What an interval was granted is a sum over the       *)
(* readings of the clock in it: the sum of the community modules is a      *)
(* fold, and what it obeys is shown by induction over the subsets of a     *)
(* finite set, a least counterexample having no smaller one.               *)
(***************************************************************************)

LEMMA LeastNat ==
  ASSUME NEW T, T \subseteq Nat, T # {}
  PROVE  \E n \in T : \A k \in T : n <= k
<1> DEFINE R == OpToRel(<, Nat)
<1>1. IsWellFoundedOn(R, Nat)
  BY NatLessThanWellFounded, Zenon
<1>2. PICK n \in T : \A k \in T : ~ (<<k, n>> \in R)
  <2> HIDE DEF R
  <2> QED
    BY <1>1, WFMin
<1>3. \A k \in T : ~ (k < n)
  <2> SUFFICES ASSUME NEW k \in T PROVE ~ (k < n)
    OBVIOUS
  <2>1. <<k, n>> \in R <=> k < n
    BY DEF OpToRel
  <2> QED
    BY <1>2, <2>1
<1> QED
  BY <1>3

\* Induction over finite sets: of those that are bad, one has no bad subset.
LEMMA LeastSet ==
  ASSUME NEW S, IsFiniteSet(S), NEW B, B \subseteq SUBSET S, B # {}
  PROVE  \E s \in B : \A t \in SUBSET s : t # s => t \notin B
<1> DEFINE size == [s \in B |-> Cardinality(s)]
           T == {size[s] : s \in B}
<1>1. \A s \in SUBSET S : IsFiniteSet(s) /\ Cardinality(s) \in Nat
  BY FS_Subset, FS_CardinalityType
<1>2. PICK n \in T : \A k \in T : n <= k
  <2>1. T \subseteq Nat /\ T # {}
    BY <1>1
  <2> HIDE DEF T
  <2> QED
    BY <2>1, LeastNat
<1>3. PICK s \in B : Cardinality(s) = n
  OBVIOUS
<1>4. ASSUME NEW t \in SUBSET s, t # s, t \in B
      PROVE  FALSE
  <2>1. Cardinality(t) <= n /\ Cardinality(t) # n
    BY <1>1, <1>3, <1>4, FS_Subset
  <2>2. n <= Cardinality(t) /\ n \in Nat /\ Cardinality(t) \in Nat
    BY <1>1, <1>2, <1>3, <1>4
  <2> QED
    BY <2>1, <2>2
<1> QED
  BY <1>4

Some(s) == CHOOSE x \in s : TRUE

\* What the fold computes on every subset of S.
Iterates(f, S, g) ==
    g = [s \in SUBSET S |-> IF s = {} THEN 0 ELSE f[Some(s)] + g[s \ {Some(s)}]]

LEMMA SumIsIterated ==
  ASSUME NEW f, NEW S
  PROVE  SumFunctionOnSet(f, S) = (CHOOSE g : Iterates(f, S, g))[S]
BY Zenon DEF SumFunctionOnSet, FoldFunctionOnSet, MapThenFoldSet, Iterates, Some

LEMMA IteratesAt ==
  ASSUME NEW f, NEW S, NEW g, Iterates(f, S, g), NEW s \in SUBSET S
  PROVE  g[s] = IF s = {} THEN 0 ELSE f[Some(s)] + g[s \ {Some(s)}]
BY DEF Iterates

LEMMA SomeIsIn == \A s : s # {} => Some(s) \in s
BY DEF Some

LEMMA IteratesOnce ==
  ASSUME NEW f, NEW S, IsFiniteSet(S), NEW g, Iterates(f, S, g),
         NEW U, NEW h, Iterates(f, U, h), U \subseteq S
  PROVE  \A s \in SUBSET U : g[s] = h[s]
<1> DEFINE B == {s \in SUBSET U : g[s] # h[s]}
<1>1. SUFFICES ASSUME B # {} PROVE FALSE
  OBVIOUS
<1>2. PICK s \in B : \A t \in SUBSET s : t # s => t \notin B
  <2>1. B \subseteq SUBSET S
    OBVIOUS
  <2> HIDE DEF B
  <2> QED
    BY <1>1, <2>1, LeastSet
<1>3. /\ g[s] = IF s = {} THEN 0 ELSE f[Some(s)] + g[s \ {Some(s)}]
      /\ h[s] = IF s = {} THEN 0 ELSE f[Some(s)] + h[s \ {Some(s)}]
  BY IteratesAt
<1>4. CASE s = {}
  BY <1>3, <1>4
<1>5. CASE s # {}
  <2>1. Some(s) \in s
    BY <1>5, SomeIsIn
  <2>2. s \ {Some(s)} \notin B /\ s \ {Some(s)} \in SUBSET U
    BY <1>2, <2>1
  <2>3. g[s \ {Some(s)}] = h[s \ {Some(s)}]
    BY <2>2
  <2> QED
    BY <1>3, <1>5, <2>3
<1> QED
  BY <1>4, <1>5

LEMMA IteratesSomehow ==
  ASSUME NEW f, NEW S, IsFiniteSet(S)
  PROVE  \E g : Iterates(f, S, g)
<1> DEFINE B == {s \in SUBSET S : ~ \E g : Iterates(f, s, g)}
<1>1. SUFFICES ASSUME B # {} PROVE FALSE
  OBVIOUS
<1>2. PICK s \in B : \A t \in SUBSET s : t # s => t \notin B
  <2>1. B \subseteq SUBSET S
    OBVIOUS
  <2> HIDE DEF B
  <2> QED
    BY <1>1, <2>1, LeastSet
<1> DEFINE of(t) == CHOOSE g : Iterates(f, t, g)
           value(t) == of(t)[t]
           all == [t \in SUBSET s |-> IF t = {} THEN 0 ELSE f[Some(t)] + value(t \ {Some(t)})]
<1>3. ASSUME NEW t \in SUBSET s, t # s
      PROVE  IsFiniteSet(t) /\ Iterates(f, t, of(t))
  <2>1. t \notin B /\ t \in SUBSET S
    BY <1>2, <1>3
  <2> QED
    BY <2>1, FS_Subset
<1>4. ASSUME NEW t \in SUBSET s, t # s
      PROVE  value(t) = IF t = {} THEN 0 ELSE f[Some(t)] + value(t \ {Some(t)})
  <2>1. value(t) = IF t = {} THEN 0 ELSE f[Some(t)] + of(t)[t \ {Some(t)}]
    <3> HIDE DEF of
    <3> QED
      BY <1>3, <1>4, IteratesAt
  <2>2. CASE t = {}
    BY <2>1, <2>2
  <2>3. CASE t # {}
    <3> DEFINE u == t \ {Some(t)}
    <3>1. u \in SUBSET s /\ u # s /\ u \subseteq t
      BY <2>3, SomeIsIn
    <3>2. Iterates(f, u, of(u)) /\ Iterates(f, t, of(t)) /\ IsFiniteSet(t)
      BY <1>3, <1>4, <3>1
    <3> HIDE DEF of, u
    <3>3. of(t)[u] = of(u)[u]
      BY <3>1, <3>2, IteratesOnce
    <3> QED
      BY <2>1, <2>3, <3>3 DEF u
  <2> QED
    BY <2>2, <2>3
<1>5. ASSUME NEW t \in SUBSET s, t # {}
      PROVE  all[t \ {Some(t)}] = value(t \ {Some(t)})
  <2> DEFINE u == t \ {Some(t)}
  <2>1. u \in SUBSET s /\ u # s
    BY <1>5, SomeIsIn
  <2> HIDE DEF value
  <2>2. all[u] = IF u = {} THEN 0 ELSE f[Some(u)] + value(u \ {Some(u)})
    <3> HIDE DEF u
    <3> QED
      BY <2>1
  <2>3. value(u) = IF u = {} THEN 0 ELSE f[Some(u)] + value(u \ {Some(u)})
    BY <1>4, <2>1
  <2> QED
    BY <2>2, <2>3
<1>6. Iterates(f, s, all)
  <2>1. \A t \in SUBSET s : all[t] = IF t = {} THEN 0 ELSE f[Some(t)] + all[t \ {Some(t)}]
    <3> SUFFICES ASSUME NEW t \in SUBSET s
                 PROVE  all[t] = IF t = {} THEN 0 ELSE f[Some(t)] + all[t \ {Some(t)}]
      OBVIOUS
    <3>1. all[t] = IF t = {} THEN 0 ELSE f[Some(t)] + value(t \ {Some(t)})
      <4> HIDE DEF value
      <4> QED
        OBVIOUS
    <3> HIDE DEF all, value
    <3> QED
      BY <1>5, <3>1
  <2>2. all = [t \in SUBSET s |-> all[t]]
    OBVIOUS
  <2> HIDE DEF all
  <2> QED
    BY <2>1, <2>2 DEF Iterates
<1> QED
  BY <1>6

LEMMA SumUnfolds ==
  ASSUME NEW f, NEW S, IsFiniteSet(S)
  PROVE  /\ SumFunctionOnSet(f, {}) = 0
         /\ S # {} => SumFunctionOnSet(f, S) = f[Some(S)] + SumFunctionOnSet(f, S \ {Some(S)})
<1> DEFINE of(t) == CHOOSE g : Iterates(f, t, g)
<1>1. ASSUME NEW t \in SUBSET S
      PROVE  IsFiniteSet(t) /\ Iterates(f, t, of(t)) /\ SumFunctionOnSet(f, t) = of(t)[t]
  <2>1. IsFiniteSet(t)
    BY FS_Subset
  <2> QED
    BY <2>1, IteratesSomehow, SumIsIterated
<1> HIDE DEF of
<1>2. SumFunctionOnSet(f, {}) = 0
  BY <1>1, IteratesAt
<1>3. ASSUME S # {}
      PROVE  SumFunctionOnSet(f, S) = f[Some(S)] + SumFunctionOnSet(f, S \ {Some(S)})
  <2> DEFINE u == S \ {Some(S)}
  <2>1. Iterates(f, S, of(S)) /\ Iterates(f, u, of(u)) /\ u \subseteq S
    BY <1>1
  <2>2. of(S)[u] = of(u)[u]
    <3> HIDE DEF u
    <3>1. u \in SUBSET u
      OBVIOUS
    <3> QED
      BY <2>1, <3>1, IteratesOnce
  <2>3. of(S)[S] = f[Some(S)] + of(S)[u]
    BY <1>3, <2>1, IteratesAt
  <2> QED
    BY <1>1, <2>2, <2>3
<1> QED
  BY <1>2, <1>3

LEMMA SumIsNumber ==
  ASSUME NEW f, NEW S, IsFiniteSet(S), \A x \in S : f[x] \in Nat
  PROVE  SumFunctionOnSet(f, S) \in Nat
<1> DEFINE B == {s \in SUBSET S : SumFunctionOnSet(f, s) \notin Nat}
<1>1. SUFFICES ASSUME B # {} PROVE FALSE
  OBVIOUS
<1>2. PICK s \in B : \A t \in SUBSET s : t # s => t \notin B
  <2>1. B \subseteq SUBSET S
    OBVIOUS
  <2> HIDE DEF B
  <2> QED
    BY <1>1, <2>1, LeastSet
<1>3. IsFiniteSet(s) /\ s # {}
  <2>1. IsFiniteSet(s)
    BY FS_Subset
  <2>2. SumFunctionOnSet(f, {}) = 0
    BY <2>1, SumUnfolds
  <2> QED
    BY <2>1, <2>2
<1>4. Some(s) \in s
  BY <1>3, SomeIsIn
<1>5. SumFunctionOnSet(f, s \ {Some(s)}) \in Nat
  BY <1>2, <1>4
<1>6. SumFunctionOnSet(f, s) = f[Some(s)] + SumFunctionOnSet(f, s \ {Some(s)})
  BY <1>3, SumUnfolds
<1> QED
  BY <1>4, <1>5, <1>6

LEMMA SumWithout ==
  ASSUME NEW f, NEW S, IsFiniteSet(S), \A x \in S : f[x] \in Nat
  PROVE  \A x \in S : SumFunctionOnSet(f, S) = f[x] + SumFunctionOnSet(f, S \ {x})
<1> DEFINE sum(s) == SumFunctionOnSet(f, s)
           B == {s \in SUBSET S : \E x \in s : sum(s) # f[x] + sum(s \ {x})}
<1>1. SUFFICES ASSUME B # {} PROVE FALSE
  BY DEF B
<1>2. PICK s \in B : \A t \in SUBSET s : t # s => t \notin B
  <2>1. B \subseteq SUBSET S
    OBVIOUS
  <2> HIDE DEF B
  <2> QED
    BY <1>1, <2>1, LeastSet
<1> DEFINE c == Some(s)
<1>3. IsFiniteSet(s) /\ s # {} /\ c \in s /\ s \in SUBSET S
  BY FS_Subset, SomeIsIn
<1>4. PICK x \in s : sum(s) # f[x] + sum(s \ {x})
  OBVIOUS
<1>5. \A t \in SUBSET s : sum(t) \in Nat
  BY <1>3, FS_Subset, SumIsNumber
<1>6. sum(s) = f[c] + sum(s \ {c})
  BY <1>3, SumUnfolds
<1>7. x # c
  BY <1>4, <1>6
<1> DEFINE u == (s \ {c}) \ {x}
<1> HIDE DEF sum, c
<1>8. sum(s \ {c}) = f[x] + sum(u)
  <2>1. s \ {c} \notin B /\ x \in s \ {c}
    BY <1>2, <1>3, <1>7
  <2> QED
    BY <1>3, <2>1
<1>9. sum(s \ {x}) = f[c] + sum(u)
  <2>1. s \ {x} \notin B /\ c \in s \ {x} /\ (s \ {x}) \ {c} = u
    BY <1>2, <1>3, <1>7
  <2> QED
    BY <1>3, <2>1
<1>10. f[x] \in Nat /\ f[c] \in Nat /\ sum(u) \in Nat
  BY <1>3, <1>5
<1> QED
  BY <1>4, <1>6, <1>8, <1>9, <1>10

LEMMA SumAgrees ==
  ASSUME NEW f, NEW g, NEW S, IsFiniteSet(S), \A x \in S : f[x] = g[x]
  PROVE  SumFunctionOnSet(f, S) = SumFunctionOnSet(g, S)
<1> DEFINE B == {s \in SUBSET S : SumFunctionOnSet(f, s) # SumFunctionOnSet(g, s)}
<1>1. SUFFICES ASSUME B # {} PROVE FALSE
  OBVIOUS
<1>2. PICK s \in B : \A t \in SUBSET s : t # s => t \notin B
  <2>1. B \subseteq SUBSET S
    OBVIOUS
  <2> HIDE DEF B
  <2> QED
    BY <1>1, <2>1, LeastSet
<1>3. IsFiniteSet(s)
  BY FS_Subset
<1>4. CASE s = {}
  <2>1. SumFunctionOnSet(f, {}) = 0 /\ SumFunctionOnSet(g, {}) = 0
    BY <1>3, SumUnfolds
  <2> QED
    BY <1>4, <2>1
<1>5. CASE s # {}
  <2>1. Some(s) \in s /\ f[Some(s)] = g[Some(s)]
    BY <1>5, SomeIsIn
  <2>2. SumFunctionOnSet(f, s \ {Some(s)}) = SumFunctionOnSet(g, s \ {Some(s)})
    BY <1>2, <2>1
  <2>3. /\ SumFunctionOnSet(f, s) = f[Some(s)] + SumFunctionOnSet(f, s \ {Some(s)})
        /\ SumFunctionOnSet(g, s) = g[Some(s)] + SumFunctionOnSet(g, s \ {Some(s)})
    BY <1>3, <1>5, SumUnfolds
  <2> QED
    BY <2>1, <2>2, <2>3
<1> QED
  BY <1>4, <1>5

LEMMA SumOfUnion ==
  ASSUME NEW f, NEW S, IsFiniteSet(S), \A x \in S : f[x] \in Nat, NEW T \in SUBSET S
  PROVE  SumFunctionOnSet(f, S) = SumFunctionOnSet(f, T) + SumFunctionOnSet(f, S \ T)
<1> DEFINE sum(s) == SumFunctionOnSet(f, s)
           B == {s \in SUBSET T : sum(S) # sum(s) + sum(S \ s)}
<1>1. SUFFICES ASSUME B # {} PROVE FALSE
  BY DEF B
<1>2. PICK s \in B : \A t \in SUBSET s : t # s => t \notin B
  <2>1. B \subseteq SUBSET S
    OBVIOUS
  <2> HIDE DEF B
  <2> QED
    BY <1>1, <2>1, LeastSet
<1>3. \A t \in SUBSET S : IsFiniteSet(t) /\ sum(t) \in Nat
  <2> SUFFICES ASSUME NEW t \in SUBSET S
               PROVE  IsFiniteSet(t) /\ sum(t) \in Nat
    OBVIOUS
  <2>1. IsFiniteSet(t)
    BY FS_Subset
  <2> QED
    BY <2>1, SumIsNumber
<1>4. CASE s = {}
  <2>1. sum({}) = 0 /\ S \ {} = S /\ sum(S) \in Nat
    BY <1>3, SumUnfolds
  <2> QED
    BY <1>4, <2>1
<1>5. CASE s # {}
  <2>1. PICK x \in s : x \in S
    BY <1>5
  <2> DEFINE t == s \ {x}
  <2>2. sum(S) = sum(t) + sum(S \ t)
    <3>1. t \notin B /\ t \in SUBSET T
      BY <1>2, <2>1
    <3> HIDE DEF sum, t
    <3> QED
      BY <3>1
  <2>3. sum(s) = f[x] + sum(t)
    BY <1>3, SumWithout
  <2>4. sum(S \ t) = f[x] + sum(S \ s)
    <3>1. x \in S \ t /\ (S \ t) \ {x} = S \ s /\ IsFiniteSet(S \ t)
      BY <1>3, <2>1
    <3> DEFINE u == S \ t
    <3>2. \A y \in u : f[y] \in Nat
      OBVIOUS
    <3> HIDE DEF u
    <3>3. sum(u) = f[x] + sum(u \ {x})
      BY <3>1, <3>2, SumWithout DEF u
    <3> QED
      BY <3>1, <3>3 DEF u
  <2>5. f[x] \in Nat /\ sum(t) \in Nat /\ sum(S \ s) \in Nat /\ sum(S) # sum(s) + sum(S \ s)
    BY <1>3, <2>1
  <2> HIDE DEF sum, t
  <2> QED
    BY <2>2, <2>3, <2>4, <2>5
<1> QED
  BY <1>4, <1>5

LEMMA SumOfZeros ==
  ASSUME NEW f, NEW S, IsFiniteSet(S), \A x \in S : f[x] = 0
  PROVE  SumFunctionOnSet(f, S) = 0
<1> DEFINE B == {s \in SUBSET S : SumFunctionOnSet(f, s) # 0}
<1>1. SUFFICES ASSUME B # {} PROVE FALSE
  OBVIOUS
<1>2. PICK s \in B : \A t \in SUBSET s : t # s => t \notin B
  <2>1. B \subseteq SUBSET S
    OBVIOUS
  <2> HIDE DEF B
  <2> QED
    BY <1>1, <2>1, LeastSet
<1>3. IsFiniteSet(s) /\ SumFunctionOnSet(f, {}) = 0
  BY FS_Subset, SumUnfolds
<1>4. s # {} /\ Some(s) \in s /\ f[Some(s)] = 0
  BY <1>3, SomeIsIn
<1>5. SumFunctionOnSet(f, s \ {Some(s)}) = 0
  BY <1>2, <1>4
<1>6. SumFunctionOnSet(f, s) = f[Some(s)] + SumFunctionOnSet(f, s \ {Some(s)})
  BY <1>3, <1>4, SumUnfolds
<1> QED
  BY <1>4, <1>5, <1>6

-----------------------------------------------------------------------------
(* What is granted in an interval                                          *)

Grants == [0..MaxTime -> Nat]

\* What was granted from one reading to another, as in GrantedIn.
GrantedFrom(f, first, last) == SumFunctionOnSet(f, first..last)

LEMMA IntervalType ==
  ASSUME NEW f \in Grants, NEW first \in 0..MaxTime, NEW last \in Int, last <= MaxTime
  PROVE  /\ IsFiniteSet(first..last) /\ \A i \in first..last : f[i] \in Nat
         /\ GrantedFrom(f, first, last) \in Nat
<1>1. MaxTime \in Nat
  BY LimiterAssumption
<1>2. first..last \subseteq 0..MaxTime /\ IsFiniteSet(first..last)
  BY <1>1, FS_Interval
<1>3. \A i \in first..last : f[i] \in Nat
  BY <1>2 DEF Grants
<1> QED
  BY <1>2, <1>3, SumIsNumber DEF GrantedFrom

LEMMA IntervalSplit ==
  ASSUME NEW f \in Grants, NEW first \in 0..MaxTime, NEW last \in 0..MaxTime,
         NEW m \in first..last
  PROVE  GrantedFrom(f, first, last) = GrantedFrom(f, first, m - 1) + GrantedFrom(f, m, last)
<1>1. MaxTime \in Nat
  BY LimiterAssumption
<1>2. first..(m - 1) \subseteq first..last /\ (first..last) \ (first..(m - 1)) = m..last
  BY <1>1
<1>3. IsFiniteSet(first..last) /\ \A i \in first..last : f[i] \in Nat
  BY <1>1, IntervalType
<1> QED
  BY <1>2, <1>3, SumOfUnion DEF GrantedFrom

LEMMA IntervalGrows ==
  ASSUME NEW f \in Grants, NEW first \in 0..MaxTime, NEW last \in 0..MaxTime,
         NEW earlier \in 0..first, NEW later \in last..MaxTime
  PROVE  /\ GrantedFrom(f, first, last) <= GrantedFrom(f, earlier, later)
         /\ GrantedFrom(f, first, last - 1) <= GrantedFrom(f, earlier, later)
<1>1. MaxTime \in Nat
  BY LimiterAssumption
<1>2. ASSUME NEW to \in Int, to <= later
      PROVE  GrantedFrom(f, first, to) <= GrantedFrom(f, earlier, later)
  <2>1. first..to \subseteq earlier..later /\ earlier \in 0..MaxTime /\ later \in 0..MaxTime
    BY <1>1, <1>2
  <2> DEFINE S == earlier..later
             T == first..to
  <2>2. IsFiniteSet(S) /\ \A i \in S : f[i] \in Nat
    BY <2>1, IntervalType
  <2>3. T \in SUBSET S /\ IsFiniteSet(T) /\ IsFiniteSet(S \ T)
    BY <2>1, <2>2, FS_Subset
  <2> HIDE DEF S, T
  <2>4. SumFunctionOnSet(f, S) = SumFunctionOnSet(f, T) + SumFunctionOnSet(f, S \ T)
    BY <2>2, <2>3, SumOfUnion
  <2>5. SumFunctionOnSet(f, T) \in Nat /\ SumFunctionOnSet(f, S \ T) \in Nat
    BY <2>2, <2>3, SumIsNumber
  <2>6. SumFunctionOnSet(f, T) <= SumFunctionOnSet(f, S)
    BY <2>4, <2>5
  <2> QED
    BY <2>6 DEF GrantedFrom, S, T
<1> QED
  BY <1>1, <1>2

LEMMA IntervalEmpty ==
  ASSUME NEW f \in Grants, NEW first \in 0..MaxTime, NEW last \in 0..MaxTime,
         \A i \in 0..MaxTime : i >= first => f[i] = 0
  PROVE  GrantedFrom(f, first, last) = 0
<1>1. MaxTime \in Nat
  BY LimiterAssumption
<1>2. IsFiniteSet(first..last) /\ \A i \in first..last : f[i] = 0
  BY <1>1, IntervalType
<1> QED
  BY <1>2, SumOfZeros DEF GrantedFrom

LEMMA GrantedMore ==
  ASSUME NEW f \in [0..MaxTime -> Nat], NEW now \in 0..MaxTime, NEW cost \in Nat
  PROVE  [f EXCEPT ![now] = @ + cost] \in [0..MaxTime -> Nat]
OBVIOUS

LEMMA IntervalCharged ==
  ASSUME NEW f \in Grants, NEW now \in 0..MaxTime, NEW cost \in Nat,
         NEW first \in 0..MaxTime, NEW last \in Int, last <= MaxTime
  PROVE  LET g == [f EXCEPT ![now] = @ + cost] IN
         /\ g \in Grants
         /\ GrantedFrom(g, first, last) =
               IF now \in first..last
               THEN GrantedFrom(f, first, last) + cost
               ELSE GrantedFrom(f, first, last)
<1> DEFINE g == [f EXCEPT ![now] = @ + cost]
           S == first..last
<1>1. g \in Grants /\ g[now] = f[now] + cost /\ f[now] \in Nat
      /\ \A i \in 0..MaxTime : i # now => g[i] = f[i]
  BY DEF Grants
<1>2. S \subseteq 0..MaxTime /\ MaxTime \in Nat
  BY LimiterAssumption
<1> HIDE DEF g
<1>3. /\ IsFiniteSet(S) /\ \A i \in S : f[i] \in Nat /\ g[i] \in Nat
  BY <1>1, IntervalType
<1> HIDE DEF S
<1>4. CASE now \notin S
  <2>1. \A i \in S : f[i] = g[i]
    BY <1>1, <1>2, <1>4
  <2>2. SumFunctionOnSet(f, S) = SumFunctionOnSet(g, S)
    BY <1>3, <2>1, SumAgrees
  <2> QED
    BY <1>1, <1>4, <2>2 DEF GrantedFrom, S, g
<1>5. CASE now \in S
  <2> DEFINE T == S \ {now}
  <2>1. T \subseteq S
    OBVIOUS
  <2>2. IsFiniteSet(T)
    <3> HIDE DEF T
    <3> QED
      BY <1>3, <2>1, FS_Subset
  <2>3. \A i \in T : f[i] = g[i]
    BY <1>1, <1>2
  <2>4. \A i \in T : f[i] \in Nat
    BY <1>3
  <2>5. SumFunctionOnSet(f, S) = f[now] + SumFunctionOnSet(f, T)
    <3>1. IsFiniteSet(S) /\ \A x \in S : f[x] \in Nat
      BY <1>3
    <3>2. \A x \in S : SumFunctionOnSet(f, S) = f[x] + SumFunctionOnSet(f, S \ {x})
      BY <3>1, SumWithout
    <3> QED
      BY <1>5, <3>2
  <2>6. SumFunctionOnSet(g, S) = g[now] + SumFunctionOnSet(g, T)
    <3>1. IsFiniteSet(S) /\ \A x \in S : g[x] \in Nat
      BY <1>3
    <3>2. \A x \in S : SumFunctionOnSet(g, S) = g[x] + SumFunctionOnSet(g, S \ {x})
      BY <3>1, SumWithout
    <3> QED
      BY <1>5, <3>2
  <2> HIDE DEF T
  <2>7. SumFunctionOnSet(f, T) = SumFunctionOnSet(g, T) /\ SumFunctionOnSet(f, T) \in Nat
    BY <2>2, <2>3, <2>4, SumAgrees, SumIsNumber
  <2>8. SumFunctionOnSet(g, S) = SumFunctionOnSet(f, S) + cost
    BY <1>1, <2>5, <2>6, <2>7
  <2> QED
    BY <1>1, <1>5, <2>8 DEF GrantedFrom, S, g
<1> QED
  BY <1>4, <1>5

-----------------------------------------------------------------------------
\* Products, which the lemmas below take apart.
LEMMA Products ==
  ASSUME NEW a \in Nat, NEW b \in Nat, NEW c \in Nat
  PROVE  /\ a * c \in Nat /\ (a + b) * c = a * c + b * c
         /\ a <= b => a * c <= b * c
         /\ c # 0 /\ a * c <= b * c => a <= b
<1>1. a * c \in Nat /\ b * c \in Nat /\ (a + b) * c = a * c + b * c
  BY SMT
<1>2. ASSUME a <= b PROVE a * c <= b * c
  <2>1. PICK d \in Nat : b = a + d
    <3>1. b - a \in Nat /\ b = a + (b - a)
      BY <1>2
    <3> QED
      BY <3>1
  <2>2. (a + d) * c = a * c + d * c /\ d * c \in Nat /\ a * c \in Nat
    BY SMT
  <2> QED
    BY <2>1, <2>2
<1>3. ASSUME c # 0, a * c <= b * c, ~ (a <= b) PROVE FALSE
  <2>1. PICK d \in Nat : a = (b + 1) + d
    <3>1. a - (b + 1) \in Nat /\ a = (b + 1) + (a - (b + 1))
      BY <1>3
    <3> QED
      BY <3>1
  <2>2. ((b + 1) + d) * c = b * c + c + d * c /\ d * c \in Nat /\ b * c \in Nat
    BY SMT
  <2> QED
    BY <1>3, <2>1, <2>2
<1> QED
  BY <1>1, <1>2, <1>3

Entries == [amount : 0..Full, updated : 0..MaxTime]

\* A bucket holds what the burst and the refill since any earlier time leave
\* of what was granted since.
BucketOK(f, e) ==
    /\ \A i \in 0..MaxTime : i > e.updated => f[i] = 0
    /\ \A first \in 0..e.updated :
          GrantedFrom(f, first, MaxTime) * Window + e.amount
             <= Full + (e.updated - first) * Requests

\* What a principal without an entry was granted has been refilled.
BucketGone(f, now) ==
    /\ \A i \in 0..MaxTime : i > now => f[i] = 0
    /\ \A first \in 0..now : GrantedFrom(f, first, MaxTime) * Window <= (now - first) * Requests

\* A window counts what was granted in it; what lies less than a window
\* before it is one window's worth.
WindowOK(f, e) ==
    /\ \A i \in 0..MaxTime : i >= e.updated + Window => f[i] = 0
    /\ GrantedFrom(f, e.updated, MaxTime) * Window <= e.amount
    /\ \A first \in 0..MaxTime : first < e.updated /\ e.updated - first < Window =>
          GrantedFrom(f, first, e.updated - 1) <= Requests

WindowGone(f, now) ==
    /\ \A i \in 0..MaxTime : i >= now => f[i] = 0
    /\ \A first \in 0..now : now - first < Window => GrantedFrom(f, first, MaxTime) <= Requests

EntryOK(f, e) == IF algorithm = "token_bucket" THEN BucketOK(f, e) ELSE WindowOK(f, e)
GoneOK(f, now) == IF algorithm = "token_bucket" THEN BucketGone(f, now) ELSE WindowGone(f, now)

\* GrantsWithinBudget for the grants of one principal.
Budget(f) ==
    \A first, last \in 0..MaxTime : first <= last =>
        \/ /\ algorithm = "token_bucket"
           /\ GrantedFrom(f, first, last) * Window <= Full + (last - first) * Requests
        \/ /\ algorithm = "fixed_window"
           /\ last - first < Window => GrantedFrom(f, first, last) <= 2 * Requests

\* What a check finds or makes: a bucket filled up to now, a window not over.
Ready(e, now) ==
    /\ e.updated <= now
    /\ IF algorithm = "token_bucket" THEN e.updated = now ELSE now < e.updated + Window

LEMMA FullIsNumber ==
  ASSUME algorithm \in {"fixed_window", "token_bucket"}
  PROVE  /\ MaxTime \in Nat /\ Requests \in Nat /\ Window \in Nat /\ Full \in Nat
         /\ Requests # 0 /\ Window # 0 /\ Costs \subseteq Nat
         /\ algorithm = "fixed_window" => Full = Requests * Window
<1>1. /\ MaxTime \in Nat /\ Requests \in Nat /\ Window \in Nat /\ Burst \in Nat
      /\ Requests # 0 /\ Window # 0 /\ Costs \subseteq Nat
  BY LimiterAssumption
<1>2. Allowance \in Nat
  BY <1>1 DEF Allowance
<1>3. Full \in Nat
  BY <1>1, <1>2, Products DEF Full
<1> QED
  BY <1>1, <1>3 DEF Full, Allowance

\* An entry no different from a fresh one may be forgotten: a bucket.
LEMMA BucketForgotten ==
  ASSUME algorithm = "token_bucket", NEW f \in Grants, NEW e \in Entries, BucketOK(f, e),
         NEW now \in 0..MaxTime, e.updated <= now,
         e.amount + (now - e.updated) * Requests >= Full
  PROVE  BucketGone(f, now)
<1>0. MaxTime \in Nat /\ Requests \in Nat /\ Window \in Nat /\ Full \in Nat
  BY FullIsNumber
<1>1. PICK amount \in Nat, updated \in 0..MaxTime : e.amount = amount /\ e.updated = updated
  BY <1>0 DEF Entries
<1>2. \A i \in 0..MaxTime : i > now => f[i] = 0
  BY <1>0, <1>1 DEF BucketOK
<1>3. ASSUME NEW first \in 0..now
      PROVE  GrantedFrom(f, first, MaxTime) * Window <= (now - first) * Requests
  <2>1. PICK total \in Nat : total = GrantedFrom(f, first, MaxTime)
    <3>1. first \in 0..MaxTime /\ MaxTime \in Int /\ MaxTime <= MaxTime
      BY <1>0
    <3> QED
      BY <3>1, IntervalType
  <2>2. CASE first <= updated
    <3>1. total * Window + amount <= Full + (updated - first) * Requests
      BY <1>0, <1>1, <2>1, <2>2 DEF BucketOK
    <3>2. PICK before \in Nat, since \in Nat : before = updated - first /\ since = now - updated
      BY <1>0, <1>1, <2>2
    <3>3. /\ (since + before) * Requests = since * Requests + before * Requests
          /\ since * Requests \in Nat /\ before * Requests \in Nat /\ total * Window \in Nat
      BY <1>0, Products
    <3>4. since + before = now - first
      BY <1>0, <1>1, <3>2
    <3>5. amount + since * Requests >= Full
      BY <1>1, <3>2
    <3>6. total * Window + amount <= Full + before * Requests
      BY <3>1, <3>2
    <3> QED
      BY <1>0, <2>1, <3>3, <3>4, <3>5, <3>6
  <2>3. CASE first > updated
    <3>1. total = 0
      <4>1. \A i \in 0..MaxTime : i >= first => f[i] = 0
        BY <1>0, <1>1, <2>3 DEF BucketOK
      <4> QED
        BY <1>0, <2>1, <4>1, IntervalEmpty
    <3>2. (now - first) * Requests \in Nat
      <4>1. now - first \in Nat
        BY <1>0
      <4> QED
        BY <1>0, <4>1, Products
    <3> QED
      BY <1>0, <2>1, <3>1, <3>2
  <2> QED
    BY <1>0, <1>1, <2>2, <2>3
<1> QED
  BY <1>2, <1>3 DEF BucketGone

\* ... and a window.
LEMMA WindowForgotten ==
  ASSUME algorithm = "fixed_window", NEW f \in Grants, NEW e \in Entries, WindowOK(f, e),
         NEW now \in 0..MaxTime, e.updated + Window <= now
  PROVE  WindowGone(f, now)
<1>0. /\ MaxTime \in Nat /\ Requests \in Nat /\ Window \in Nat /\ Window # 0
      /\ Full = Requests * Window
  BY FullIsNumber
<1>1. PICK amount \in Nat, updated \in 0..MaxTime :
         e.amount = amount /\ e.updated = updated /\ amount <= Requests * Window
  <2>1. Requests * Window \in Nat
    BY <1>0, Products
  <2> QED
    BY <1>0, <2>1 DEF Entries
<1>2. \A i \in 0..MaxTime : i >= now => f[i] = 0
  BY <1>0, <1>1 DEF WindowOK
<1>3. ASSUME NEW first \in 0..now, now - first < Window
      PROVE  GrantedFrom(f, first, MaxTime) <= Requests
  <2>1. updated \in 0..first /\ first \in 0..MaxTime
    BY <1>0, <1>1, <1>3
  <2>2. GrantedFrom(f, first, MaxTime) <= GrantedFrom(f, updated, MaxTime)
    BY <1>0, <2>1, IntervalGrows
  <2>3. GrantedFrom(f, first, MaxTime) \in Nat /\ GrantedFrom(f, updated, MaxTime) \in Nat
    BY <1>0, <1>1, <2>1, IntervalType
  <2>4. PICK total \in Nat : total = GrantedFrom(f, updated, MaxTime)
    BY <2>3
  <2>5. total <= Requests
    <3>1. total * Window <= amount
      BY <1>1, <2>4 DEF WindowOK
    <3>2. total * Window <= Requests * Window /\ total * Window \in Nat
      BY <1>0, <1>1, <3>1, Products
    <3> QED
      BY <1>0, <3>2, Products
  <2> QED
    BY <1>0, <2>2, <2>3, <2>4, <2>5
<1> QED
  BY <1>2, <1>3 DEF WindowGone

\* An entry is forgotten only as one no different from a fresh one.
LEMMA Forgotten ==
  ASSUME algorithm \in {"fixed_window", "token_bucket"},
         NEW f \in Grants, NEW e \in Entries, EntryOK(f, e),
         NEW now \in 0..MaxTime, e.updated <= now, Inactive(e, now)
  PROVE  GoneOK(f, now)
<1>0. MaxTime \in Nat /\ Requests \in Nat /\ Window \in Nat /\ Full \in Nat /\ Window # 0
  BY FullIsNumber
<1>1. e.updated \in 0..MaxTime
  BY DEF Entries
<1>2. Elapsed(e, now) = now - e.updated
  BY <1>0, <1>1 DEF Elapsed
<1>3. CASE algorithm = "token_bucket"
  <2>1. BucketOK(f, e) /\ e.amount + (now - e.updated) * Requests >= Full
    BY <1>2, <1>3 DEF EntryOK, Inactive
  <2> QED
    BY <1>3, <2>1, BucketForgotten DEF GoneOK
<1>4. CASE algorithm = "fixed_window"
  <2>1. WindowOK(f, e) /\ now - e.updated >= Window
    BY <1>2, <1>4 DEF EntryOK, Inactive
  <2>2. e.updated + Window <= now
    BY <1>0, <1>1, <2>1
  <2> QED
    BY <1>4, <2>1, <2>2, WindowForgotten DEF GoneOK
<1> QED
  BY <1>3, <1>4

\* Time only refills.
LEMMA Ages ==
  ASSUME algorithm \in {"fixed_window", "token_bucket"}, NEW f \in Grants,
         NEW h \in 0..MaxTime, GoneOK(f, h), NEW now \in 0..MaxTime, h <= now
  PROVE  GoneOK(f, now)
<1>0. MaxTime \in Nat /\ Requests \in Nat /\ Window \in Nat /\ Window # 0
  BY FullIsNumber
<1>1. CASE algorithm = "token_bucket"
  <2>1. \A i \in 0..MaxTime : i > h => f[i] = 0
    BY <1>1 DEF GoneOK, BucketGone
  <2>2. ASSUME NEW first \in 0..now
        PROVE  GrantedFrom(f, first, MaxTime) * Window <= (now - first) * Requests
    <3>0. first \in 0..MaxTime /\ now - first \in Nat
      BY <1>0
    <3>1. PICK total \in Nat : total = GrantedFrom(f, first, MaxTime)
      BY <1>0, <3>0, IntervalType
    <3>2. total * Window \in Nat /\ (now - first) * Requests \in Nat
      BY <1>0, <3>0, Products
    <3>3. CASE first <= h
      <4>1. total * Window <= (h - first) * Requests
        BY <1>0, <1>1, <3>1, <3>3 DEF GoneOK, BucketGone
      <4>2. h - first \in Nat /\ h - first <= now - first
        BY <1>0, <3>3
      <4>3. (h - first) * Requests <= (now - first) * Requests /\ (h - first) * Requests \in Nat
        BY <1>0, <3>0, <4>2, Products
      <4> QED
        BY <3>1, <3>2, <4>1, <4>3
    <3>4. CASE first > h
      <4>1. \A i \in 0..MaxTime : i >= first => f[i] = 0
        BY <1>0, <2>1, <3>4
      <4>2. total = 0
        BY <1>0, <3>0, <3>1, <4>1, IntervalEmpty
      <4> QED
        BY <1>0, <3>1, <3>2, <4>2
    <3> QED
      BY <1>0, <3>3, <3>4
  <2>3. \A i \in 0..MaxTime : i > now => f[i] = 0
    BY <1>0, <2>1
  <2> QED
    BY <1>1, <2>2, <2>3 DEF GoneOK, BucketGone
<1>2. CASE algorithm = "fixed_window"
  <2>1. \A i \in 0..MaxTime : i >= h => f[i] = 0
    BY <1>2 DEF GoneOK, WindowGone
  <2>2. ASSUME NEW first \in 0..now, now - first < Window
        PROVE  GrantedFrom(f, first, MaxTime) <= Requests
    <3>1. CASE first <= h
      <4>1. first \in 0..h /\ h - first < Window
        BY <1>0, <2>2, <3>1
      <4> QED
        BY <1>2, <4>1 DEF GoneOK, WindowGone
    <3>2. CASE first > h
      <4>1. \A i \in 0..MaxTime : i >= first => f[i] = 0
        BY <1>0, <2>1, <3>2
      <4>2. GrantedFrom(f, first, MaxTime) = 0
        BY <1>0, <4>1, IntervalEmpty
      <4> QED
        BY <1>0, <4>2
    <3> QED
      BY <1>0, <3>1, <3>2
  <2>3. \A i \in 0..MaxTime : i >= now => f[i] = 0
    BY <1>0, <2>1
  <2> QED
    BY <1>2, <2>2, <2>3 DEF GoneOK, WindowGone
<1> QED
  BY <1>1, <1>2

\* Who has no entry, or one that is forgotten, may start afresh.
LEMMA StartsAfresh ==
  ASSUME algorithm \in {"fixed_window", "token_bucket"}, NEW f \in Grants,
         NEW now \in 0..MaxTime, GoneOK(f, now)
  PROVE  /\ Fresh(now) \in Entries /\ Fresh(now).updated = now
         /\ EntryOK(f, Fresh(now)) /\ Ready(Fresh(now), now)
<1>0. /\ MaxTime \in Nat /\ Requests \in Nat /\ Window \in Nat /\ Window # 0 /\ Full \in Nat
  BY FullIsNumber
<1>1. Fresh(now) \in Entries /\ Fresh(now).updated = now
      /\ Fresh(now).amount = IF algorithm = "fixed_window" THEN 0 ELSE Full
  BY <1>0 DEF Fresh, Entries
<1>2. Ready(Fresh(now), now)
  BY <1>0, <1>1 DEF Ready
<1>3. CASE algorithm = "token_bucket"
  <2>1. \A i \in 0..MaxTime : i > now => f[i] = 0
    BY <1>3 DEF GoneOK, BucketGone
  <2>2. ASSUME NEW first \in 0..now
        PROVE  GrantedFrom(f, first, MaxTime) * Window + Full <= Full + (now - first) * Requests
    <3>1. now - first \in Nat /\ first \in 0..MaxTime
      BY <1>0
    <3>2. GrantedFrom(f, first, MaxTime) \in Nat
      BY <1>0, <3>1, IntervalType
    <3>3. GrantedFrom(f, first, MaxTime) * Window \in Nat /\ (now - first) * Requests \in Nat
      BY <1>0, <3>1, <3>2, Products
    <3>4. GrantedFrom(f, first, MaxTime) * Window <= (now - first) * Requests
      BY <1>3 DEF GoneOK, BucketGone
    <3> QED
      BY <1>0, <3>3, <3>4
  <2> QED
    BY <1>1, <1>2, <1>3, <2>1, <2>2 DEF EntryOK, BucketOK
<1>4. CASE algorithm = "fixed_window"
  <2>1. \A i \in 0..MaxTime : i >= now => f[i] = 0
    BY <1>4 DEF GoneOK, WindowGone
  <2>2. GrantedFrom(f, now, MaxTime) = 0
    BY <1>0, <2>1, IntervalEmpty
  <2>3. \A i \in 0..MaxTime : i >= now + Window => f[i] = 0
    BY <1>0, <2>1
  <2>4. ASSUME NEW first \in 0..MaxTime, first < now, now - first < Window
        PROVE  GrantedFrom(f, first, now - 1) <= Requests
    <3>1. GrantedFrom(f, first, MaxTime) <= Requests
      BY <1>0, <1>4, <2>4 DEF GoneOK, WindowGone
    <3>2. GrantedFrom(f, first, now - 1) <= GrantedFrom(f, first, MaxTime)
      BY <1>0, IntervalGrows
    <3>3. GrantedFrom(f, first, now - 1) \in Nat /\ GrantedFrom(f, first, MaxTime) \in Nat
      BY <1>0, IntervalType
    <3> QED
      BY <1>0, <3>1, <3>2, <3>3
  <2>5. GrantedFrom(f, now, MaxTime) * Window <= 0
    BY <1>0, <2>2
  <2> QED
    BY <1>1, <1>2, <1>4, <2>3, <2>4, <2>5 DEF EntryOK, WindowOK
<1> QED
  BY <1>3, <1>4

\* An entry brought up to the time of a check.
LEMMA Refreshes ==
  ASSUME algorithm \in {"fixed_window", "token_bucket"}, NEW f \in Grants,
         NEW e \in Entries, EntryOK(f, e), NEW now \in 0..MaxTime, e.updated <= now
  PROVE  /\ Refreshed(e, now) \in Entries
         /\ EntryOK(f, Refreshed(e, now)) /\ Ready(Refreshed(e, now), now)
<1>0. /\ MaxTime \in Nat /\ Requests \in Nat /\ Window \in Nat /\ Window # 0 /\ Full \in Nat
  BY FullIsNumber
<1>1. PICK amount \in 0..Full, updated \in 0..now : e.amount = amount /\ e.updated = updated
  BY <1>0 DEF Entries
<1>2. PICK since \in Nat : since = now - updated /\ Elapsed(e, now) = since
  BY <1>0, <1>1 DEF Elapsed
<1>3. CASE algorithm = "token_bucket"
  <2>1. PICK refill \in Nat : refill = since * Requests
    BY <1>0, Products
  <2> DEFINE n == IF amount + refill > Full THEN Full ELSE amount + refill
  <2>2. Refreshed(e, now) = [amount |-> n, updated |-> now]
    BY <1>1, <1>2, <1>3, <2>1 DEF Refreshed, Refilled
  <2>3. n \in 0..Full /\ n <= amount + refill
    BY <1>0, <2>1
  <2> HIDE DEF n
  <2>4. \A i \in 0..MaxTime : i > updated => f[i] = 0
    BY <1>1, <1>3 DEF EntryOK, BucketOK
  <2>5. ASSUME NEW first \in 0..now
        PROVE  GrantedFrom(f, first, MaxTime) * Window + n <= Full + (now - first) * Requests
    <3>0. first \in 0..MaxTime /\ now - first \in Nat
      BY <1>0
    <3>1. PICK total \in Nat : total = GrantedFrom(f, first, MaxTime)
      BY <1>0, <3>0, IntervalType
    <3>2. total * Window \in Nat /\ (now - first) * Requests \in Nat
      BY <1>0, <3>0, Products
    <3>3. CASE first <= updated
      <4>1. PICK before \in Nat : before = updated - first
        BY <1>0, <1>1, <3>3
      <4>2. total * Window + amount <= Full + before * Requests
        BY <1>0, <1>1, <1>3, <3>1, <3>3, <4>1 DEF EntryOK, BucketOK
      <4>3. (since + before) * Requests = refill + before * Requests /\ before * Requests \in Nat
        BY <1>0, <2>1, Products
      <4>4. since + before = now - first
        BY <1>0, <1>1, <1>2, <4>1
      <4> QED
        BY <1>0, <1>1, <2>1, <2>3, <3>1, <3>2, <4>2, <4>3, <4>4
    <3>4. CASE first > updated
      <4>1. \A i \in 0..MaxTime : i >= first => f[i] = 0
        BY <1>0, <1>1, <2>4, <3>4
      <4>2. total = 0
        BY <1>0, <3>0, <3>1, <4>1, IntervalEmpty
      <4> QED
        BY <1>0, <2>3, <3>1, <3>2, <4>2
    <3> QED
      BY <1>0, <1>1, <3>3, <3>4
  <2>6. \A i \in 0..MaxTime : i > now => f[i] = 0
    BY <1>0, <1>1, <2>4
  <2>7. BucketOK(f, [amount |-> n, updated |-> now])
    BY <2>5, <2>6 DEF BucketOK
  <2> QED
    BY <1>0, <1>3, <2>2, <2>3, <2>7 DEF EntryOK, Entries, Ready
<1>4. CASE algorithm = "fixed_window" /\ since >= Window
  <2>1. Refreshed(e, now) = Fresh(now)
    BY <1>2, <1>4 DEF Refreshed
  <2>2. Inactive(e, now)
    BY <1>2, <1>4 DEF Inactive
  <2> QED
    BY <2>1, <2>2, Forgotten, StartsAfresh
<1>5. CASE algorithm = "fixed_window" /\ since < Window
  <2>1. Refreshed(e, now) = e
    BY <1>0, <1>2, <1>5 DEF Refreshed
  <2>2. Ready(e, now)
    BY <1>0, <1>1, <1>2, <1>5 DEF Ready
  <2> QED
    BY <2>1, <2>2
<1> QED
  BY <1>0, <1>2, <1>3, <1>4, <1>5

\* What is charged is within the budget, and no other interval is affected.
LEMMA BucketCharged ==
  ASSUME algorithm = "token_bucket", NEW f \in Grants, NEW e \in Entries, BucketOK(f, e),
         NEW now \in 0..MaxTime, e.updated = now, NEW cost \in Nat, Allows(e, cost), Budget(f)
  PROVE  LET g == [f EXCEPT ![now] = @ + cost] IN
         /\ g \in Grants /\ Charged(e, cost) \in Entries /\ Charged(e, cost).updated = now
         /\ BucketOK(g, Charged(e, cost)) /\ Budget(g)
<1>0. /\ MaxTime \in Nat /\ Requests \in Nat /\ Window \in Nat /\ Window # 0 /\ Full \in Nat
  BY FullIsNumber
<1>1. PICK amount \in 0..Full : e.amount = amount
  BY <1>0 DEF Entries
<1>2. PICK price \in Nat : price = cost * Window
  BY <1>0, Products
<1>3. amount >= price
  BY <1>1, <1>2 DEF Allows
<1>4. Charged(e, cost) = [amount |-> amount - price, updated |-> now]
  BY <1>1, <1>2 DEF Charged, Entries
<1> DEFINE g == [f EXCEPT ![now] = @ + cost]
<1>5. g \in Grants /\ \A i \in 0..MaxTime : i # now => g[i] = f[i]
  <2>1. g \in Grants
    BY <1>0, IntervalCharged
  <2>2. \A i \in 0..MaxTime : i # now => g[i] = f[i]
    BY DEF Grants
  <2> QED
    BY <2>1, <2>2
<1>6. ASSUME NEW first \in 0..MaxTime, NEW last \in 0..MaxTime
      PROVE  GrantedFrom(g, first, last) =
                IF now \in first..last THEN GrantedFrom(f, first, last) + cost
                                       ELSE GrantedFrom(f, first, last)
  BY <1>0, IntervalCharged
<1> HIDE DEF g
<1>7. ASSUME NEW first \in 0..now
      PROVE  GrantedFrom(g, first, MaxTime) * Window + (amount - price)
                <= Full + (now - first) * Requests
  <2>1. first \in 0..MaxTime /\ now - first \in Nat /\ now \in first..MaxTime
    BY <1>0
  <2>2. PICK total \in Nat : total = GrantedFrom(f, first, MaxTime)
    BY <1>0, <2>1, IntervalType
  <2>3. GrantedFrom(g, first, MaxTime) = total + cost
    BY <1>0, <1>6, <2>1, <2>2
  <2>4. (total + cost) * Window = total * Window + price /\ total * Window \in Nat
        /\ (now - first) * Requests \in Nat
    BY <1>0, <1>2, <2>1, Products
  <2>5. total * Window + amount <= Full + (now - first) * Requests
    BY <1>1, <2>2 DEF BucketOK
  <2> QED
    BY <1>0, <1>1, <1>2, <1>3, <2>3, <2>4, <2>5
<1>8. BucketOK(g, [amount |-> amount - price, updated |-> now])
  <2>1. \A i \in 0..MaxTime : i > now => g[i] = 0
    BY <1>0, <1>5 DEF BucketOK
  <2> QED
    BY <1>7, <2>1 DEF BucketOK
<1>9. Budget(g)
  <2> SUFFICES ASSUME NEW first \in 0..MaxTime, NEW last \in 0..MaxTime, first <= last
               PROVE  GrantedFrom(g, first, last) * Window <= Full + (last - first) * Requests
    BY DEF Budget
  <2>1. CASE now \in first..last
    <3>1. first \in 0..now /\ MaxTime \in last..MaxTime
      BY <1>0, <2>1
    <3>2. PICK here \in Nat, total \in Nat :
             here = GrantedFrom(g, first, last) /\ total = GrantedFrom(g, first, MaxTime)
      <4>1. last \in Int /\ last <= MaxTime /\ MaxTime \in Int /\ MaxTime <= MaxTime
        BY <1>0
      <4>2. GrantedFrom(g, first, last) \in Nat
        BY <1>5, <4>1, IntervalType
      <4>3. GrantedFrom(g, first, MaxTime) \in Nat
        BY <1>5, <4>1, IntervalType
      <4> QED
        BY <4>2, <4>3
    <3>3. here <= total
      <4>1. first \in 0..first /\ MaxTime \in last..MaxTime
        BY <1>0
      <4>2. GrantedFrom(g, first, last) <= GrantedFrom(g, first, MaxTime)
        BY <1>5, <4>1, IntervalGrows
      <4> QED
        BY <3>2, <4>2
    <3>4. here * Window <= total * Window /\ here * Window \in Nat /\ total * Window \in Nat
      BY <1>0, <3>3, Products
    <3>5. total * Window + (amount - price) <= Full + (now - first) * Requests
      BY <1>7, <3>1, <3>2
    <3>6. now - first \in Nat /\ last - first \in Nat /\ now - first <= last - first
      BY <1>0, <2>1
    <3>7. (now - first) * Requests <= (last - first) * Requests
          /\ (now - first) * Requests \in Nat /\ (last - first) * Requests \in Nat
      BY <1>0, <3>6, Products
    <3> QED
      BY <1>0, <1>1, <1>2, <1>3, <3>2, <3>4, <3>5, <3>7
  <2>2. CASE now \notin first..last
    BY <1>6, <2>2 DEF Budget
  <2> QED
    BY <2>1, <2>2
<1>10. [amount |-> amount - price, updated |-> now] \in Entries
  BY <1>0, <1>1, <1>2, <1>3 DEF Entries
<1> QED
  BY <1>4, <1>5, <1>8, <1>9, <1>10 DEF g

LEMMA WindowCharged ==
  ASSUME algorithm = "fixed_window", NEW f \in Grants, NEW e \in Entries, WindowOK(f, e),
         NEW now \in 0..MaxTime, e.updated <= now, now < e.updated + Window,
         NEW cost \in Nat, Allows(e, cost), Budget(f)
  PROVE  LET g == [f EXCEPT ![now] = @ + cost] IN
         /\ g \in Grants /\ Charged(e, cost) \in Entries /\ Charged(e, cost).updated = e.updated
         /\ WindowOK(g, Charged(e, cost)) /\ Budget(g)
<1>0. /\ MaxTime \in Nat /\ Requests \in Nat /\ Window \in Nat /\ Window # 0 /\ Full \in Nat
      /\ Full = Requests * Window
  BY FullIsNumber
<1>1. PICK amount \in 0..Full, updated \in 0..now : e.amount = amount /\ e.updated = updated
  BY <1>0 DEF Entries
<1>2. PICK price \in Nat : price = cost * Window
  BY <1>0, Products
<1>3. amount + price <= Full
  BY <1>0, <1>1, <1>2 DEF Allows
<1>4. Charged(e, cost) = [amount |-> amount + price, updated |-> updated]
  BY <1>1, <1>2 DEF Charged, Entries
<1> DEFINE g == [f EXCEPT ![now] = @ + cost]
<1>5. g \in Grants /\ \A i \in 0..MaxTime : i # now => g[i] = f[i]
  <2>1. g \in Grants
    BY <1>0, IntervalCharged
  <2>2. \A i \in 0..MaxTime : i # now => g[i] = f[i]
    BY DEF Grants
  <2> QED
    BY <2>1, <2>2
<1>6. ASSUME NEW first \in 0..MaxTime, NEW last \in Int, last <= MaxTime
      PROVE  GrantedFrom(g, first, last) =
                IF now \in first..last THEN GrantedFrom(f, first, last) + cost
                                       ELSE GrantedFrom(f, first, last)
  BY <1>0, <1>6, IntervalCharged
<1> HIDE DEF g
<1>7. updated \in 0..MaxTime /\ now \in updated..MaxTime
  BY <1>0
<1>8. GrantedFrom(g, updated, MaxTime) \in Nat
      /\ GrantedFrom(g, updated, MaxTime) * Window <= amount + price
  <2>1. PICK total \in Nat : total = GrantedFrom(f, updated, MaxTime)
    BY <1>0, <1>7, IntervalType
  <2>2. total * Window <= amount
    BY <1>1, <2>1 DEF WindowOK
  <2>3. GrantedFrom(g, updated, MaxTime) = total + cost
    BY <1>0, <1>6, <1>7, <2>1
  <2>4. (total + cost) * Window = total * Window + price /\ total * Window \in Nat
    BY <1>0, <1>2, Products
  <2> QED
    BY <1>1, <1>2, <2>1, <2>2, <2>3, <2>4
<1>9. GrantedFrom(g, updated, MaxTime) <= Requests
  <2>1. GrantedFrom(g, updated, MaxTime) * Window <= Requests * Window
    <3>1. PICK total \in Nat : total = GrantedFrom(g, updated, MaxTime) * Window
      BY <1>0, <1>8, Products
    <3> QED
      BY <1>0, <1>1, <1>2, <1>3, <1>8, <3>1
  <2> QED
    BY <1>0, <1>8, <2>1, Products
<1>10. ASSUME NEW first \in 0..MaxTime, first < updated, updated - first < Window
       PROVE  GrantedFrom(g, first, updated - 1) <= Requests
  <2>1. GrantedFrom(f, first, updated - 1) <= Requests
    BY <1>1, <1>10 DEF WindowOK
  <2>2. now \notin first..(updated - 1) /\ updated - 1 \in Int /\ updated - 1 <= MaxTime
    BY <1>0, <1>7
  <2> QED
    BY <1>6, <2>1, <2>2
<1>11. WindowOK(g, [amount |-> amount + price, updated |-> updated])
  <2>1. \A i \in 0..MaxTime : i >= updated + Window => g[i] = 0
    BY <1>0, <1>1, <1>5 DEF WindowOK
  <2> QED
    BY <1>8, <1>10, <2>1 DEF WindowOK
<1>12. Budget(g)
  <2> SUFFICES ASSUME NEW first \in 0..MaxTime, NEW last \in 0..MaxTime, first <= last,
                      last - first < Window
               PROVE  GrantedFrom(g, first, last) <= 2 * Requests
    BY DEF Budget
  <2>1. CASE now \notin first..last
    <3>1. last \in Int /\ last <= MaxTime
      BY <1>0
    <3>2. GrantedFrom(g, first, last) = GrantedFrom(f, first, last)
      BY <1>6, <2>1, <3>1
    <3> QED
      BY <3>2 DEF Budget
  <2>2. CASE first >= updated
    <3>1. updated \in 0..first /\ MaxTime \in last..MaxTime
      BY <1>0, <1>7, <2>2
    <3>2. GrantedFrom(g, first, last) <= GrantedFrom(g, updated, MaxTime)
      BY <1>5, <3>1, IntervalGrows
    <3>3. GrantedFrom(g, first, last) \in Nat
      <4>1. last \in Int /\ last <= MaxTime
        BY <1>0
      <4> QED
        BY <1>5, <4>1, IntervalType
    <3> QED
      BY <1>0, <1>8, <1>9, <3>2, <3>3
  <2>3. CASE now \in first..last /\ first < updated
    <3>1. updated \in first..last /\ updated - first < Window
      BY <1>0, <1>7, <2>3
    <3>2. GrantedFrom(g, first, last)
             = GrantedFrom(g, first, updated - 1) + GrantedFrom(g, updated, last)
      BY <1>0, <1>5, <3>1, IntervalSplit
    <3>3. updated \in 0..updated /\ MaxTime \in last..MaxTime
      BY <1>0
    <3>4. GrantedFrom(g, updated, last) <= GrantedFrom(g, updated, MaxTime)
      BY <1>0, <1>5, <1>7, <3>3, IntervalGrows
    <3>5. GrantedFrom(g, first, updated - 1) <= Requests
      BY <1>10, <2>3, <3>1
    <3>6. GrantedFrom(g, updated, last) \in Nat
      <4>1. last \in Int /\ last <= MaxTime
        BY <1>0
      <4> QED
        BY <1>5, <1>7, <4>1, IntervalType
    <3>7. GrantedFrom(g, first, updated - 1) \in Nat
      <4>1. updated - 1 \in Int /\ updated - 1 <= MaxTime
        BY <1>0
      <4> QED
        BY <1>5, <4>1, IntervalType
    <3> QED
      BY <1>0, <1>8, <1>9, <3>2, <3>4, <3>5, <3>6, <3>7
  <2> QED
    BY <1>0, <1>7, <2>1, <2>2, <2>3
<1>13. [amount |-> amount + price, updated |-> updated] \in Entries
  BY <1>0, <1>1, <1>2, <1>3, <1>7 DEF Entries
<1> QED
  BY <1>1, <1>4, <1>5, <1>11, <1>12, <1>13 DEF g

LEMMA Charges ==
  ASSUME algorithm \in {"fixed_window", "token_bucket"}, NEW f \in Grants,
         NEW e \in Entries, EntryOK(f, e), NEW now \in 0..MaxTime, Ready(e, now),
         NEW cost \in Nat, Allows(e, cost), Budget(f)
  PROVE  LET g == [f EXCEPT ![now] = @ + cost] IN
         /\ g \in Grants /\ Charged(e, cost) \in Entries /\ Charged(e, cost).updated <= now
         /\ EntryOK(g, Charged(e, cost)) /\ Budget(g)
<1>0. MaxTime \in Nat
  BY FullIsNumber
<1>1. e.updated <= now
  BY DEF Ready
<1>2. CASE algorithm = "token_bucket"
  <2>1. BucketOK(f, e) /\ e.updated = now
    BY <1>2 DEF EntryOK, Ready
  <2> QED
    BY <1>0, <1>2, <2>1, BucketCharged DEF EntryOK
<1>3. CASE algorithm = "fixed_window"
  <2>1. WindowOK(f, e) /\ now < e.updated + Window
    BY <1>3 DEF EntryOK, Ready
  <2> QED
    BY <1>1, <1>3, <2>1, WindowCharged DEF EntryOK
<1> QED
  BY <1>2, <1>3

\* The table is bounded, however many threads check.
TableInv == LimiterTypeOK /\ IsFiniteSet(DOMAIN known) /\ Cardinality(DOMAIN known) <= MaxPrincipals

\* Up to a time that nobody checks before any more, the entries account for
\* what was granted, and who has none starts no worse than afresh.
Accounted(h) ==
    /\ h \in 0..clock
    /\ \A t \in Threads : checking[t] # Outside => checking[t].now \in h..clock
    /\ ~limiterClosed => \A p \in Principals :
          IF p \in DOMAIN known
          THEN known[p].updated <= h /\ EntryOK(granted[p], known[p])
          ELSE GoneOK(granted[p], h)

BudgetInv ==
    /\ \A p \in Principals : Budget(granted[p])
    /\ \E h \in 0..MaxTime : Accounted(h)

LEMMA TableKept ==
  ASSUME LimiterTypeOK, NEW p, IsFiniteSet(DOMAIN known),
         Cardinality(DOMAIN known) <= MaxPrincipals, NEW now, Admits(p, now)
  PROVE  /\ IsFiniteSet(Remaining(p, now)) /\ Cardinality(Remaining(p, now)) <= MaxPrincipals
         /\ Remaining(p, now) \subseteq DOMAIN known \cup {p} /\ p \in Remaining(p, now)
         /\ \A q \in DOMAIN known : q \notin Remaining(p, now) => Inactive(known[q], now)
<1>0. MaxPrincipals \in Nat
  BY LimiterAssumption
<1>1. /\ Pruned(now) \subseteq DOMAIN known /\ IsFiniteSet(Pruned(now))
      /\ \A q \in DOMAIN known : q \notin Pruned(now) => Inactive(known[q], now)
  BY FS_Subset DEF Pruned
<1>2. \A S : IsFiniteSet(S) => /\ IsFiniteSet({p} \cup S) /\ Cardinality(S) \in Nat
                               /\ Cardinality({p} \cup S) <= Cardinality(S) + 1
  <2> SUFFICES ASSUME NEW S, IsFiniteSet(S)
               PROVE  /\ IsFiniteSet({p} \cup S) /\ Cardinality(S) \in Nat
                      /\ Cardinality({p} \cup S) <= Cardinality(S) + 1
    OBVIOUS
  <2>1. {p} \cup S = S \cup {p} /\ Cardinality(S) \in Nat
    BY FS_CardinalityType
  <2>2. IsFiniteSet(S \cup {p})
        /\ Cardinality(S \cup {p}) = IF p \in S THEN Cardinality(S) ELSE Cardinality(S) + 1
    BY FS_AddElement
  <2> QED
    BY <2>1, <2>2
<1>3. CASE p \in DOMAIN known
  <2>1. Remaining(p, now) = DOMAIN known
    BY <1>3 DEF Remaining
  <2> QED
    BY <1>3, <2>1
<1>4. CASE p \notin DOMAIN known /\ Cardinality(DOMAIN known) < MaxPrincipals
  <2>1. Remaining(p, now) = {p} \cup DOMAIN known
    BY <1>4 DEF Remaining
  <2> QED
    BY <1>0, <1>2, <1>4, <2>1
<1>5. CASE p \notin DOMAIN known /\ ~ (Cardinality(DOMAIN known) < MaxPrincipals)
  <2>1. Remaining(p, now) = {p} \cup Pruned(now) /\ Cardinality(Pruned(now)) < MaxPrincipals
    BY <1>5 DEF Remaining, Admits
  <2> QED
    BY <1>0, <1>1, <1>2, <2>1
<1> QED
  BY <1>3, <1>4, <1>5

\* The entry that a check leaves.
Left(p, now, cost) ==
    LET e == Refreshed(IF p \in DOMAIN known THEN known[p] ELSE Fresh(now), now)
    IN  IF Allows(e, cost) THEN Charged(e, cost) ELSE e

\* What a check carries.
LEMMA CheckIs ==
  ASSUME LimiterTypeOK, NEW t \in Threads, checking[t] # Outside
  PROVE  /\ checking[t].principal \in Principals /\ checking[t].cost \in Costs
         /\ checking[t].now \in 0..MaxTime
BY DEF LimiterTypeOK

LEMMA RefreshedIsEntry ==
  ASSUME algorithm \in {"fixed_window", "token_bucket"}, NEW e \in Entries, NEW now \in 0..MaxTime
  PROVE  Refreshed(e, now) \in Entries
<1>0. /\ MaxTime \in Nat /\ Requests \in Nat /\ Window \in Nat /\ Full \in Nat
  BY FullIsNumber
<1>1. PICK amount \in 0..Full, updated \in 0..MaxTime : e.amount = amount /\ e.updated = updated
  BY <1>0 DEF Entries
<1>2. Elapsed(e, now) \in Nat
  BY <1>0, <1>1 DEF Elapsed
<1>3. Elapsed(e, now) * Requests \in Nat
  BY <1>0, <1>2, Products
<1>4. Refilled(e, now) \in 0..Full
  BY <1>0, <1>1, <1>3 DEF Refilled
<1>5. Fresh(now) \in Entries
  BY <1>0 DEF Fresh, Entries
<1> QED
  BY <1>0, <1>4, <1>5 DEF Refreshed, Entries

LEMMA LeftIsEntry ==
  ASSUME LimiterTypeOK, NEW p \in Principals, NEW now \in 0..MaxTime, NEW cost \in Costs
  PROVE  Left(p, now, cost) \in Entries
<1>0. /\ MaxTime \in Nat /\ Requests \in Nat /\ Window \in Nat /\ Full \in Nat /\ cost \in Nat
      /\ algorithm = "fixed_window" => Full = Requests * Window
      /\ algorithm \in {"fixed_window", "token_bucket"}
  BY FullIsNumber DEF LimiterTypeOK
<1> DEFINE old == IF p \in DOMAIN known THEN known[p] ELSE Fresh(now)
           e == Refreshed(old, now)
<1>1. old \in Entries
  <2>1. Fresh(now) \in Entries
    BY <1>0 DEF Fresh, Entries
  <2> QED
    BY <2>1 DEF LimiterTypeOK, Entries
<1>2. e \in Entries
  <2> HIDE DEF old
  <2> QED
    BY <1>0, <1>1, RefreshedIsEntry
<1> HIDE DEF e
<1>3. ASSUME Allows(e, cost) PROVE Charged(e, cost) \in Entries
  <2>1. PICK amount \in 0..Full, updated \in 0..MaxTime :
           e = [amount |-> amount, updated |-> updated]
    BY <1>0, <1>2 DEF Entries
  <2>2. PICK price \in Nat : price = cost * Window
    BY <1>0, Products
  <2>3. IF algorithm = "token_bucket" THEN amount >= price ELSE amount + price <= Full
    BY <1>0, <1>3, <2>1, <2>2 DEF Allows
  <2>4. Charged(e, cost) =
           [amount |-> IF algorithm = "token_bucket" THEN amount - price ELSE amount + price,
            updated |-> updated]
    BY <2>1, <2>2 DEF Charged
  <2> QED
    BY <1>0, <2>1, <2>2, <2>3, <2>4 DEF Entries
<1>4. Left(p, now, cost) = IF Allows(e, cost) THEN Charged(e, cost) ELSE e
  BY DEF Left, e
<1> QED
  BY <1>2, <1>3, <1>4

LEMMA TableStep ==
  TableInv /\ [LimiterNext]_limiterVars => TableInv'
<1> SUFFICES ASSUME TableInv, [LimiterNext]_limiterVars PROVE TableInv'
  OBVIOUS
<1> USE DEF TableInv
<1>0. MaxTime \in Nat /\ MaxPrincipals \in Nat /\ Costs \subseteq Nat
  BY LimiterAssumption
<1>1. CASE UNCHANGED limiterVars
  BY <1>1 DEF limiterVars, LimiterTypeOK, Full, Allowance
<1>2. CASE Tick
  <2>1. clock' \in 0..MaxTime
    BY <1>0, <1>2 DEF Tick, LimiterTypeOK
  <2>2. UNCHANGED <<algorithm, known, checking, limiterClosed, granted, Full>>
    BY <1>2 DEF Tick, Full, Allowance
  <2> QED
    BY <2>1, <2>2 DEF LimiterTypeOK
<1>3. CASE CloseLimiter
  <2>1. DOMAIN known' = {} /\ limiterClosed' = TRUE
    BY <1>3 DEF CloseLimiter
  <2>2. IsFiniteSet({}) /\ Cardinality({}) = 0
    BY FS_EmptySet
  <2>3. UNCHANGED <<algorithm, clock, checking, granted>>
    BY <1>3 DEF CloseLimiter
  <2>4. LimiterTypeOK'
    BY <2>1, <2>3 DEF LimiterTypeOK
  <2>5. IsFiniteSet(DOMAIN known') /\ Cardinality(DOMAIN known') <= MaxPrincipals
    BY <1>0, <2>1, <2>2
  <2> QED
    BY <2>4, <2>5
<1>4. ASSUME NEW t \in Threads, NEW p \in Principals, NEW cost \in Costs, ReadClock(t, p, cost)
      PROVE  TableInv'
  <2>1. [in |-> TRUE, principal |-> p, cost |-> cost, now |-> clock]
           \in [in : {TRUE}, principal : Principals, cost : Costs, now : 0..MaxTime]
    BY DEF LimiterTypeOK
  <2>2. checking' \in [Threads -> {Outside} \cup
                    [in : {TRUE}, principal : Principals, cost : Costs, now : 0..MaxTime]]
    BY <1>4, <2>1 DEF ReadClock, LimiterTypeOK
  <2> QED
    BY <1>4, <2>2 DEF ReadClock, LimiterTypeOK, Full, Allowance
<1>5. ASSUME NEW t \in Threads, Reject(t)
      PROVE  TableInv'
  <2>2. checking' \in [Threads -> {Outside} \cup
                    [in : {TRUE}, principal : Principals, cost : Costs, now : 0..MaxTime]]
    BY <1>5 DEF Reject, LimiterTypeOK
  <2> QED
    BY <1>5, <2>2 DEF Reject, LimiterTypeOK, Full, Allowance
<1>6. ASSUME NEW t \in Threads, Decide(t)
      PROVE  TableInv'
  <2> DEFINE p == checking[t].principal
             now == checking[t].now
             cost == checking[t].cost
  <2>1. p \in Principals /\ now \in 0..MaxTime /\ cost \in Costs /\ cost \in Nat
    BY <1>0, <1>6, CheckIs DEF Decide
  <2>2. checking' \in [Threads -> {Outside} \cup
                    [in : {TRUE}, principal : Principals, cost : Costs, now : 0..MaxTime]]
    BY <1>6 DEF Decide, LimiterTypeOK
  <2>3. /\ known' = [q \in Remaining(p, now) |-> IF q # p THEN known[q] ELSE Left(p, now, cost)]
        /\ UNCHANGED <<algorithm, clock, limiterClosed>> /\ Admits(p, now)
        /\ granted' = granted \/ granted' = [granted EXCEPT ![p][now] = @ + cost]
    BY <1>6, Zenon DEF Decide, Left
  <2> HIDE DEF p, now, cost
  <2>4. /\ IsFiniteSet(Remaining(p, now)) /\ Cardinality(Remaining(p, now)) <= MaxPrincipals
        /\ Remaining(p, now) \subseteq DOMAIN known \cup {p}
    BY <2>3, TableKept
  <2>5. DOMAIN known' = Remaining(p, now)
    BY <2>3
  <2>6. \A q \in DOMAIN known' : known'[q] \in Entries
    <3>1. Left(p, now, cost) \in Entries
      BY <2>1, LeftIsEntry
    <3>2. \A q \in DOMAIN known : known[q] \in Entries
      BY DEF LimiterTypeOK, Entries
    <3> QED
      BY <2>3, <2>4, <2>5, <3>1, <3>2
  <2>7. granted' \in [Principals -> [0..MaxTime -> Nat]]
    <3>1. granted[p] \in [0..MaxTime -> Nat]
      BY <2>1 DEF LimiterTypeOK
    <3>2. [granted[p] EXCEPT ![now] = @ + cost] \in [0..MaxTime -> Nat]
      BY <2>1, <3>1, GrantedMore
    <3>3. [granted EXCEPT ![p][now] = @ + cost]
             = [granted EXCEPT ![p] = [granted[p] EXCEPT ![now] = @ + cost]]
      OBVIOUS
    <3> QED
      BY <2>1, <2>3, <3>2, <3>3 DEF LimiterTypeOK
  <2>8. Full' = Full
    BY <2>3 DEF Full, Allowance
  <2>9. DOMAIN known' \subseteq Principals
    BY <2>1, <2>4, <2>5 DEF LimiterTypeOK
  <2>10. \A q \in DOMAIN known' : known'[q] \in [amount : 0..Full', updated : 0..MaxTime]
    BY <2>6, <2>8 DEF Entries
  <2>11. LimiterTypeOK'
    BY <2>2, <2>3, <2>7, <2>9, <2>10 DEF LimiterTypeOK
  <2> QED
    BY <2>4, <2>5, <2>11
<1> QED
  BY <1>1, <1>2, <1>3, <1>4, <1>5, <1>6 DEF LimiterNext

LEMMA TableStart == LimiterInit => TableInv
<1> SUFFICES ASSUME LimiterInit PROVE TableInv
  OBVIOUS
<1>0. MaxTime \in Nat /\ MaxPrincipals \in Nat
  BY LimiterAssumption
<1>1. DOMAIN known = {}
  BY DEF LimiterInit
<1>2. IsFiniteSet({}) /\ Cardinality({}) = 0
  BY FS_EmptySet
<1>3. LimiterTypeOK
  <2>1. clock \in 0..MaxTime /\ granted \in [Principals -> [0..MaxTime -> Nat]]
    BY <1>0 DEF LimiterInit
  <2> QED
    BY <1>1, <2>1 DEF LimiterInit, LimiterTypeOK
<1> QED
  BY <1>0, <1>1, <1>2, <1>3 DEF TableInv

LEMMA BudgetStart == LimiterInit => BudgetInv
<1> SUFFICES ASSUME LimiterInit PROVE BudgetInv
  OBVIOUS
<1>0. /\ MaxTime \in Nat /\ Requests \in Nat /\ Window \in Nat /\ Window # 0 /\ Full \in Nat
      /\ algorithm \in {"fixed_window", "token_bucket"}
  BY FullIsNumber DEF LimiterInit
<1> DEFINE none == [i \in 0..MaxTime |-> 0]
<1>1. none \in Grants /\ \A i \in 0..MaxTime : none[i] = 0
  BY DEF Grants
<1>2. \A p \in Principals : granted[p] = none
  BY DEF LimiterInit
<1> HIDE DEF none
<1>3. \A first, last \in 0..MaxTime : GrantedFrom(none, first, last) = 0
  BY <1>1, IntervalEmpty
<1>4. Budget(none)
  <2> SUFFICES ASSUME NEW first \in 0..MaxTime, NEW last \in 0..MaxTime, first <= last
               PROVE  /\ 0 * Window <= Full + (last - first) * Requests
                      /\ 0 <= 2 * Requests
    BY <1>0, <1>3 DEF Budget
  <2>1. last - first \in Nat
    BY <1>0
  <2>2. (last - first) * Requests \in Nat
    BY <1>0, <2>1, Products
  <2> QED
    BY <1>0, <2>2
<1>5. GoneOK(none, 0)
  <2>1. 0 \in 0..MaxTime /\ GrantedFrom(none, 0, MaxTime) = 0 /\ MaxTime \in 0..MaxTime
    BY <1>0, <1>3
  <2>2. BucketGone(none, 0)
    <3>1. \A first \in 0..0 : GrantedFrom(none, first, MaxTime) * Window <= (0 - first) * Requests
      BY <1>0, <2>1
    <3> QED
      BY <1>0, <1>1, <3>1 DEF BucketGone
  <2>3. WindowGone(none, 0)
    BY <1>0, <1>1, <2>1 DEF WindowGone
  <2> QED
    BY <2>2, <2>3 DEF GoneOK
<1>6. Accounted(0)
  BY <1>0, <1>2, <1>5 DEF LimiterInit, Accounted
<1>7. 0 \in 0..MaxTime
  BY <1>0
<1> QED
  BY <1>2, <1>4, <1>6, <1>7 DEF BudgetInv

\* A step that decides nothing.
LEMMA BudgetUndecided ==
  ASSUME BudgetInv, UNCHANGED <<algorithm, granted>>, clock \in Nat, clock' \in Nat,
         clock <= clock',
         UNCHANGED <<known, limiterClosed>> \/ limiterClosed',
         \A t \in Threads : checking'[t] # Outside =>
            \/ checking[t] # Outside /\ checking'[t] = checking[t]
            \/ checking'[t].now = clock
  PROVE  BudgetInv'
<1>1. PICK h \in 0..MaxTime : Accounted(h)
  BY DEF BudgetInv
<1>0. MaxTime \in Nat /\ h \in Nat /\ h <= clock
  BY <1>1, LimiterAssumption DEF Accounted
<1>2. h \in 0..clock'
  BY <1>0
<1>3. ASSUME NEW t \in Threads, checking'[t] # Outside
      PROVE  checking'[t].now \in h..clock'
  <2>1. CASE checking[t] # Outside /\ checking'[t] = checking[t]
    <3>1. checking[t].now \in h..clock
      BY <1>1, <2>1 DEF Accounted
    <3> QED
      BY <1>0, <2>1, <3>1
  <2>2. CASE checking'[t].now = clock
    BY <1>0, <2>2
  <2> QED
    BY <1>3, <2>1, <2>2
<1>4. ASSUME ~limiterClosed', NEW p \in Principals
      PROVE  IF p \in DOMAIN known'
             THEN known'[p].updated <= h /\ EntryOK(granted[p], known[p])
             ELSE GoneOK(granted[p], h)
  BY <1>1, <1>4 DEF Accounted
<1>5. Accounted(h)'
  <2>1. ASSUME ~limiterClosed', NEW p \in Principals
        PROVE  IF p \in DOMAIN known'
               THEN known'[p].updated <= h /\ EntryOK(granted[p], known[p])'
               ELSE GoneOK(granted[p], h)'
    <3>1. known' = known
      BY <2>1
    <3> QED
      BY <1>4, <2>1, <3>1 DEF EntryOK, BucketOK, WindowOK, GoneOK, BucketGone, WindowGone,
                              Full, Allowance
  <2> QED
    BY <1>2, <1>3, <2>1 DEF Accounted
<1>6. \A p \in Principals : Budget(granted[p])'
  BY DEF BudgetInv, Budget, Full, Allowance
<1> QED
  BY <1>5, <1>6 DEF BudgetInv

LEMMA BudgetDecided ==
  ASSUME TableInv, BudgetInv, \A t, u \in Threads : t = u, NEW thread \in Threads, Decide(thread)
  PROVE  BudgetInv'
<1>0. /\ MaxTime \in Nat /\ Costs \subseteq Nat /\ LimiterTypeOK
      /\ algorithm \in {"fixed_window", "token_bucket"}
  BY LimiterAssumption DEF TableInv, LimiterTypeOK
<1>1. PICK p \in Principals, now \in 0..MaxTime, cost \in Nat :
         /\ p = checking[thread].principal /\ now = checking[thread].now
         /\ cost = checking[thread].cost
         /\ checking[thread] # Outside /\ ~limiterClosed
  BY <1>0, CheckIs DEF Decide
<1> DEFINE old == IF p \in DOMAIN known THEN known[p] ELSE Fresh(now)
           e == Refreshed(old, now)
           rest == Remaining(p, now)
<1>2. /\ known' = [q \in rest |-> IF q # p THEN known[q] ELSE Left(p, now, cost)]
      /\ UNCHANGED <<algorithm, clock, limiterClosed>> /\ Admits(p, now)
      /\ granted' = (IF Allows(e, cost) THEN [granted EXCEPT ![p][now] = @ + cost] ELSE granted)
      /\ checking' = [checking EXCEPT ![thread] = Outside]
  BY <1>1, Zenon DEF Decide, Left
<1>3. Left(p, now, cost) = IF Allows(e, cost) THEN Charged(e, cost) ELSE e
  BY DEF Left
<1>4. PICK h \in 0..MaxTime : Accounted(h)
  BY DEF BudgetInv
<1>5. h <= now /\ now <= clock /\ clock \in 0..MaxTime
  <2>1. now \in h..clock
    BY <1>1, <1>4 DEF Accounted
  <2> QED
    BY <1>0, <2>1 DEF LimiterTypeOK
<1>6. ASSUME NEW q \in Principals
      PROVE  /\ granted[q] \in Grants /\ Budget(granted[q])
             /\ q \in DOMAIN known =>
                   known[q] \in Entries /\ known[q].updated <= now /\ EntryOK(granted[q], known[q])
             /\ q \notin DOMAIN known => GoneOK(granted[q], now)
  <2>1. granted[q] \in Grants /\ Budget(granted[q])
    BY <1>0 DEF LimiterTypeOK, Grants, BudgetInv
  <2>2. CASE q \in DOMAIN known
    <3>1. known[q] \in Entries /\ known[q].updated \in 0..MaxTime
      BY <1>0, <2>2 DEF LimiterTypeOK, Entries
    <3>2. known[q].updated <= h /\ EntryOK(granted[q], known[q])
      BY <1>1, <1>4, <2>2 DEF Accounted
    <3> QED
      BY <1>0, <1>1, <1>5, <2>1, <2>2, <3>1, <3>2
  <2>3. CASE q \notin DOMAIN known
    <3>1. GoneOK(granted[q], h)
      BY <1>1, <1>4, <2>3 DEF Accounted
    <3> QED
      BY <1>0, <1>1, <1>5, <2>1, <2>3, <3>1, Ages
  <2> QED
    BY <2>2, <2>3
<1>7. /\ rest \subseteq DOMAIN known \cup {p} /\ p \in rest
      /\ \A q \in DOMAIN known : q \notin rest => Inactive(known[q], now)
  BY <1>0, <1>2, TableKept DEF TableInv
<1> HIDE DEF rest
\* The entry that is checked.
<1>8. /\ e \in Entries /\ EntryOK(granted[p], e) /\ Ready(e, now)
  <2>1. old \in Entries /\ EntryOK(granted[p], old) /\ old.updated <= now
    <3>1. CASE p \in DOMAIN known
      BY <1>1, <1>6, <3>1
    <3>2. CASE p \notin DOMAIN known
      <4>1. GoneOK(granted[p], now) /\ granted[p] \in Grants
        BY <1>1, <1>6, <3>2
      <4>2. Fresh(now) \in Entries /\ Fresh(now).updated = now /\ EntryOK(granted[p], Fresh(now))
        BY <1>0, <1>1, <4>1, StartsAfresh
      <4> QED
        BY <1>0, <1>1, <3>2, <4>2
    <3> QED
      BY <3>1, <3>2
  <2> HIDE DEF old
  <2> QED
    BY <1>0, <1>1, <1>6, <2>1, Refreshes
<1> HIDE DEF e, old
<1>9. /\ granted'[p] \in Grants /\ Budget(granted'[p])
      /\ Left(p, now, cost).updated <= now /\ EntryOK(granted'[p], Left(p, now, cost))
  <2>1. p \in DOMAIN granted /\ granted[p] \in Grants /\ Budget(granted[p])
    BY <1>0, <1>1, <1>6 DEF LimiterTypeOK
  <2>2. CASE Allows(e, cost)
    <3>1. granted'[p] = [granted[p] EXCEPT ![now] = @ + cost]
      BY <1>2, <2>1, <2>2
    <3> QED
      BY <1>0, <1>1, <1>3, <1>8, <2>1, <2>2, <3>1, Charges
  <2>3. CASE ~Allows(e, cost)
    BY <1>2, <1>3, <1>8, <2>1, <2>3 DEF Ready
  <2> QED
    BY <2>2, <2>3
<1>10. \A q \in Principals : q # p => granted'[q] = granted[q]
  BY <1>0, <1>2 DEF LimiterTypeOK
\* The others, and who is forgotten.
<1>11. ASSUME NEW q \in Principals
       PROVE  /\ Budget(granted'[q])
              /\ IF q \in rest
                 THEN known'[q].updated <= now /\ EntryOK(granted'[q], known'[q])
                 ELSE GoneOK(granted'[q], now)
  <2>1. CASE q = p
    BY <1>2, <1>7, <1>9, <2>1
  <2>2. CASE q # p /\ q \in rest
    BY <1>2, <1>6, <1>7, <1>10, <2>2
  <2>3. CASE q # p /\ q \notin rest /\ q \in DOMAIN known
    <3>1. Inactive(known[q], now)
      BY <1>7, <2>3
    <3> QED
      BY <1>0, <1>1, <1>6, <1>10, <2>3, <3>1, Forgotten
  <2>4. CASE q # p /\ q \notin rest /\ q \notin DOMAIN known
    BY <1>6, <1>10, <2>4
  <2> QED
    BY <2>1, <2>2, <2>3, <2>4
<1>12. UNCHANGED <<algorithm, Full>>
  BY <1>2 DEF Full, Allowance
<1>13. Accounted(now)'
  <2>1. \A t \in Threads : checking'[t] = Outside
    BY <1>0, <1>2 DEF LimiterTypeOK
  <2>2. now \in 0..clock'
    BY <1>0, <1>1, <1>2, <1>5
  <2>3. ASSUME NEW q \in Principals
        PROVE  IF q \in DOMAIN known'
               THEN known'[q].updated <= now /\ EntryOK(granted[q], known[q])'
               ELSE GoneOK(granted[q], now)'
    <3>1. DOMAIN known' = rest
      BY <1>2
    <3>2. CASE q \in rest
      <4>1. known'[q].updated <= now /\ EntryOK(granted'[q], known'[q])
        BY <1>11, <3>2
      <4>2. EntryOK(granted[q], known[q])'
        BY <1>12, <4>1 DEF EntryOK, BucketOK, WindowOK
      <4> QED
        BY <3>1, <3>2, <4>1, <4>2
    <3>3. CASE q \notin rest
      <4>1. GoneOK(granted'[q], now)
        BY <1>11, <3>3
      <4>2. GoneOK(granted[q], now)'
        BY <1>12, <4>1 DEF GoneOK, BucketGone, WindowGone
      <4> QED
        BY <3>1, <3>3, <4>2
    <3> QED
      BY <3>2, <3>3
  <2> QED
    BY <2>1, <2>2, <2>3 DEF Accounted
<1>14. ASSUME NEW q \in Principals PROVE Budget(granted[q])'
  <2>1. Budget(granted'[q])
    BY <1>11
  <2> QED
    BY <1>12, <2>1 DEF Budget
<1> QED
  BY <1>1, <1>13, <1>14 DEF BudgetInv

LEMMA BudgetStep ==
  ASSUME TableInv, BudgetInv, \A t, u \in Threads : t = u, [LimiterNext]_limiterVars
  PROVE  BudgetInv'
<1>0. MaxTime \in Nat /\ clock \in Nat
  BY LimiterAssumption DEF TableInv, LimiterTypeOK
<1>1. CASE UNCHANGED limiterVars
  BY <1>0, <1>1, BudgetUndecided DEF limiterVars
<1>2. CASE Tick
  <2>1. clock' = clock + 1 /\ clock' \in Nat /\ clock <= clock'
    BY <1>0, <1>2 DEF Tick
  <2> QED
    BY <1>0, <1>2, <2>1, BudgetUndecided DEF Tick
<1>3. CASE CloseLimiter
  BY <1>0, <1>3, BudgetUndecided DEF CloseLimiter
<1>4. ASSUME NEW t \in Threads, NEW p \in Principals, NEW cost \in Costs, ReadClock(t, p, cost)
      PROVE  BudgetInv'
  <2>1. \A u \in Threads : checking'[u] = checking[u] \/ checking'[u].now = clock
    BY <1>4 DEF ReadClock, TableInv, LimiterTypeOK
  <2> QED
    BY <1>0, <1>4, <2>1, BudgetUndecided DEF ReadClock
<1>5. ASSUME NEW t \in Threads, Reject(t)
      PROVE  BudgetInv'
  <2>1. \A u \in Threads : checking'[u] = checking[u] \/ checking'[u] = Outside
    BY <1>5 DEF Reject, TableInv, LimiterTypeOK
  <2> QED
    BY <1>0, <1>5, <2>1, BudgetUndecided DEF Reject
<1>6. ASSUME NEW t \in Threads, Decide(t)
      PROVE  BudgetInv'
  BY <1>6, BudgetDecided
<1> QED
  BY <1>1, <1>2, <1>3, <1>4, <1>5, <1>6 DEF LimiterNext

\* The table of principals is bounded, however many threads check and whenever
\* each read the clock.
THEOREM TableStaysBounded == LimiterSpec => []TableBounded
<1>1. LimiterInit => TableInv
  BY TableStart
<1>2. TableInv /\ [LimiterNext]_limiterVars => TableInv'
  BY TableStep
<1>3. TableInv => TableBounded
  BY DEF TableInv, TableBounded
<1> QED
  BY <1>1, <1>2, <1>3, PTL DEF LimiterSpec

\* One thread that checks, as the application has, grants nobody more than the
\* budget of an interval, who is forgotten in between included; for any policy,
\* costs and number of principals.
THEOREM GrantsStayWithinBudget ==
  ASSUME \A t, u \in Threads : t = u
  PROVE  LimiterSpec => []GrantsWithinBudget
<1>1. LimiterInit => TableInv /\ BudgetInv
  BY TableStart, BudgetStart
<1>2. TableInv /\ BudgetInv /\ [LimiterNext]_limiterVars => TableInv' /\ BudgetInv'
  BY TableStep, BudgetStep
<1>3. BudgetInv => GrantsWithinBudget
  BY DEF BudgetInv, Budget, GrantsWithinBudget, GrantedIn, GrantedFrom
<1> QED
  BY <1>1, <1>2, <1>3, PTL DEF LimiterSpec

-----------------------------------------------------------------------------
(***************************************************************************)
(* The answer of an extraction, from the validator to the records.         *)
(***************************************************************************)

\* A list with as many keys as places has each key once.
LEMMA KeysDistinct ==
  ASSUME NEW n \in Nat, NEW key, key = [i \in 1..n |-> key[i]]
  PROVE  Cardinality({key[i] : i \in 1..n}) = n <=> \A i, j \in 1..n : key[i] = key[j] => i = j
<1> DEFINE T == {key[i] : i \in 1..n}
<1>1. key \in Surjection(1..n, T)
  BY DEF Surjection
<1>2. IsFiniteSet(1..n) /\ Cardinality(1..n) = n
  BY FS_Interval
<1>3. Cardinality(T) = Cardinality(1..n) <=> key \in Injection(1..n, T)
  <2> HIDE DEF T
  <2> QED
    BY <1>1, <1>2, FS_Surjection
<1>4. key \in Injection(1..n, T) <=> \A i, j \in 1..n : key[i] = key[j] => i = j
  <2>1. key \in [1..n -> T]
    OBVIOUS
  <2> HIDE DEF T
  <2> QED
    BY <2>1 DEF Injection, IsInjective
<1> QED
  BY <1>2, <1>3, <1>4

\* An image has as many members as its set when no two have the same.
LEMMA ImageCounts ==
  ASSUME NEW S, IsFiniteSet(S), NEW f, f = [x \in S |-> f[x]]
  PROVE  /\ IsFiniteSet({f[x] : x \in S})
         /\ (\A x, y \in S : f[x] = f[y] => x = y)
            => Cardinality({f[x] : x \in S}) = Cardinality(S)
<1> DEFINE T == {f[x] : x \in S}
<1>1. f \in Surjection(S, T)
  BY DEF Surjection
<1>2. f \in [S -> T]
  OBVIOUS
<1> HIDE DEF T
<1>3. IsFiniteSet(T) /\ (Cardinality(T) = Cardinality(S) <=> f \in Injection(S, T))
  BY <1>1, FS_Surjection
<1>4. (\A x, y \in S : f[x] = f[y] => x = y) => f \in Injection(S, T)
  BY <1>2 DEF Injection, IsInjective
<1> QED
  BY <1>3, <1>4 DEF T

\* What acceptance says of the places of an answer.
LEMMA AcceptedEntities ==
  ASSUME NEW a \in Answers, Accepted(a)
  PROVE  /\ Len(a.entities) \in Nat /\ DOMAIN a.entities = 1..Len(a.entities)
         /\ \A i \in DOMAIN a.entities :
               /\ a.entities[i] \in ToSet(a.entities)
               /\ SpansOf(a.entities[i]) \subseteq Nat \X Nat /\ SpansOf(a.entities[i]) # {}
               /\ IsFiniteSet(SpansOf(a.entities[i]))
         /\ \A i, j \in DOMAIN a.entities : a.entities[i].ref = a.entities[j].ref => i = j
         /\ \A ref \in References(a) : \E i \in DOMAIN a.entities :
               Referred(a, ref) = a.entities[i] /\ a.entities[i].ref = ref
<1>0. /\ a.whole /\ \A i \in DOMAIN a.entities : ProperEntity(a.entities[i])
      /\ Cardinality(References(a)) = Len(a.entities)
  BY DEF Accepted
<1>1. /\ a.entities \in Seq(ToSet(a.entities))
      /\ \A e \in ToSet(a.entities) :
            e.mentions \in Seq(ToSet(e.mentions)) /\ SpansOf(e) \subseteq Nat \X Nat
  BY <1>0, ExtractionAssumption
<1>2. Len(a.entities) \in Nat /\ DOMAIN a.entities = 1..Len(a.entities)
  BY <1>1
<1>3. \A i \in DOMAIN a.entities : a.entities[i] \in ToSet(a.entities)
  BY DEF ToSet
<1>4. ASSUME NEW i \in DOMAIN a.entities
      PROVE  SpansOf(a.entities[i]) # {} /\ IsFiniteSet(SpansOf(a.entities[i]))
  <2> DEFINE e == a.entities[i]
  <2>1. e.mentions \in Seq(ToSet(e.mentions)) /\ Len(e.mentions) \in 1..MaxOf.mentions
    BY <1>0, <1>1, <1>3 DEF ProperEntity
  <2> HIDE DEF e
  <2>2. 1 \in DOMAIN e.mentions
    BY <2>1
  <2>3. e.mentions[1].span \in SpansOf(e)
    BY <2>2 DEF SpansOf
  <2>4. IsFiniteSet(SpansOf(e))
    <3> DEFINE spans == [k \in DOMAIN e.mentions |-> e.mentions[k].span]
    <3>1. DOMAIN e.mentions = 1..Len(e.mentions) /\ Len(e.mentions) \in Nat
      BY <2>1
    <3>2. IsFiniteSet(DOMAIN e.mentions)
      BY <3>1, FS_Interval
    <3>3. SpansOf(e) = {spans[k] : k \in DOMAIN e.mentions}
      BY DEF SpansOf
    <3>4. spans = [k \in DOMAIN e.mentions |-> spans[k]]
      OBVIOUS
    <3> HIDE DEF spans
    <3> QED
      BY <3>2, <3>3, <3>4, ImageCounts
  <2> QED
    BY <2>3, <2>4 DEF e
<1>5. \A i, j \in DOMAIN a.entities : a.entities[i].ref = a.entities[j].ref => i = j
  <2> DEFINE n == Len(a.entities)
             key == [i \in 1..n |-> a.entities[i].ref]
  <2>1. Cardinality({key[i] : i \in 1..n}) = n
    <3>1. {key[i] : i \in 1..n} = References(a)
      BY <1>2 DEF References
    <3> QED
      BY <1>0, <3>1
  <2>2. n \in Nat /\ key = [i \in 1..n |-> key[i]]
    BY <1>2
  <2>3. \A i \in 1..n : key[i] = a.entities[i].ref
    OBVIOUS
  <2> HIDE DEF key, n
  <2>4. \A i, j \in 1..n : key[i] = key[j] => i = j
    BY <2>1, <2>2, KeysDistinct
  <2> QED
    BY <1>2, <2>3, <2>4 DEF n
<1>6. ASSUME NEW ref \in References(a)
      PROVE  \E i \in DOMAIN a.entities :
                Referred(a, ref) = a.entities[i] /\ a.entities[i].ref = ref
  <2>1. \E e \in ToSet(a.entities) : e.ref = ref
    BY <1>6 DEF References, ToSet
  <2>2. Referred(a, ref) \in ToSet(a.entities) /\ Referred(a, ref).ref = ref
    BY <2>1 DEF Referred
  <2> QED
    BY <2>2 DEF ToSet
<1> QED
  BY <1>1, <1>2, <1>3, <1>4, <1>5, <1>6

LEMMA AcceptedRelations ==
  ASSUME NEW a \in Answers, Accepted(a)
  PROVE  /\ Len(a.relations) \in Nat /\ DOMAIN a.relations = 1..Len(a.relations)
         /\ \A i \in DOMAIN a.relations :
               LET r == a.relations[i] IN
               /\ r \in ToSet(a.relations) /\ r.span \in Nat \X Nat
               /\ \A p \in ToSet(r.properties) : p.span \in Nat \X Nat
               /\ r.source \in References(a) /\ r.target \in References(a)
               /\ Encloses(r.span, Referred(a, r.source))
               /\ Encloses(r.span, Referred(a, r.target))
         /\ \A i, j \in DOMAIN a.relations :
               /\ a.relations[i].type = a.relations[j].type
               /\ a.relations[i].source = a.relations[j].source
               /\ a.relations[i].target = a.relations[j].target
               /\ a.relations[i].span = a.relations[j].span
               => i = j
<1>0. /\ a.whole /\ \A i \in DOMAIN a.relations : ProperRelation(a, a.relations[i])
      /\ Cardinality({<<a.relations[i].type, a.relations[i].source, a.relations[i].target,
                        a.relations[i].span>> : i \in DOMAIN a.relations}) = Len(a.relations)
  BY DEF Accepted, DistinctBy
<1>1. /\ a.relations \in Seq(ToSet(a.relations))
      /\ \A r \in ToSet(a.relations) : r.span \in Nat \X Nat
            /\ \A p \in ToSet(r.properties) : p.span \in Nat \X Nat
  BY <1>0, ExtractionAssumption
<1>2. Len(a.relations) \in Nat /\ DOMAIN a.relations = 1..Len(a.relations)
  BY <1>1
<1>3. \A i \in DOMAIN a.relations : a.relations[i] \in ToSet(a.relations)
  BY DEF ToSet
<1>4. ASSUME NEW i \in DOMAIN a.relations
      PROVE  LET r == a.relations[i] IN
             /\ r.source \in References(a) /\ r.target \in References(a)
             /\ Encloses(r.span, Referred(a, r.source))
             /\ Encloses(r.span, Referred(a, r.target))
  BY <1>0 DEF ProperRelation
<1>5. ASSUME NEW i \in DOMAIN a.relations, NEW j \in DOMAIN a.relations,
             a.relations[i].type = a.relations[j].type,
             a.relations[i].source = a.relations[j].source,
             a.relations[i].target = a.relations[j].target,
             a.relations[i].span = a.relations[j].span
      PROVE  i = j
  <2> DEFINE n == Len(a.relations)
             key == [k \in 1..n |-> <<a.relations[k].type, a.relations[k].source,
                                      a.relations[k].target, a.relations[k].span>>]
  <2>1. Cardinality({key[k] : k \in 1..n}) = n
    <3>1. {key[k] : k \in 1..n} = {<<a.relations[k].type, a.relations[k].source,
                a.relations[k].target, a.relations[k].span>> : k \in DOMAIN a.relations}
      BY <1>2
    <3> QED
      BY <1>0, <3>1
  <2>2. n \in Nat /\ key = [k \in 1..n |-> key[k]]
    BY <1>2
  <2>3. i \in 1..n /\ j \in 1..n /\ key[i] = key[j]
    BY <1>2, <1>5
  <2> HIDE DEF key, n
  <2> QED
    BY <2>1, <2>2, <2>3, KeysDistinct
<1> QED
  BY <1>1, <1>2, <1>3, <1>4, <1>5

LEMMA AcceptedFacts ==
  ASSUME NEW a \in Answers, Accepted(a)
  PROVE  /\ Len(a.facts) \in Nat /\ DOMAIN a.facts = 1..Len(a.facts)
         /\ \A i \in DOMAIN a.facts :
               LET f == a.facts[i] IN
               /\ f.span \in Nat \X Nat /\ f.of \in References(a)
               /\ Encloses(f.span, Referred(a, f.of))
         /\ \A i, j \in DOMAIN a.facts :
               /\ a.facts[i].of = a.facts[j].of /\ a.facts[i].name = a.facts[j].name
               /\ ValueOf(a.facts[i]) = ValueOf(a.facts[j]) /\ a.facts[i].span = a.facts[j].span
               => i = j
         /\ WithinCardinality(a.facts)
<1>0. /\ a.whole /\ \A i \in DOMAIN a.facts : ProperFact(a, a.facts[i])
      /\ Cardinality({<<a.facts[i].of, a.facts[i].name, ValueOf(a.facts[i]), a.facts[i].span>> :
                         i \in DOMAIN a.facts}) = Len(a.facts)
      /\ WithinCardinality(a.facts)
  BY DEF Accepted, DistinctBy
<1>1. a.facts \in Seq(ToSet(a.facts)) /\ \A f \in ToSet(a.facts) : f.span \in Nat \X Nat
  BY <1>0, ExtractionAssumption
<1>2. Len(a.facts) \in Nat /\ DOMAIN a.facts = 1..Len(a.facts)
  BY <1>1
<1>3. \A i \in DOMAIN a.facts : a.facts[i] \in ToSet(a.facts)
  BY DEF ToSet
<1>4. ASSUME NEW i \in DOMAIN a.facts
      PROVE  /\ a.facts[i].of \in References(a)
             /\ Encloses(a.facts[i].span, Referred(a, a.facts[i].of))
  BY <1>0 DEF ProperFact
<1>5. ASSUME NEW i \in DOMAIN a.facts, NEW j \in DOMAIN a.facts,
             a.facts[i].of = a.facts[j].of, a.facts[i].name = a.facts[j].name,
             ValueOf(a.facts[i]) = ValueOf(a.facts[j]), a.facts[i].span = a.facts[j].span
      PROVE  i = j
  <2> DEFINE n == Len(a.facts)
             key == [k \in 1..n |-> <<a.facts[k].of, a.facts[k].name, ValueOf(a.facts[k]),
                                      a.facts[k].span>>]
  <2>1. Cardinality({key[k] : k \in 1..n}) = n
    <3>1. {key[k] : k \in 1..n} = {<<a.facts[k].of, a.facts[k].name, ValueOf(a.facts[k]),
                                     a.facts[k].span>> : k \in DOMAIN a.facts}
      BY <1>2
    <3> QED
      BY <1>0, <3>1
  <2>2. n \in Nat /\ key = [k \in 1..n |-> key[k]]
    BY <1>2
  <2>3. i \in 1..n /\ j \in 1..n /\ key[i] = key[j]
    BY <1>2, <1>5
  <2> HIDE DEF key, n
  <2> QED
    BY <2>1, <2>2, <2>3, KeysDistinct
<1> QED
  BY <1>0, <1>1, <1>2, <1>3, <1>4, <1>5

\* No two entities of an answer are one in the audit.
OneEach(a) ==
    \A i, j \in DOMAIN a.entities : Identity(a.entities[i]) = Identity(a.entities[j]) => i = j

LEMMA UnsharedIsOneEach ==
  ASSUME NEW a \in Answers, Accepted(a), ~SharedMention(a)
  PROVE  OneEach(a)
<1> SUFFICES ASSUME NEW i \in DOMAIN a.entities, NEW j \in DOMAIN a.entities, i # j,
                    Identity(a.entities[i]) = Identity(a.entities[j])
             PROVE  FALSE
  BY DEF OneEach
<1>1. a.entities[i].type = a.entities[j].type /\ SpansOf(a.entities[i]) = SpansOf(a.entities[j])
  BY DEF Identity
<1>2. SpansOf(a.entities[i]) # {}
  BY AcceptedEntities
<1> QED
  BY <1>1, <1>2 DEF SharedMention

LEMMA OneReferred ==
  ASSUME NEW a \in Answers, Accepted(a), OneEach(a),
         NEW ref \in References(a), NEW other \in References(a),
         Identity(Referred(a, ref)) = Identity(Referred(a, other))
  PROVE  ref = other
<1>1. PICK i \in DOMAIN a.entities : Referred(a, ref) = a.entities[i] /\ a.entities[i].ref = ref
  BY AcceptedEntities
<1>2. PICK j \in DOMAIN a.entities : Referred(a, other) = a.entities[j] /\ a.entities[j].ref = other
  BY AcceptedEntities
<1> QED
  BY <1>1, <1>2 DEF OneEach

\* Offsets in the chunk and in the document.
LEMMA Offsets ==
  ASSUME NEW s \in Nat \X Nat, NEW t \in Nat \X Nat
  PROVE  /\ InDocument(s) \in Nat \X Nat /\ InDocument(InChunk(InDocument(s))) = InDocument(s)
         /\ InDocument(s) = InDocument(t) => s = t
         /\ Within(InDocument(s), InDocument(t)) <=> Within(s, t)
<1>1. PICK x \in Nat, y \in Nat : s = <<x, y>>
  OBVIOUS
<1>2. PICK u \in Nat, v \in Nat : t = <<u, v>>
  OBVIOUS
<1>3. ChunkStart \in Nat
  BY ExtractionAssumption
<1>4. InDocument(s) = <<ChunkStart + x, ChunkStart + y>>
      /\ InDocument(t) = <<ChunkStart + u, ChunkStart + v>>
  BY <1>1, <1>2 DEF InDocument
<1>5. InChunk(InDocument(s)) = <<x, y>>
  BY <1>3, <1>4 DEF InChunk
<1> QED
  BY <1>1, <1>2, <1>3, <1>4, <1>5 DEF InDocument, Within

\* The assertions of an output: its relations, then its properties.
LEMMA AssertionsAre ==
  ASSUME NEW a \in Answers, Accepted(a)
  PROVE  LET n == Len(a.relations)
             m == Len(a.facts)
             out == Output(a).assertions
         IN  /\ n \in Nat /\ m \in Nat /\ Len(out) = n + m /\ DOMAIN out = 1..(n + m)
             /\ \A i \in 1..n : out[i] = Relation(a, a.relations[i])
             /\ \A i \in 1..m : out[n + i] = Literal(a, a.facts[i])
<1> DEFINE n == Len(a.relations)
           m == Len(a.facts)
           first == [i \in 1..n |-> Relation(a, a.relations[i])]
           second == [i \in 1..m |-> Literal(a, a.facts[i])]
           S == {first[i] : i \in 1..n} \cup {second[i] : i \in 1..m}
<1>1. n \in Nat /\ m \in Nat /\ DOMAIN a.relations = 1..n /\ DOMAIN a.facts = 1..m
  BY AcceptedRelations, AcceptedFacts
<1>2. Output(a).assertions = first \o second
  BY <1>1 DEF Output
<1>3. first \in [1..n -> S] /\ second \in [1..m -> S]
  OBVIOUS
<1>4. (\A i \in 1..n : first[i] = Relation(a, a.relations[i]))
      /\ (\A i \in 1..m : second[i] = Literal(a, a.facts[i]))
  OBVIOUS
<1> HIDE DEF first, second, S, n, m
<1>5. first \in Seq(S) /\ second \in Seq(S) /\ Len(first) = n /\ Len(second) = m
  BY <1>1, <1>3
<1>6. first \o second \in Seq(S) /\ Len(first \o second) = n + m
      /\ \A i \in 1..n : (first \o second)[i] = first[i]
  BY <1>1, <1>5
<1>7. ASSUME NEW i \in 1..m PROVE (first \o second)[n + i] = second[i]
  <2>1. n + i \in 1..(n + m) /\ n + i > n /\ (n + i) - n = i
    BY <1>1
  <2> QED
    BY <1>1, <1>5, <2>1
<1>8. DOMAIN (first \o second) = 1..(n + m)
  BY <1>1, <1>6
<1> QED
  BY <1>1, <1>2, <1>4, <1>6, <1>7, <1>8 DEF n, m

LEMMA MentionsAre ==
  ASSUME NEW a
  PROVE  \A m : m \in Output(a).mentions <=>
            \E i \in DOMAIN a.entities : \E span \in SpansOf(a.entities[i]) :
               m = [id |-> MentionId(a.entities[i], span), entity |-> Identity(a.entities[i])]
<1>1. Output(a).mentions =
        UNION {{[id |-> MentionId(e, span), entity |-> Identity(e)] : span \in SpansOf(e)} :
               e \in ToSet(a.entities)}
  BY DEF Output
<1> QED
  BY <1>1 DEF ToSet

\* Each end of an assertion is mentioned in its evidence.
LEMMA EndsMentioned ==
  ASSUME NEW a \in Answers, Accepted(a), NEW ref \in References(a), NEW span \in Nat \X Nat,
         Encloses(span, Referred(a, ref))
  PROVE  \E m \in Output(a).mentions :
            m.entity = Identity(Referred(a, ref)) /\ Within(m.id.span, InDocument(span))
<1>1. PICK i \in DOMAIN a.entities : Referred(a, ref) = a.entities[i]
  BY AcceptedEntities
<1>2. PICK s \in SpansOf(a.entities[i]) : Within(s, span)
  BY <1>1 DEF Encloses
<1>3. s \in Nat \X Nat
  BY AcceptedEntities
<1> DEFINE m == [id |-> MentionId(a.entities[i], s), entity |-> Identity(a.entities[i])]
<1>4. m \in Output(a).mentions
  BY MentionsAre
<1>5. m.id.span = InDocument(s) /\ m.entity = Identity(a.entities[i])
  BY DEF MentionId
<1>6. Within(InDocument(s), InDocument(span))
  BY <1>2, <1>3, Offsets
<1> HIDE DEF m
<1> QED
  BY <1>1, <1>4, <1>5, <1>6

\* An assertion is a relation or a property of the answer.
LEMMA AssertionKinds ==
  ASSUME NEW a \in Answers, Accepted(a), NEW k \in DOMAIN Output(a).assertions
  PROVE  \/ \E i \in DOMAIN a.relations :
               k = i /\ Output(a).assertions[k] = Relation(a, a.relations[i])
         \/ \E i \in DOMAIN a.facts :
               k = Len(a.relations) + i /\ Output(a).assertions[k] = Literal(a, a.facts[i])
<1> DEFINE n == Len(a.relations)
           m == Len(a.facts)
<1>1. /\ n \in Nat /\ m \in Nat /\ k \in 1..(n + m)
      /\ DOMAIN a.relations = 1..n /\ DOMAIN a.facts = 1..m
  BY AssertionsAre, AcceptedRelations, AcceptedFacts
<1>2. CASE k <= n
  <2>1. k \in 1..n
    BY <1>1, <1>2
  <2> QED
    BY <1>1, <2>1, AssertionsAre
<1>3. CASE k > n
  <2>1. PICK i \in 1..m : k = n + i
    <3>1. k - n \in 1..m /\ k = n + (k - n)
      <4> HIDE DEF n, m
      <4> QED
        BY <1>1, <1>3
    <3> QED
      BY <3>1
  <2> QED
    BY <1>1, <2>1, AssertionsAre
<1> QED
  BY <1>1, <1>2, <1>3

LEMMA AssertionsDiffer ==
  ASSUME NEW a \in Answers, Accepted(a), OneEach(a),
         NEW k \in DOMAIN Output(a).assertions, NEW l \in DOMAIN Output(a).assertions,
         Output(a).assertions[k] = Output(a).assertions[l]
  PROVE  k = l
<1>1. ASSUME NEW i \in DOMAIN a.relations, NEW j \in DOMAIN a.relations,
             Relation(a, a.relations[i]) = Relation(a, a.relations[j])
      PROVE  i = j
  <2> DEFINE r == a.relations[i]
             q == a.relations[j]
  <2>1. /\ r.type = q.type /\ InDocument(r.span) = InDocument(q.span)
        /\ Identity(Referred(a, r.source)) = Identity(Referred(a, q.source))
        /\ Identity(Referred(a, r.target)) = Identity(Referred(a, q.target))
    BY <1>1 DEF Relation
  <2>2. /\ r.span \in Nat \X Nat /\ q.span \in Nat \X Nat
        /\ {r.source, r.target, q.source, q.target} \subseteq References(a)
    BY AcceptedRelations
  <2>3. r.span = q.span
    BY <2>1, <2>2, Offsets
  <2>4. r.source = q.source
    BY <2>1, <2>2, OneReferred
  <2>5. r.target = q.target
    BY <2>1, <2>2, OneReferred
  <2> QED
    BY <2>1, <2>3, <2>4, <2>5, AcceptedRelations
<1>2. ASSUME NEW i \in DOMAIN a.facts, NEW j \in DOMAIN a.facts,
             Literal(a, a.facts[i]) = Literal(a, a.facts[j])
      PROVE  i = j
  <2> DEFINE f == a.facts[i]
             g == a.facts[j]
  <2>1. /\ f.name = g.name /\ InDocument(f.span) = InDocument(g.span)
        /\ Identity(Referred(a, f.of)) = Identity(Referred(a, g.of))
        /\ {<<f.name, ValueOf(f), InDocument(f.span)>>}
              = {<<g.name, ValueOf(g), InDocument(g.span)>>}
    BY <1>2 DEF Literal
  <2>2. f.span \in Nat \X Nat /\ g.span \in Nat \X Nat /\ {f.of, g.of} \subseteq References(a)
    BY AcceptedFacts
  <2>3. f.span = g.span
    BY <2>1, <2>2, Offsets
  <2>4. f.of = g.of
    BY <2>1, <2>2, OneReferred
  <2>5. ValueOf(f) = ValueOf(g)
    <3>1. \A x, y : {x} = {y} => x = y
      OBVIOUS
    <3>2. <<f.name, ValueOf(f), InDocument(f.span)>> = <<g.name, ValueOf(g), InDocument(g.span)>>
      BY <2>1, <3>1
    <3> QED
      BY <3>2
  <2> QED
    BY <2>1, <2>3, <2>4, <2>5, AcceptedFacts
<1>3. ASSUME NEW r, NEW f PROVE Relation(a, r) # Literal(a, f)
  <2>1. Relation(a, r).object # {} /\ Literal(a, f).object = {}
    BY DEF Relation, Literal
  <2> QED
    BY <2>1
<1> QED
  BY <1>1, <1>2, <1>3, AssertionKinds

LEMMA BundledIs ==
  ASSUME NEW a \in Answers, Accepted(a)
  PROVE  Bundled(Output(a)) <=> OneEach(a)
<1> DEFINE out == Output(a)
<1>1. Cardinality({out.entities[i] : i \in DOMAIN out.entities}) = Len(out.entities) <=> OneEach(a)
  <2> DEFINE n == Len(a.entities)
             key == [i \in 1..n |-> Identity(a.entities[i])]
  <2>1. n \in Nat /\ DOMAIN a.entities = 1..n
    BY AcceptedEntities
  <2>2. out.entities = key /\ key = [i \in 1..n |-> key[i]]
    BY <2>1 DEF Output
  <2>3. \A i \in 1..n : key[i] = Identity(a.entities[i])
    OBVIOUS
  <2>4. DOMAIN key = 1..n
    OBVIOUS
  <2>5. Len(key) = n
    <3> DEFINE T == {key[i] : i \in 1..n}
    <3>1. key \in [1..n -> T]
      OBVIOUS
    <3> HIDE DEF key, n, T
    <3>2. key \in Seq(T)
      BY <2>1, <3>1
    <3> QED
      BY <2>1, <2>4, <3>2
  <2> HIDE DEF key, n, out
  <2>6. Cardinality({key[i] : i \in 1..n}) = n <=> \A i, j \in 1..n : key[i] = key[j] => i = j
    BY <2>1, <2>2, KeysDistinct
  <2> QED
    BY <2>1, <2>2, <2>3, <2>4, <2>5, <2>6 DEF OneEach
<1>2. ASSUME OneEach(a)
      PROVE  Cardinality({out.assertions[k] : k \in DOMAIN out.assertions}) = Len(out.assertions)
  <2> DEFINE n == Len(out.assertions)
             key == out.assertions
  <2>1. n \in Nat /\ DOMAIN key = 1..n
    BY AssertionsAre
  <2>2. key = [i \in 1..n |-> key[i]]
    BY <2>1 DEF Output
  <2>3. \A i, j \in 1..n : key[i] = key[j] => i = j
    BY <1>2, <2>1, AssertionsDiffer
  <2> HIDE DEF key, n, out
  <2>4. Cardinality({key[i] : i \in 1..n}) = n
    BY <2>1, <2>2, <2>3, KeysDistinct
  <2> QED
    BY <2>1, <2>4 DEF key, n
<1>3. ASSUME NEW f \in ToSet(out.assertions), NEW e \in EntitiesOf(f)
      PROVE  \E m \in out.mentions : m.entity = e /\ Within(m.id.span, f.span)
  <2>1. PICK k \in DOMAIN out.assertions : f = out.assertions[k]
    BY DEF ToSet
  <2>2. ASSUME NEW i \in DOMAIN a.relations, f = Relation(a, a.relations[i])
        PROVE  \E m \in out.mentions : m.entity = e /\ Within(m.id.span, f.span)
    <3> DEFINE r == a.relations[i]
    <3>1. /\ r.span \in Nat \X Nat /\ r.source \in References(a) /\ r.target \in References(a)
          /\ Encloses(r.span, Referred(a, r.source)) /\ Encloses(r.span, Referred(a, r.target))
      BY AcceptedRelations
    <3>2. f.span = InDocument(r.span)
          /\ (e = Identity(Referred(a, r.source)) \/ e = Identity(Referred(a, r.target)))
      BY <2>2 DEF Relation, EntitiesOf
    <3> QED
      BY <3>1, <3>2, EndsMentioned
  <2>3. ASSUME NEW i \in DOMAIN a.facts, f = Literal(a, a.facts[i])
        PROVE  \E m \in out.mentions : m.entity = e /\ Within(m.id.span, f.span)
    <3> DEFINE l == a.facts[i]
    <3>1. /\ l.span \in Nat \X Nat /\ l.of \in References(a)
          /\ Encloses(l.span, Referred(a, l.of))
      BY AcceptedFacts
    <3>2. f.span = InDocument(l.span) /\ e = Identity(Referred(a, l.of))
      BY <2>3 DEF Literal, EntitiesOf
    <3> QED
      BY <3>1, <3>2, EndsMentioned
  <2> QED
    BY <2>1, <2>2, <2>3, AssertionKinds
<1> QED
  BY <1>1, <1>2, <1>3 DEF Bundled, DistinctBy

\* A record whose spans are spans of the document.
Settled(f) ==
    /\ f = [predicate |-> f.predicate, span |-> f.span, subject |-> f.subject,
            object |-> f.object, values |-> f.values]
    /\ InDocument(InChunk(f.span)) = f.span
    /\ \A v \in f.values : v = <<v[1], v[2], v[3]>> /\ InDocument(InChunk(v[3])) = v[3]

LEMMA AssertionsSettled ==
  ASSUME NEW a \in Answers, Accepted(a)
  PROVE  \A k \in DOMAIN Output(a).assertions : Settled(Output(a).assertions[k])
<1>1. ASSUME NEW i \in DOMAIN a.relations
      PROVE  Settled(Relation(a, a.relations[i]))
  <2> DEFINE r == a.relations[i]
  <2>1. r.span \in Nat \X Nat /\ \A p \in ToSet(r.properties) : p.span \in Nat \X Nat
    BY AcceptedRelations
  <2>2. InDocument(InChunk(InDocument(r.span))) = InDocument(r.span)
    BY <2>1, Offsets
  <2>3. \A p \in ToSet(r.properties) :
           InDocument(InChunk(InDocument(p.span))) = InDocument(p.span)
    BY <2>1, Offsets
  <2> HIDE DEF r
  <2> DEFINE V == {<<p.name, ValueOf(p), InDocument(p.span)>> : p \in ToSet(r.properties)}
  <2>4. \A v \in V : v = <<v[1], v[2], v[3]>> /\ InDocument(InChunk(v[3])) = v[3]
    BY <2>3
  <2>5. Relation(a, r) =
           [predicate |-> r.type, span |-> InDocument(r.span),
            subject |-> Identity(Referred(a, r.source)),
            object |-> {Identity(Referred(a, r.target))}, values |-> V]
    BY DEF Relation
  <2> HIDE DEF V
  <2>6. Settled(Relation(a, r))
    BY <2>2, <2>4, <2>5 DEF Settled
  <2> QED
    BY <2>6 DEF r
<1>2. ASSUME NEW i \in DOMAIN a.facts
      PROVE  Settled(Literal(a, a.facts[i]))
  <2> DEFINE l == a.facts[i]
             V == {<<l.name, ValueOf(l), InDocument(l.span)>>}
  <2>1. l.span \in Nat \X Nat
    BY AcceptedFacts
  <2>2. InDocument(InChunk(InDocument(l.span))) = InDocument(l.span)
    BY <2>1, Offsets
  <2>3. \A v \in V : v = <<v[1], v[2], v[3]>> /\ InDocument(InChunk(v[3])) = v[3]
    BY <2>2
  <2>4. Literal(a, l) =
           [predicate |-> l.name, span |-> InDocument(l.span),
            subject |-> Identity(Referred(a, l.of)), object |-> {}, values |-> V]
    BY DEF Literal
  <2> HIDE DEF V
  <2> QED
    BY <2>2, <2>3, <2>4 DEF Settled
<1> QED
  BY <1>1, <1>2, AssertionKinds

LEMMA SettledComesBack ==
  ASSUME NEW f, Settled(f)
  PROVE  LET g == [f EXCEPT !.span = InChunk(f.span),
                            !.values = {<<v[1], v[2], InChunk(v[3])>> : v \in f.values}]
         IN  [g EXCEPT !.span = InDocument(g.span),
                       !.values = {<<v[1], v[2], InDocument(v[3])>> : v \in g.values}] = f
<1> DEFINE W == {<<v[1], v[2], InChunk(v[3])>> : v \in f.values}
           V == {<<w[1], w[2], InDocument(w[3])>> : w \in W}
           g == [f EXCEPT !.span = InChunk(f.span), !.values = W]
<1>1. \A v \in f.values : v = <<v[1], v[2], v[3]>> /\ InDocument(InChunk(v[3])) = v[3]
  BY DEF Settled
<1>2. V = f.values
  <2>1. ASSUME NEW v \in f.values PROVE v \in V
    <3>1. <<v[1], v[2], InChunk(v[3])>> \in W
      OBVIOUS
    <3>2. <<v[1], v[2], InDocument(InChunk(v[3]))>> \in V
      <4>1. \A w \in W : <<w[1], w[2], InDocument(w[3])>> \in V
        OBVIOUS
      <4> HIDE DEF V, W
      <4> QED
        BY <3>1, <4>1
    <3> HIDE DEF V
    <3> QED
      BY <1>1, <3>2
  <2>2. ASSUME NEW u \in V PROVE u \in f.values
    <3>1. PICK w \in W : u = <<w[1], w[2], InDocument(w[3])>>
      OBVIOUS
    <3>2. PICK v \in f.values : w = <<v[1], v[2], InChunk(v[3])>>
      OBVIOUS
    <3>3. u = <<v[1], v[2], InDocument(InChunk(v[3]))>>
      BY <3>1, <3>2
    <3>4. u = v
      BY <1>1, <3>3
    <3> QED
      BY <3>4
  <2> HIDE DEF V
  <2> QED
    BY <2>1, <2>2
<1> HIDE DEF V, W
<1>3. PICK p, h, o, there, U :
         /\ f = [predicate |-> p, span |-> there, subject |-> h, object |-> o, values |-> U]
         /\ InDocument(InChunk(there)) = there
  BY DEF Settled
<1>4. g = [predicate |-> p, span |-> InChunk(there), subject |-> h, object |-> o, values |-> W]
  <2>1. f.span = there
    BY <1>3
  <2>2. [f EXCEPT !.span = InChunk(there)] =
           [predicate |-> p, span |-> InChunk(there), subject |-> h, object |-> o, values |-> U]
    BY <1>3
  <2>3. [f EXCEPT !.span = InChunk(there), !.values = W]
           = [[f EXCEPT !.span = InChunk(there)] EXCEPT !.values = W]
    OBVIOUS
  <2>4. [[predicate |-> p, span |-> InChunk(there), subject |-> h, object |-> o, values |-> U]
           EXCEPT !.values = W]
        = [predicate |-> p, span |-> InChunk(there), subject |-> h, object |-> o, values |-> W]
    OBVIOUS
  <2> QED
    BY <2>1, <2>2, <2>3, <2>4, Zenon
<1>5. g.span = InChunk(there) /\ g.values = W
  <2> HIDE DEF g
  <2> QED
    BY <1>4
<1>6. [g EXCEPT !.span = InDocument(InChunk(there)), !.values = V] = f
  <2>1. V = U
    BY <1>2, <1>3
  <2> HIDE DEF g
  <2>2. [g EXCEPT !.span = there, !.values = U] =
           [predicate |-> p, span |-> there, subject |-> h, object |-> o, values |-> U]
    <3>1. [g EXCEPT !.span = there] =
             [predicate |-> p, span |-> there, subject |-> h, object |-> o, values |-> W]
      BY <1>4
    <3>2. [g EXCEPT !.span = there, !.values = U]
             = [[g EXCEPT !.span = there] EXCEPT !.values = U]
      OBVIOUS
    <3>3. [[predicate |-> p, span |-> there, subject |-> h, object |-> o, values |-> W]
             EXCEPT !.values = U]
          = [predicate |-> p, span |-> there, subject |-> h, object |-> o, values |-> U]
      OBVIOUS
    <3> QED
      BY <3>1, <3>2, <3>3, Zenon
  <2> QED
    BY <1>3, <2>1, <2>2
<1>7. [g EXCEPT !.span = InDocument(g.span), !.values = V] = f
  BY <1>5, <1>6
<1> QED
  BY <1>5, <1>7 DEF V, W

\* What is saved relative to the chunk comes back as it was.
LEMMA AuditComesBack ==
  ASSUME NEW a \in Answers, Accepted(a)
  PROVE  Decoded(Encoded(Output(a))) = Output(a)
<1> DEFINE out == Output(a)
           saved == Encoded(out)
<1>1. ASSUME NEW m \in out.mentions
      PROVE  LET k == [m EXCEPT !.id.span = InChunk(m.id.span)] IN
             [k EXCEPT !.id.span = InDocument(k.id.span)] = m
  <2>1. PICK i \in DOMAIN a.entities : \E span \in SpansOf(a.entities[i]) :
           m = [id |-> MentionId(a.entities[i], span), entity |-> Identity(a.entities[i])]
    BY MentionsAre
  <2>2. PICK span \in SpansOf(a.entities[i]) :
           m = [id |-> MentionId(a.entities[i], span), entity |-> Identity(a.entities[i])]
    BY <2>1
  <2>3. span \in Nat \X Nat
    BY AcceptedEntities
  <2>4. PICK there : there = InDocument(span) /\ InDocument(InChunk(there)) = there
    BY <2>3, Offsets
  <2>5. PICK type, e : m = [id |-> [type |-> type, span |-> there], entity |-> e]
    BY <2>2, <2>4 DEF MentionId
  <2>6. [m EXCEPT !.id.span = InChunk(m.id.span)] =
           [id |-> [type |-> type, span |-> InChunk(there)], entity |-> e]
    BY <2>5
  <2> DEFINE k == [id |-> [type |-> type, span |-> InChunk(there)], entity |-> e]
  <2>7. [k EXCEPT !.id.span = InDocument(k.id.span)] = m
    BY <2>4, <2>5
  <2> QED
    BY <2>6, <2>7
<1>2. \A k \in DOMAIN out.assertions : Settled(out.assertions[k])
  BY AssertionsSettled
<1> DEFINE Near(m) == [m EXCEPT !.id.span = InChunk(m.id.span)]
           Back(m) == [m EXCEPT !.id.span = InDocument(m.id.span)]
           NearFact(f) == [f EXCEPT !.span = InChunk(f.span),
                                    !.values = {<<v[1], v[2], InChunk(v[3])>> : v \in f.values}]
           BackFact(f) == [f EXCEPT !.span = InDocument(f.span),
                                    !.values = {<<v[1], v[2], InDocument(v[3])>> : v \in f.values}]
           near == {Near(m) : m \in out.mentions}
           nearFacts == [k \in DOMAIN out.assertions |-> NearFact(out.assertions[k])]
           back == {Back(m) : m \in near}
           backFacts == [k \in DOMAIN nearFacts |-> BackFact(nearFacts[k])]
<1>3. saved = [out EXCEPT !.mentions = near, !.assertions = nearFacts]
  BY DEF Encoded, Moved
<1>4. Decoded(saved) =
         [saved EXCEPT !.mentions = {Back(m) : m \in saved.mentions},
                       !.assertions = [k \in DOMAIN saved.assertions |->
                                          BackFact(saved.assertions[k])]]
  BY DEF Decoded, Moved
<1>5. back = out.mentions
  <2>1. \A m \in out.mentions : Back(Near(m)) = m
    BY <1>1
  <2> HIDE DEF Back, Near
  <2> QED
    BY <2>1
<1>6. backFacts = out.assertions
  <2>1. \A k \in DOMAIN out.assertions : BackFact(NearFact(out.assertions[k])) = out.assertions[k]
    BY <1>2, SettledComesBack
  <2>2. out.assertions = [k \in DOMAIN out.assertions |-> out.assertions[k]]
    BY DEF Output
  <2> HIDE DEF BackFact, NearFact, out
  <2> QED
    BY <2>1, <2>2
<1>7. PICK E, M, A, st : out = [entities |-> E, mentions |-> M, assertions |-> A, status |-> st]
  BY DEF Output
<1> HIDE DEF Near, Back, NearFact, BackFact, near, nearFacts, back, backFacts, out, saved
<1>8. saved = [entities |-> E, mentions |-> near, assertions |-> nearFacts, status |-> st]
  <2>1. [out EXCEPT !.mentions = near] =
           [entities |-> E, mentions |-> near, assertions |-> A, status |-> st]
    BY <1>7
  <2>2. [out EXCEPT !.mentions = near, !.assertions = nearFacts]
           = [[out EXCEPT !.mentions = near] EXCEPT !.assertions = nearFacts]
    OBVIOUS
  <2> QED
    BY <1>3, <2>1, <2>2
<1>9. saved.mentions = near /\ saved.assertions = nearFacts
  BY <1>8
<1>10. [saved EXCEPT !.mentions = back, !.assertions = backFacts] = out
  <2>1. [saved EXCEPT !.mentions = back] =
           [entities |-> E, mentions |-> back, assertions |-> nearFacts, status |-> st]
    BY <1>8
  <2>2. [saved EXCEPT !.mentions = back, !.assertions = backFacts]
           = [[saved EXCEPT !.mentions = back] EXCEPT !.assertions = backFacts]
    OBVIOUS
  <2>3. back = M /\ backFacts = A
    BY <1>5, <1>6, <1>7
  <2>4. [[entities |-> E, mentions |-> back, assertions |-> nearFacts, status |-> st]
           EXCEPT !.assertions = backFacts]
        = [entities |-> E, mentions |-> back, assertions |-> backFacts, status |-> st]
    OBVIOUS
  <2>5. [saved EXCEPT !.mentions = back, !.assertions = backFacts]
        = [entities |-> E, mentions |-> back, assertions |-> backFacts, status |-> st]
    BY <2>1, <2>2, <2>4, Zenon
  <2> QED
    BY <1>7, <2>3, <2>5, Zenon
<1> QED
  BY <1>4, <1>9, <1>10 DEF back, backFacts, out, saved

LEMMA MentionsFinite ==
  ASSUME NEW a \in Answers, Accepted(a)
  PROVE  IsFiniteSet(Output(a).mentions)
<1> DEFINE Of(e) == {[id |-> MentionId(e, span), entity |-> Identity(e)] : span \in SpansOf(e)}
           S == ToSet(a.entities)
           parts == {Of(e) : e \in S}
<1>1. Output(a).mentions = UNION parts
  BY DEF Output
<1>2. IsFiniteSet(S)
  <2>1. Len(a.entities) \in Nat /\ DOMAIN a.entities = 1..Len(a.entities)
    BY AcceptedEntities
  <2>2. a.entities = [i \in 1..Len(a.entities) |-> a.entities[i]]
    <3>1. a.entities \in Seq(ToSet(a.entities))
      BY ExtractionAssumption DEF Accepted
    <3> QED
      BY <2>1, <3>1
  <2>3. IsFiniteSet(1..Len(a.entities))
    BY <2>1, FS_Interval
  <2>4. S = {a.entities[i] : i \in 1..Len(a.entities)}
    BY <2>1 DEF ToSet
  <2> QED
    BY <2>2, <2>3, <2>4, ImageCounts
<1>3. IsFiniteSet(parts)
  <2> DEFINE f == [e \in S |-> Of(e)]
  <2>1. f = [e \in S |-> f[e]] /\ parts = {f[e] : e \in S}
    OBVIOUS
  <2> HIDE DEF f, parts, S
  <2> QED
    BY <1>2, <2>1, ImageCounts
<1>4. ASSUME NEW e \in S PROVE IsFiniteSet(Of(e))
  <2> DEFINE f == [span \in SpansOf(e) |-> [id |-> MentionId(e, span), entity |-> Identity(e)]]
  <2>1. IsFiniteSet(SpansOf(e))
    BY AcceptedEntities DEF ToSet
  <2>2. f = [span \in SpansOf(e) |-> f[span]] /\ Of(e) = {f[span] : span \in SpansOf(e)}
    OBVIOUS
  <2> HIDE DEF f, Of
  <2> QED
    BY <2>1, <2>2, ImageCounts
<1>5. \A part \in parts : IsFiniteSet(part)
  <2> HIDE DEF Of
  <2> QED
    BY <1>4
<1> HIDE DEF parts, S, Of
<1> QED
  BY <1>1, <1>3, <1>5, FS_UNION

\* A record that stands for two entities has a mention that two entities share.
LEMMA RecordsDistinct ==
  ASSUME NEW a \in Answers, Accepted(a), ~SharedMention(a)
  PROVE  DistinctRecords(Output(a))
<1> DEFINE M == Output(a).mentions
           f == [m \in M |-> m.id]
<1>1. ASSUME NEW m \in M, NEW n \in M, m.id = n.id
      PROVE  m = n
  <2>1. PICK i \in DOMAIN a.entities : \E s \in SpansOf(a.entities[i]) :
           m = [id |-> MentionId(a.entities[i], s), entity |-> Identity(a.entities[i])]
    BY MentionsAre
  <2>2. PICK s \in SpansOf(a.entities[i]) :
           m = [id |-> MentionId(a.entities[i], s), entity |-> Identity(a.entities[i])]
    BY <2>1
  <2>3. PICK j \in DOMAIN a.entities : \E t \in SpansOf(a.entities[j]) :
           n = [id |-> MentionId(a.entities[j], t), entity |-> Identity(a.entities[j])]
    BY MentionsAre
  <2>4. PICK t \in SpansOf(a.entities[j]) :
           n = [id |-> MentionId(a.entities[j], t), entity |-> Identity(a.entities[j])]
    BY <2>3
  <2>5. a.entities[i].type = a.entities[j].type /\ InDocument(s) = InDocument(t)
    BY <1>1, <2>2, <2>4 DEF MentionId
  <2>6. s \in Nat \X Nat /\ t \in Nat \X Nat
    BY AcceptedEntities
  <2>7. s = t
    BY <2>5, <2>6, Offsets
  <2>8. i = j
    BY <2>5, <2>7 DEF SharedMention
  <2> QED
    BY <2>2, <2>4, <2>7, <2>8
<1>2. IsFiniteSet(M)
  BY MentionsFinite
<1>3. f = [m \in M |-> f[m]] /\ {f[m] : m \in M} = {m.id : m \in M}
  OBVIOUS
<1>4. \A m, n \in M : f[m] = f[n] => m = n
  BY <1>1
<1> HIDE DEF f, M
<1>5. Cardinality({m.id : m \in M}) = Cardinality(M)
  BY <1>2, <1>3, <1>4, ImageCounts
<1> QED
  BY <1>5 DEF DistinctRecords, M

\* Of some spans one is first.
LEMMA OneIsFirst ==
  ASSUME NEW S, S \subseteq Nat \X Nat, S # {}
  PROVE  \E s \in S : \A t \in S : Before(s, t)
<1> DEFINE starts == {s[1] : s \in S}
<1>1. PICK x \in starts : \A y \in starts : x <= y
  <2>1. starts \subseteq Nat /\ starts # {}
    OBVIOUS
  <2> HIDE DEF starts
  <2> QED
    BY <2>1, LeastNat
<1> DEFINE ends == {s[2] : s \in {t \in S : t[1] = x}}
<1>2. PICK y \in ends : \A z \in ends : y <= z
  <2>1. ends \subseteq Nat /\ ends # {}
    OBVIOUS
  <2> HIDE DEF ends
  <2> QED
    BY <2>1, LeastNat
<1>3. PICK s \in S : s[1] = x /\ s[2] = y
  OBVIOUS
<1>4. ASSUME NEW t \in S PROVE Before(s, t)
  <2>1. PICK u \in Nat, v \in Nat : t = <<u, v>>
    OBVIOUS
  <2>2. t[1] = u /\ t[2] = v
    BY <2>1
  <2>3. x <= u
    BY <1>1, <2>2
  <2>4. u = x => y <= v
    BY <1>2, <2>2
  <2>5. x \in Nat /\ y \in Nat
    OBVIOUS
  <2> HIDE DEF starts, ends
  <2> QED
    BY <1>3, <2>2, <2>3, <2>4, <2>5 DEF Before
<1> QED
  BY <1>4

\* The end of a record is a mention of the entity the answer named.
LEMMA EndsKept ==
  ASSUME NEW a \in Answers, Accepted(a), OneEach(a), NEW ref \in References(a),
         NEW span \in Nat \X Nat, Encloses(span, Referred(a, ref)),
         NEW fact, fact.span = InDocument(span)
  PROVE  \E s \in SpansOf(Referred(a, ref)) :
            /\ Endpoint(Output(a), fact, Identity(Referred(a, ref)))
                  = MentionId(Referred(a, ref), s)
            /\ Within(s, span)
<1> DEFINE e == Identity(Referred(a, ref))
           inside == {m \in Output(a).mentions : m.entity = e /\ Within(m.id.span, fact.span)}
           spans == {m.id.span : m \in inside}
           Best(m) == m \in inside /\ \A n \in inside : Before(m.id.span, n.id.span)
           m0 == CHOOSE m \in inside : \A n \in inside : Before(m.id.span, n.id.span)
<1>1. ASSUME NEW m \in inside
      PROVE  \E s \in SpansOf(Referred(a, ref)) :
                m.id = MentionId(Referred(a, ref), s) /\ Within(s, span)
                /\ m.id.span \in Nat \X Nat
  <2>1. PICK i \in DOMAIN a.entities : \E s \in SpansOf(a.entities[i]) :
           m = [id |-> MentionId(a.entities[i], s), entity |-> Identity(a.entities[i])]
    BY MentionsAre
  <2>2. PICK s \in SpansOf(a.entities[i]) :
           m = [id |-> MentionId(a.entities[i], s), entity |-> Identity(a.entities[i])]
    BY <2>1
  <2>3. PICK j \in DOMAIN a.entities : Referred(a, ref) = a.entities[j]
    BY AcceptedEntities
  <2>4. Identity(a.entities[i]) = Identity(a.entities[j])
    BY <2>2, <2>3
  <2>5. i = j
    BY <2>4 DEF OneEach
  <2>6. s \in Nat \X Nat
    BY AcceptedEntities
  <2>7. m.id = MentionId(Referred(a, ref), s) /\ m.id.span = InDocument(s)
    BY <2>2, <2>3, <2>5 DEF MentionId
  <2>8. Within(s, span) /\ InDocument(s) \in Nat \X Nat
    BY <2>6, <2>7, Offsets
  <2> QED
    BY <2>2, <2>3, <2>5, <2>7, <2>8
<1>2. inside # {}
  <2>1. \E m \in Output(a).mentions : m.entity = e /\ Within(m.id.span, InDocument(span))
    BY EndsMentioned
  <2> QED
    BY <2>1
<1>3. \E m \in inside : \A n \in inside : Before(m.id.span, n.id.span)
  <2>1. spans \subseteq Nat \X Nat /\ spans # {}
    BY <1>1, <1>2
  <2> HIDE DEF spans
  <2>2. PICK s \in spans : \A t \in spans : Before(s, t)
    BY <2>1, OneIsFirst
  <2> USE DEF spans
  <2> HIDE DEF inside
  <2>3. PICK m \in inside : s = m.id.span
    BY <2>2
  <2> QED
    BY <2>2, <2>3
<1>4. m0 \in inside
  <2> HIDE DEF inside
  <2> QED
    BY <1>3
<1>5. Endpoint(Output(a), fact, e) = m0.id
  BY DEF Endpoint
<1> HIDE DEF m0, inside
<1> QED
  BY <1>1, <1>4, <1>5

\* A batch of an output, part by part.
LEMMA MentionsKept ==
  ASSUME NEW a \in Answers, Accepted(a), OneEach(a), NEW e \in ToSet(a.entities)
  PROVE  {m.id : m \in {n \in Batch(Output(a)).mentions : n.entity = Identity(e)}}
         = {MentionId(e, span) : span \in SpansOf(e)}
<1> DEFINE M == Output(a).mentions
           own == {n \in M : n.entity = Identity(e)}
<1>1. Batch(Output(a)).mentions = M
  BY DEF Batch
<1>2. PICK j \in DOMAIN a.entities : e = a.entities[j]
  BY DEF ToSet
<1>3. ASSUME NEW m \in own PROVE \E span \in SpansOf(e) : m.id = MentionId(e, span)
  <2>1. PICK i \in DOMAIN a.entities : \E s \in SpansOf(a.entities[i]) :
           m = [id |-> MentionId(a.entities[i], s), entity |-> Identity(a.entities[i])]
    BY MentionsAre
  <2>2. Identity(a.entities[i]) = Identity(a.entities[j])
    BY <1>2, <2>1
  <2>3. i = j
    BY <2>2 DEF OneEach
  <2> QED
    BY <1>2, <2>1, <2>3
<1>4. ASSUME NEW span \in SpansOf(e) PROVE \E m \in own : m.id = MentionId(e, span)
  <2> DEFINE m == [id |-> MentionId(e, span), entity |-> Identity(e)]
  <2>1. m \in M
    BY <1>2, MentionsAre
  <2>2. m.entity = Identity(e) /\ m.id = MentionId(e, span)
    OBVIOUS
  <2> HIDE DEF m, M
  <2> QED
    BY <2>1, <2>2
<1> HIDE DEF own
<1>5. {m.id : m \in own} = {MentionId(e, span) : span \in SpansOf(e)}
  BY <1>3, <1>4
<1> QED
  BY <1>1, <1>5 DEF own

LEMMA FactsKept ==
  ASSUME NEW a \in Answers, Accepted(a), OneEach(a)
  PROVE  Cardinality(Batch(Output(a)).facts) = Len(a.relations) + Len(a.facts)
<1> DEFINE out == Output(a)
           n == Len(a.relations) + Len(a.facts)
           Record(f) == [fact |-> f, ends |-> [e \in EntitiesOf(f) |-> Endpoint(out, f, e)]]
           key == [k \in 1..n |-> Record(out.assertions[k])]
<1>1. n \in Nat /\ DOMAIN out.assertions = 1..n
  <2>1. /\ Len(a.relations) \in Nat /\ Len(a.facts) \in Nat
        /\ DOMAIN Output(a).assertions = 1..(Len(a.relations) + Len(a.facts))
    BY AssertionsAre
  <2>2. PICK k \in Nat, l \in Nat : k = Len(a.relations) /\ l = Len(a.facts)
    BY <2>1
  <2>3. k + l \in Nat
    OBVIOUS
  <2> QED
    BY <2>1, <2>2, <2>3, Zenon
<1>2. Batch(out).facts = {key[k] : k \in 1..n}
  <2>1. Batch(out).facts = {Record(f) : f \in ToSet(out.assertions)}
    BY DEF Batch
  <2>2. ToSet(out.assertions) = {out.assertions[k] : k \in 1..n}
    BY <1>1 DEF ToSet
  <2> HIDE DEF Record, out, n
  <2> QED
    BY <2>1, <2>2
<1>3. ASSUME NEW i \in 1..n, NEW j \in 1..n, key[i] = key[j] PROVE i = j
  <2>1. Record(out.assertions[i]) = Record(out.assertions[j])
    BY <1>3
  <2>2. out.assertions[i] = out.assertions[j]
    BY <2>1
  <2> QED
    BY <1>1, <2>2, AssertionsDiffer
<1>4. key = [k \in 1..n |-> key[k]]
  OBVIOUS
<1> HIDE DEF key, n, out
<1>5. Cardinality({key[k] : k \in 1..n}) = n
  BY <1>1, <1>3, <1>4, KeysDistinct
<1> QED
  BY <1>2, <1>5 DEF out, n

LEMMA RelationKept ==
  ASSUME NEW a \in Answers, Accepted(a), OneEach(a), NEW r \in ToSet(a.relations)
  PROVE  \E f \in Batch(Output(a)).facts :
            /\ f.fact = Relation(a, r)
            /\ \A ref \in {r.source, r.target} :
                  LET e == Referred(a, ref) IN
                  \E span \in SpansOf(e) :
                      f.ends[Identity(e)] = MentionId(e, span) /\ Within(span, r.span)
<1> DEFINE out == Output(a)
           fact == Relation(a, r)
           ends == [e \in EntitiesOf(fact) |-> Endpoint(out, fact, e)]
           f == [fact |-> fact, ends |-> ends]
<1>1. PICK i \in DOMAIN a.relations : r = a.relations[i]
  BY DEF ToSet
<1>2. /\ r.span \in Nat \X Nat /\ r.source \in References(a) /\ r.target \in References(a)
      /\ Encloses(r.span, Referred(a, r.source)) /\ Encloses(r.span, Referred(a, r.target))
  BY <1>1, AcceptedRelations
<1>3. fact \in ToSet(out.assertions)
  <2>1. out.assertions[i] = fact /\ i \in DOMAIN out.assertions
    <3>1. /\ Len(a.relations) \in Nat /\ Len(a.facts) \in Nat
          /\ DOMAIN Output(a).assertions = 1..(Len(a.relations) + Len(a.facts))
      BY AssertionsAre
    <3>2. \A k \in 1..Len(a.relations) :
             Output(a).assertions[k] = Relation(a, a.relations[k])
      BY AssertionsAre
    <3>3. i \in 1..Len(a.relations)
      BY <1>1, AcceptedRelations
    <3>4. i \in 1..(Len(a.relations) + Len(a.facts))
      <4>1. PICK k \in Nat, l \in Nat : k = Len(a.relations) /\ l = Len(a.facts)
        BY <3>1
      <4>2. i \in 1..k
        BY <3>3, <4>1
      <4>3. i \in 1..(k + l)
        BY <4>2
      <4> QED
        BY <4>1, <4>3, Zenon
    <3> QED
      BY <1>1, <3>1, <3>2, <3>3, <3>4
  <2> QED
    BY <2>1 DEF ToSet
<1>4. f \in Batch(out).facts
  <2> HIDE DEF out, fact
  <2> QED
    BY <1>3 DEF Batch
<1>5. ASSUME NEW ref \in {r.source, r.target}
      PROVE  LET e == Referred(a, ref) IN
             \E span \in SpansOf(e) :
                 f.ends[Identity(e)] = MentionId(e, span) /\ Within(span, r.span)
  <2>1. ref \in References(a) /\ Encloses(r.span, Referred(a, ref))
    BY <1>2
  <2>2. fact.span = InDocument(r.span)
    BY DEF Relation
  <2>3. Identity(Referred(a, ref)) \in EntitiesOf(fact)
    BY DEF Relation, EntitiesOf
  <2> HIDE DEF fact
  <2>4. \E s \in SpansOf(Referred(a, ref)) :
            /\ Endpoint(out, fact, Identity(Referred(a, ref))) = MentionId(Referred(a, ref), s)
            /\ Within(s, r.span)
    BY <1>2, <2>1, <2>2, EndsKept
  <2> HIDE DEF out
  <2>5. f.ends[Identity(Referred(a, ref))] = Endpoint(out, fact, Identity(Referred(a, ref)))
    BY <2>3
  <2> QED
    BY <2>4, <2>5
<1>6. f.fact = fact
  OBVIOUS
<1> HIDE DEF f
<1> QED
  BY <1>4, <1>5, <1>6

LEMMA CardinalitiesKept ==
  ASSUME NEW a \in Answers, Accepted(a), OneEach(a),
         NEW f \in Batch(Output(a)).facts, NEW g \in Batch(Output(a)).facts,
         f # g, f.fact.object \cup g.fact.object = {},
         f.fact.subject = g.fact.subject, f.fact.predicate = g.fact.predicate
  PROVE  f.fact.predicate \notin SingleValued
<1> DEFINE out == Output(a)
           Record(h) == [fact |-> h, ends |-> [e \in EntitiesOf(h) |-> Endpoint(out, h, e)]]
<1>1. ASSUME NEW h \in Batch(out).facts, h.fact.object = {}
      PROVE  \E i \in DOMAIN a.facts : h = Record(Literal(a, a.facts[i]))
  <2>1. PICK c \in ToSet(out.assertions) : h = Record(c)
    BY DEF Batch
  <2>2. PICK k \in DOMAIN out.assertions : c = out.assertions[k]
    BY DEF ToSet
  <2>3. c.object = {}
    BY <1>1, <2>1
  <2>4. \A r : Relation(a, r).object # {}
    BY DEF Relation
  <2> HIDE DEF Record
  <2> QED
    BY <2>1, <2>2, <2>3, <2>4, AssertionKinds
<1>2. f.fact.object = {} /\ g.fact.object = {}
  OBVIOUS
<1>3. PICK i \in DOMAIN a.facts : f = Record(Literal(a, a.facts[i]))
  BY <1>1, <1>2
<1>4. PICK j \in DOMAIN a.facts : g = Record(Literal(a, a.facts[j]))
  BY <1>1, <1>2
<1>5. f.fact = Literal(a, a.facts[i]) /\ g.fact = Literal(a, a.facts[j])
  BY <1>3, <1>4
<1>6. i # j
  BY <1>3, <1>4
<1>7. /\ a.facts[i].name = a.facts[j].name /\ f.fact.predicate = a.facts[i].name
      /\ Identity(Referred(a, a.facts[i].of)) = Identity(Referred(a, a.facts[j].of))
  BY <1>5 DEF Literal
<1>8. a.facts[i].of = a.facts[j].of
  <2>1. {a.facts[i].of, a.facts[j].of} \subseteq References(a)
    BY AcceptedFacts
  <2> QED
    BY <1>7, <2>1, OneReferred
<1>9. WithinCardinality(a.facts)
  BY AcceptedFacts
<1> QED
  BY <1>6, <1>7, <1>8, <1>9 DEF WithinCardinality

-----------------------------------------------------------------------------
\* How far an answer has come.
ExtractionInv ==
    /\ answer \in Answers
    /\ progress \in {"answered", "rejected", "refused", "audited", "stuck", "kept"}
    /\ progress \in {"refused", "audited", "stuck", "kept"} => Accepted(answer)
    /\ progress = "refused" => ~OneEach(answer)
    /\ progress \in {"audited", "stuck", "kept"} =>
          OneEach(answer) /\ audit = Encoded(Output(answer))
    /\ progress = "stuck" => ~DistinctRecords(Output(answer))
    /\ progress = "kept" => kept = Batch(Output(answer))

LEMMA ExtractionInvHolds == ExtractionSpec => []ExtractionInv
<1>1. ExtractionInit => ExtractionInv
  BY DEF ExtractionInit, ExtractionInv
<1>2. ExtractionInv /\ [ExtractionNext]_extractionVars => ExtractionInv'
  <2> SUFFICES ASSUME ExtractionInv, [ExtractionNext]_extractionVars
               PROVE  ExtractionInv'
    OBVIOUS
  <2>1. CASE RejectAnswer
    BY <2>1 DEF RejectAnswer, ExtractionInv
  <2>2. CASE Save
    <3>1. answer \in Answers /\ Accepted(answer) /\ answer' = answer /\ kept' = kept
      BY <2>2 DEF Save, ExtractionInv
    <3>2. Bundled(Output(answer)) <=> OneEach(answer)
      BY <3>1, BundledIs
    <3>3. CASE Bundled(Output(answer))
      BY <2>2, <3>1, <3>2, <3>3 DEF Save, ExtractionInv
    <3>4. CASE ~Bundled(Output(answer))
      BY <2>2, <3>1, <3>2, <3>4 DEF Save, ExtractionInv
    <3> QED
      BY <3>3, <3>4
  <2>3. CASE Persist
    <3>1. /\ answer \in Answers /\ Accepted(answer) /\ OneEach(answer)
          /\ audit = Encoded(Output(answer)) /\ answer' = answer /\ audit' = audit
      BY <2>3 DEF Persist, ExtractionInv
    <3>2. Decoded(audit) = Output(answer)
      BY <3>1, AuditComesBack
    <3>3. CASE DistinctRecords(Output(answer))
      BY <2>3, <3>1, <3>2, <3>3 DEF Persist, ExtractionInv
    <3>4. CASE ~DistinctRecords(Output(answer))
      BY <2>3, <3>1, <3>2, <3>4 DEF Persist, ExtractionInv
    <3> QED
      BY <3>3, <3>4
  <2>4. CASE UNCHANGED extractionVars
    BY <2>4 DEF extractionVars, ExtractionInv
  <2> QED
    BY <2>1, <2>2, <2>3, <2>4 DEF ExtractionNext
<1> QED
  BY <1>1, <1>2, PTL DEF ExtractionSpec

\* For every set of answers, chunk, T-Box and limits, what the validator
\* accepts is persisted whole, unless two of its entities of one type share a
\* mention (AcceptedIsKept): the checks of the bundle and of the records agree
\* with those of the validator, the shift to the chunk and back loses nothing,
\* and every record ends on mentions of the entities the answer named.
THEOREM AcceptedStaysKept == ExtractionSpec => []AcceptedIsKept
<1>1. ExtractionInv => AcceptedIsKept
  <2> SUFFICES ASSUME ExtractionInv PROVE AcceptedIsKept
    OBVIOUS
  <2>1. ASSUME progress = "refused" PROVE SharedMention(answer)
    BY <2>1, UnsharedIsOneEach DEF ExtractionInv
  <2>2. ASSUME progress = "stuck" PROVE SharedMention(answer)
    BY <2>2, RecordsDistinct DEF ExtractionInv
  <2>3. ASSUME progress = "kept"
        PROVE  /\ answer \in Answers /\ Accepted(answer) /\ OneEach(answer)
               /\ kept = Batch(Output(answer))
    BY <2>3 DEF ExtractionInv
  <2>4. ASSUME progress = "kept", NEW e \in ToSet(answer.entities)
        PROVE  {m.id : m \in {n \in kept.mentions : n.entity = Identity(e)}}
               = {MentionId(e, span) : span \in SpansOf(e)}
    BY <2>3, <2>4, MentionsKept
  <2>5. ASSUME progress = "kept"
        PROVE  Cardinality(kept.facts) = Len(answer.relations) + Len(answer.facts)
    BY <2>3, <2>5, FactsKept
  <2>6. ASSUME progress = "kept", NEW r \in ToSet(answer.relations)
        PROVE  \E f \in kept.facts :
                  /\ f.fact = Relation(answer, r)
                  /\ \A ref \in {r.source, r.target} :
                        LET e == Referred(answer, ref) IN
                        \E span \in SpansOf(e) :
                            f.ends[Identity(e)] = MentionId(e, span) /\ Within(span, r.span)
    BY <2>3, <2>6, RelationKept
  <2>7. ASSUME progress = "kept", NEW f \in kept.facts, NEW g \in kept.facts,
               f # g, f.fact.object \cup g.fact.object = {},
               f.fact.subject = g.fact.subject, f.fact.predicate = g.fact.predicate
        PROVE  f.fact.predicate \notin SingleValued
    BY <2>3, <2>7, CardinalitiesKept
  <2>8. ASSUME progress = "kept", kept.status = "CANDIDATE"
        PROVE  Confident(answer)
    BY <2>3, <2>8 DEF Batch, Output
  <2> QED
    BY <2>1, <2>2, <2>4, <2>5, <2>6, <2>7, <2>8 DEF AcceptedIsKept
<1> QED
  BY <1>1, ExtractionInvHolds, PTL
=============================================================================
