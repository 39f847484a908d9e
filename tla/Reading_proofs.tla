--------------------------- MODULE Reading_proofs ---------------------------
(***************************************************************************)
(* What the readers of the governed graph promise, whatever corpus, graph, *)
(* publications and candidates there are, the runner they are called       *)
(* through, and the contract of the releases they read.                    *)
(*                                                                         *)
(* A reader is right about one instant because the pin it compares never   *)
(* comes back: every change of the corpus advances the revision and every  *)
(* activation its generation.  So the inductive invariants say, under the  *)
(* condition that the pin is still the one that was taken, that what was   *)
(* found so far is what the queries would find now.  Repairs of access     *)
(* move no pin; of them the invariant of a view counts how many fit        *)
(* between two of its queries.                                             *)
(*                                                                         *)
(* RunnerInv is inductive.  The count of permits follows from the set of   *)
(* their holders: a step leaves the set as it is, or takes a permit for    *)
(* one more holder, or returns the permit of one holder; where the futures *)
(* of a call are follows from AttemptsFollow.                              *)
(***************************************************************************)
EXTENDS OperationRunner, GovernedRetrieval, GraphBrowsing, QualityAudit, EntityResolution,
        EvidenceProjection, ReleaseContract, FiniteSetTheorems, TLAPS

-----------------------------------------------------------------------------
(* The corpus that is read, and the pins that were taken of it             *)

CorpusInv ==
    /\ revision \in Nat /\ activation \in Nat /\ repairs \in Nat
    /\ lastIndex \in Nat /\ indexed \in {0, lastIndex}
    /\ release \in Releases \cup {NoRelease}

\* p was the pin at this or an earlier instant.
Taken(p) ==
    /\ p.revision \in Nat /\ p.revision <= revision
    /\ p.activation \in Nat /\ p.activation <= activation

\* No move of the corpus brings a pin back: while p is the pin, nothing moved.
LEMMA CorpusMoved ==
  ASSUME CorpusInv, CorpusMoves, NEW p, Taken(p)
  PROVE  /\ CorpusInv' /\ Taken(p)'
         /\ p = Pin' => p = Pin /\ UNCHANGED <<revision, release, activation, readable, repairs>>
<1>1. ASSUME NEW next \in SUBSET Chunks, ChangeCorpus(next)
      PROVE  CorpusInv' /\ Taken(p)' /\ p # Pin'
  <2>1. Pin'.revision = revision + 1
    BY <1>1 DEF ChangeCorpus, Pin
  <2> QED
    BY <1>1, <2>1 DEF ChangeCorpus, CorpusInv, Taken
<1>2. ASSUME NEW q \in Releases, ActivateRelease(q)
      PROVE  CorpusInv' /\ Taken(p)' /\ p # Pin'
  <2>1. Pin'.activation = activation + 1
    BY <1>2 DEF ActivateRelease, Pin
  <2> QED
    BY <1>2, <2>1 DEF ActivateRelease, CorpusInv, Taken
<1>3. CASE SelectIndex
  BY <1>3 DEF SelectIndex, CorpusInv, Taken, Pin
<1> QED
  BY <1>1, <1>2, <1>3 DEF CorpusMoves

\* A repair of access moves nothing else.
LEMMA AccessRepaired ==
  ASSUME CorpusInv, NEW next, RepairAccess(next)
  PROVE  /\ CorpusInv' /\ repairs' = repairs + 1 /\ UNCHANGED <<revision, release, activation>>
         /\ Pin' = Pin /\ \A p : Taken(p) => Taken(p)'
  BY DEF RepairAccess, CorpusInv, Pin, Taken

LEMMA PinParts == Pin.revision = revision /\ Pin.release = release /\ Pin.activation = activation
  BY DEF Pin

-----------------------------------------------------------------------------
(* Retrieval and the answer                                                *)

Hits == (Near \cup Lexical) \cap Visible
Found == Hits \cup ((UNION {Linked[c] : c \in Hits}) \cap Visible)

\* The steps after the recall; of them those of the projection that follow its
\* first rows, and those that follow the model's answer.
Settled ==
    {"confirm", "found", "ranked", "refused", "reread", "neighbours", "rehydrate", "reconfirm",
     "result", "pin 1", "selected 1", "rows 1", "rows 2", "rows 3", "rows 4", "selected 2",
     "pin 2", "before 1", "before 2", "before 3", "before 4", "ask",
     "after 1", "after 2", "after 3", "after 4"}
RowsRead == {"rows 3", "rows 4", "selected 2", "pin 2"}
Answered == {"after 1", "after 2", "after 3", "after 4"}

\* What has been found so far is what the queries find now.
FoundSoFar ==
    /\ step \in {"vector", "lexical"} => context = {}
    /\ step = "lexical" => seeds = Near \cap Visible
    /\ step = "expand" =>
          /\ seeds = Hits /\ ranked = Lexical \cap Visible /\ todo \subseteq Hits
          /\ context = (UNION {Linked[c] : c \in Hits \ todo}) \cap Visible
    /\ step \in {"adjacent", "hydrate"} \cup Settled => ranked = Found
    /\ step \in {"hydrate"} \cup Settled => context = Outcome
    /\ step = "rows 2" => rows["assertion"] = Visible
    /\ step \in RowsRead => \A k \in Kinds : rows[k] = Visible

\* The index that was captured is selected as long as the pin is the same.
IndexFollows ==
    /\ pin.index \in Nat /\ pin = [pin |-> pin.pin, index |-> pin.index]
    /\ pin.index > 0 /\ pin.pin = Pin => pin.index = indexed
    /\ pin.index = 0 /\ step \notin {"capture", "changed", "done"} => pin.pin.release = NoRelease

RetrievalInv ==
    /\ CorpusInv /\ Taken(pin.pin) /\ IndexFollows
    /\ DOMAIN rows = Kinds
    /\ step # "done" => told = "none"
    /\ step \notin Answered \cup {"done"} => cited = {}
    /\ step \in Answered => cited \subseteq context
    /\ step = "unpublished" => ranked = {} /\ context = {} /\ pin.index = 0
    /\ pin.pin = Pin => FoundSoFar

\* Under the pin a query finds all there is.
LEMMA AskedNow ==
  ASSUME RetrievalInv, pin.pin = Pin, step \notin {"capture", "changed", "done"}, NEW hits
  PROVE  Asked(hits) = hits \cap Visible
<1>1. CASE pin.index = 0
  BY <1>1, PinParts DEF RetrievalInv, IndexFollows, Asked, Visible
<1>2. CASE pin.index # 0
  BY <1>2 DEF RetrievalInv, IndexFollows, Asked, State
<1> QED
  BY <1>1, <1>2

LEMMA OutcomeOfFound ==
  /\ Hits \subseteq Visible /\ Found \subseteq Visible /\ Outcome \subseteq Visible
  /\ Hits \subseteq Found /\ Found \subseteq Outcome
  /\ Outcome = Found \cup (Neighbours(Found \cap Visible) \cap Visible)
<1>1. Outcome = Found \cup (Neighbours(Found) \cap Visible)
  BY DEF Outcome, Found, Hits
<1>2. Hits \subseteq Visible /\ Found \subseteq Visible /\ Hits \subseteq Found
  BY DEF Hits, Found
<1>3. Found \cap Visible = Found
  BY <1>2
<1> QED
  BY <1>1, <1>2, <1>3

LEMMA NothingPublished ==
  release = NoRelease => Visible = {} /\ Found = {} /\ Outcome = {}
  BY OutcomeOfFound DEF Visible

LEMMA InitialRetrieval == RetrievalInit => RetrievalInv
<1> SUFFICES ASSUME RetrievalInit PROVE RetrievalInv
  OBVIOUS
<1>1. CorpusInv
  BY DEF RetrievalInit, CorpusInit, CorpusInv
<1>2. pin.pin = NoPin /\ pin.index = 0 /\ pin = [pin |-> NoPin, index |-> 0] /\ step = "capture"
  BY DEF RetrievalInit, ReaderInit
<1>3. Taken(pin.pin)
  BY <1>2 DEF RetrievalInit, CorpusInit, Taken, NoPin
<1>4. IndexFollows
  BY <1>2 DEF IndexFollows
<1>5. FoundSoFar
  BY <1>2 DEF FoundSoFar, Settled, RowsRead
<1> QED
  BY <1>1, <1>2, <1>3, <1>4, <1>5 DEF RetrievalInit, ReaderInit, RetrievalInv, Answered

LEMMA GroundUnderRetrieval ==
  ASSUME RetrievalInv, CorpusMoves, UNCHANGED readerVars
  PROVE  RetrievalInv'
<1>0. /\ UNCHANGED <<step, pin, seeds, todo, ranked, context, rows, cited, told>>
      /\ CorpusInv /\ Taken(pin.pin)
  BY DEF RetrievalInv, readerVars
<1>1. /\ CorpusInv' /\ Taken(pin.pin)'
      /\ pin.pin = Pin' =>
            pin.pin = Pin /\ UNCHANGED <<revision, release, activation, readable, repairs>>
  BY <1>0, CorpusMoved
<1>2. IndexFollows'
  <2>1. ASSUME pin.index > 0, pin.pin = Pin' PROVE pin.index = indexed'
    <3>1. pin.index = indexed /\ pin.index \in Nat /\ UNCHANGED <<revision, activation>>
      BY <1>1, <2>1 DEF RetrievalInv, IndexFollows
    <3>2. indexed # 0 /\ revision \in Nat /\ activation \in Nat
      BY <2>1, <3>1 DEF RetrievalInv, CorpusInv
    <3> QED
      BY <3>1, <3>2 DEF CorpusMoves, ChangeCorpus, SelectIndex, ActivateRelease
  <2> QED
    BY <1>0, <1>1, <2>1 DEF RetrievalInv, IndexFollows
<1>3. ASSUME pin.pin = Pin' PROVE FoundSoFar'
  <2>1. pin.pin = Pin /\ Visible' = Visible
    BY <1>1, <1>3 DEF Visible
  <2>2. Hits' = Hits
    BY <2>1 DEF Hits
  <2>3. Found' = Found
    BY <2>1, <2>2 DEF Found
  <2>4. Outcome' = Outcome
    BY <2>1 DEF Outcome
  <2> QED
    BY <1>0, <2>1, <2>2, <2>3, <2>4 DEF RetrievalInv, FoundSoFar
<1> QED
  BY <1>0, <1>1, <1>2, <1>3 DEF RetrievalInv, Taken

\* The ground of a step of the reader.
LEMMA GroundRests ==
  ASSUME RetrievalInv, UNCHANGED corpusVars
  PROVE  /\ CorpusInv' /\ Taken(pin.pin) /\ \A p : Taken(p) => Taken(p)'
         /\ Pin' = Pin /\ Visible' = Visible /\ Hits' = Hits /\ Found' = Found /\ Outcome' = Outcome
         /\ indexed' = indexed
<1>1. /\ UNCHANGED <<revision, indexed, lastIndex, release, activation, readable, repairs>>
  BY DEF corpusVars
<1>2. Visible' = Visible
  BY <1>1 DEF Visible
<1>3. Hits' = Hits
  BY <1>2 DEF Hits
<1>4. Found' = Found /\ Outcome' = Outcome
  BY <1>2, <1>3 DEF Found, Outcome
<1> QED
  BY <1>1, <1>2, <1>3, <1>4 DEF RetrievalInv, CorpusInv, Taken, Pin

\* A call that fails.
LEMMA FailStep ==
  ASSUME RetrievalInv, UNCHANGED corpusVars, NEW reason, Fail(reason)
  PROVE  RetrievalInv'
<1>1. IndexFollows'
  BY GroundRests DEF Fail, RetrievalInv, IndexFollows
<1>2. FoundSoFar'
  BY DEF Fail, FoundSoFar, Settled, RowsRead
<1> QED
  BY <1>1, <1>2, GroundRests DEF Fail, RetrievalInv, Taken, Answered

\* A step that keeps the pin, and neither cites nor answers.
LEMMA GoesOn ==
  ASSUME RetrievalInv, UNCHANGED corpusVars,
         step \notin Answered \cup {"capture", "changed", "done"},
         step' \notin Answered \cup {"capture", "unpublished", "done"},
         UNCHANGED <<pin, cited, told>>, DOMAIN rows' = Kinds, pin.pin = Pin => FoundSoFar'
  PROVE  RetrievalInv'
<1>1. IndexFollows'
  BY GroundRests DEF RetrievalInv, IndexFollows
<1> QED
  BY <1>1, GroundRests DEF RetrievalInv, Taken
\* A step after the recall that changes nothing that was found.
LEMMA SettledStep ==
  ASSUME RetrievalInv, UNCHANGED corpusVars,
         step \in Settled \ Answered, step' \in Settled \ Answered,
         UNCHANGED <<pin, cited, told, ranked, context>>, DOMAIN rows' = Kinds,
         pin.pin = Pin => /\ step' = "rows 2" => rows'["assertion"] = Visible
                          /\ step' \in RowsRead => \A k \in Kinds : rows'[k] = Visible
  PROVE  RetrievalInv'
<1>1. ASSUME pin.pin = Pin PROVE FoundSoFar'
  BY <1>1, GroundRests DEF RetrievalInv, FoundSoFar, Settled, RowsRead
<1>2. step \notin Answered \cup {"capture", "changed", "done"}
  BY DEF Settled
<1>3. step' \notin Answered \cup {"capture", "unpublished", "done"}
  BY DEF Settled
<1> QED
  BY <1>1, <1>2, <1>3, GoesOn

LEMMA StepCapture ==
  ASSUME RetrievalInv, Capture
  PROVE  RetrievalInv'
<1>1. /\ UNCHANGED corpusVars /\ UNCHANGED <<rows, cited>> /\ step = "capture"
      /\ ranked' = {} /\ context' = {}
      /\ \/ indexed = 0 /\ release = NoRelease /\ step' = "unpublished" /\ told' = told
         \/ step' = "done"
         \/ indexed > 0 /\ step' = "vector" /\ told' = told
  BY DEF Capture
<1>2. pin'.pin = Pin /\ pin'.index = indexed /\ pin' = [pin |-> pin'.pin, index |-> pin'.index]
  BY DEF Capture, State
<1>3. indexed' = indexed /\ indexed \in Nat /\ CorpusInv'
  BY <1>1, GroundRests DEF RetrievalInv, CorpusInv
<1>4. Taken(Pin)
  BY PinParts DEF RetrievalInv, CorpusInv, Taken
<1>5. Taken(pin.pin)'
  <2>1. PICK p : p = Pin
    OBVIOUS
  <2>2. Taken(p)'
    BY <1>1, <1>4, <2>1, GroundRests
  <2> QED
    BY <1>2, <2>1, <2>2 DEF Taken
<1>6. IndexFollows'
  BY <1>1, <1>2, <1>3, PinParts DEF IndexFollows
<1>7. FoundSoFar'
  BY <1>1 DEF FoundSoFar, Settled, RowsRead
<1>8. cited' = {} /\ DOMAIN rows' = Kinds /\ (step' # "done" => told' = "none")
  BY <1>1 DEF RetrievalInv, Answered
<1>9. step' = "unpublished" => pin'.index = 0
  BY <1>1, <1>2, <1>3
<1> QED
  BY <1>1, <1>3, <1>5, <1>6, <1>7, <1>8, <1>9 DEF RetrievalInv, Answered

LEMMA StepUnpublished ==
  ASSUME RetrievalInv, Unpublished
  PROVE  RetrievalInv'
<1>1. /\ UNCHANGED <<corpusVars, pin, cited, told, ranked, context, rows>>
      /\ step = "unpublished" /\ step' \in {"found", "changed"}
  BY DEF Unpublished, Go
<1>2. ASSUME pin.pin = Pin PROVE FoundSoFar'
  <2>1. pin.index = 0 /\ ranked = {} /\ context = {}
    BY <1>1 DEF RetrievalInv
  <2>2. release = NoRelease
    BY <1>1, <1>2, <2>1, PinParts DEF RetrievalInv, IndexFollows
  <2>3. Found' = {} /\ Outcome' = {}
    BY <1>1, <2>2, GroundRests, NothingPublished
  <2> QED
    BY <1>1, <2>1, <2>3 DEF FoundSoFar, Settled, RowsRead
<1> QED
  BY <1>1, <1>2, GoesOn DEF RetrievalInv, Answered

\* The steps of the recall, that use no rows.
LEMMA RecallStep ==
  ASSUME RetrievalInv, UNCHANGED corpusVars,
         step \in {"vector", "lexical", "expand", "adjacent", "hydrate", "confirm", "neighbours"},
         step' \in {"lexical", "expand", "adjacent", "hydrate", "confirm", "found", "changed",
                    "rehydrate"},
         UNCHANGED <<pin, cited, told, rows>>, pin.pin = Pin => FoundSoFar'
  PROVE  RetrievalInv'
  BY GoesOn DEF RetrievalInv, Answered

LEMMA StepVectorRecall ==
  ASSUME RetrievalInv, VectorRecall
  PROVE  RetrievalInv'
<1>1. /\ UNCHANGED <<corpusVars, pin, cited, told, ranked, context, rows>>
      /\ step = "vector" /\ step' = "lexical" /\ seeds' = Asked(Near)
  BY DEF VectorRecall, Go
<1>2. ASSUME pin.pin = Pin PROVE FoundSoFar'
  <2>1. seeds' = Near \cap Visible /\ Visible' = Visible
    BY <1>1, <1>2, AskedNow, GroundRests
  <2>2. context' = {}
    BY <1>1, <1>2 DEF RetrievalInv, FoundSoFar
  <2> QED
    BY <1>1, <2>1, <2>2 DEF FoundSoFar, Settled, RowsRead
<1> QED
  BY <1>1, <1>2, RecallStep

LEMMA StepLexicalRecall ==
  ASSUME RetrievalInv, LexicalRecall
  PROVE  RetrievalInv'
<1>1. /\ UNCHANGED <<corpusVars, pin, cited, told, context, rows>>
      /\ step = "lexical" /\ step' = "expand" /\ ranked' = Asked(Lexical)
      /\ seeds' = seeds \cup ranked' /\ todo' = seeds'
  BY DEF LexicalRecall, Go
<1>2. ASSUME pin.pin = Pin PROVE FoundSoFar'
  <2>1. ranked' = Lexical \cap Visible /\ seeds = Near \cap Visible /\ context = {}
    BY <1>1, <1>2, AskedNow DEF RetrievalInv, FoundSoFar
  <2>2. seeds' = Hits
    BY <1>1, <2>1 DEF Hits
  <2>3. (UNION {Linked[c] : c \in Hits \ Hits}) \cap Visible = {}
    OBVIOUS
  <2> QED
    BY <1>1, <2>1, <2>2, <2>3, GroundRests DEF FoundSoFar, Settled, RowsRead
<1> QED
  BY <1>1, <1>2, RecallStep

LEMMA StepExpand ==
  ASSUME RetrievalInv, NEW c \in Chunks, Expand(c)
  PROVE  RetrievalInv'
<1>1. /\ UNCHANGED <<corpusVars, pin, cited, told, seeds, ranked, rows>>
      /\ step = "expand" /\ step' = "expand" /\ c \in todo /\ todo' = todo \ {c}
      /\ context' = context \cup Asked(IF c \in Visible THEN Linked[c] ELSE {})
  BY DEF Expand, Go
<1>2. ASSUME pin.pin = Pin PROVE FoundSoFar'
  <2>1. /\ seeds = Hits /\ ranked = Lexical \cap Visible /\ todo \subseteq Hits
        /\ context = (UNION {Linked[d] : d \in Hits \ todo}) \cap Visible
    BY <1>1, <1>2 DEF RetrievalInv, FoundSoFar
  <2>2. c \in Hits /\ c \in Visible
    BY <1>1, <2>1, OutcomeOfFound
  <2>3. context' = context \cup (Linked[c] \cap Visible)
    BY <1>1, <1>2, <2>2, AskedNow
  <2>4. Hits \ todo' = (Hits \ todo) \cup {c}
    BY <1>1, <2>2
  <2>5. context' = (UNION {Linked[d] : d \in Hits \ todo'}) \cap Visible
    BY <2>1, <2>3, <2>4
  <2>6. todo' \subseteq Hits
    BY <1>1, <2>1
  <2> QED
    BY <1>1, <2>1, <2>5, <2>6, GroundRests DEF FoundSoFar, Settled, RowsRead
<1> QED
  BY <1>1, <1>2, RecallStep

LEMMA StepRankCandidates ==
  ASSUME RetrievalInv, RankCandidates
  PROVE  RetrievalInv'
<1>1. /\ UNCHANGED <<corpusVars, pin, cited, told, seeds, context, rows>>
      /\ step = "expand" /\ step' = "adjacent" /\ todo = {}
      /\ ranked' = ranked \cup Asked(seeds \cup context)
  BY DEF RankCandidates, Go
<1>2. ASSUME pin.pin = Pin PROVE FoundSoFar'
  <2>1. /\ seeds = Hits /\ ranked = Lexical \cap Visible
        /\ context = (UNION {Linked[d] : d \in Hits \ todo}) \cap Visible
    BY <1>1, <1>2 DEF RetrievalInv, FoundSoFar
  <2>2. Hits \ todo = Hits
    BY <1>1
  <2>3. ranked' = ranked \cup ((seeds \cup context) \cap Visible)
    BY <1>1, <1>2, AskedNow
  <2>4. ranked \subseteq Hits
    BY <2>1 DEF Hits
  <2>5. ranked' = Found
    BY <2>1, <2>2, <2>3, <2>4, OutcomeOfFound DEF Found
  <2> QED
    BY <1>1, <2>5, GroundRests DEF FoundSoFar, Settled, RowsRead
<1> QED
  BY <1>1, <1>2, RecallStep

\* The neighbours are looked for twice: with the candidates, and when they are ranked anew.
LEMMA StepNeighbours ==
  ASSUME RetrievalInv, Adjacent \/ FindNeighbours
  PROVE  RetrievalInv'
<1>1. /\ UNCHANGED <<corpusVars, pin, cited, told, ranked, rows>>
      /\ \/ step = "adjacent" /\ step' = "hydrate"
         \/ step = "neighbours" /\ step' = "rehydrate"
      /\ context' = ranked \cup Asked(Neighbours(ranked \cap Visible))
  BY DEF Adjacent, FindNeighbours, Go
<1>2. ASSUME pin.pin = Pin PROVE FoundSoFar'
  <2>1. ranked = Found
    BY <1>1, <1>2 DEF RetrievalInv, FoundSoFar, Settled
  <2>2. context' = ranked \cup (Neighbours(ranked \cap Visible) \cap Visible)
    BY <1>1, <1>2, AskedNow
  <2>3. context' = Outcome
    BY <2>1, <2>2, OutcomeOfFound
  <2> QED
    BY <1>1, <2>1, <2>3, GroundRests DEF FoundSoFar, Settled, RowsRead
<1> QED
  BY <1>1, <1>2, RecallStep

LEMMA StepHydrate ==
  ASSUME RetrievalInv, Hydrate
  PROVE  RetrievalInv'
<1>1. /\ UNCHANGED <<corpusVars, pin, cited, told, rows>>
      /\ step = "hydrate" /\ step' = "confirm"
      /\ context' = Asked(context) /\ ranked' = ranked \cap context'
  BY DEF Hydrate, Go
<1>2. ASSUME pin.pin = Pin PROVE FoundSoFar'
  <2>1. ranked = Found /\ context = Outcome
    BY <1>1, <1>2 DEF RetrievalInv, FoundSoFar
  <2>2. context' = Outcome /\ ranked' = Found
    BY <1>1, <1>2, <2>1, AskedNow, OutcomeOfFound
  <2> QED
    BY <1>1, <2>2, GroundRests DEF FoundSoFar, Settled, RowsRead
<1> QED
  BY <1>1, <1>2, RecallStep

LEMMA StepConfirm ==
  ASSUME RetrievalInv, Confirm
  PROVE  RetrievalInv'
<1>1. /\ UNCHANGED <<corpusVars, pin, cited, told, ranked, context, rows>>
      /\ step = "confirm" /\ step' \in {"found", "changed"}
  BY DEF Confirm, Go
<1>2. ASSUME pin.pin = Pin PROVE FoundSoFar'
  BY <1>1, <1>2, GroundRests DEF RetrievalInv, FoundSoFar, Settled, RowsRead
<1> QED
  BY <1>1, <1>2, RecallStep

LEMMA StepAgain ==
  ASSUME RetrievalInv, Again
  PROVE  RetrievalInv'
<1>1. CASE captures = MaxCaptures
  BY <1>1, FailStep DEF Again
<1>2. CASE captures # MaxCaptures
  <2>1. /\ UNCHANGED <<corpusVars, pin, cited, told, ranked, context, rows>>
        /\ step = "changed" /\ step' = "capture"
    BY <1>2 DEF Again
  <2>2. FoundSoFar' /\ IndexFollows'
    BY <2>1, GroundRests DEF RetrievalInv, IndexFollows, FoundSoFar, Settled, RowsRead
  <2> QED
    BY <2>1, <2>2, GroundRests DEF RetrievalInv, Taken, Answered
<1> QED
  BY <1>1, <1>2

-----------------------------------------------------------------------------

\* A check that passes, or that fails the call.
LEMMA CheckStep ==
  ASSUME RetrievalInv, UNCHANGED corpusVars, step \in Settled \ Answered,
         NEW next \in Settled \ (Answered \cup RowsRead \cup {"rows 2"}),
         \/ Go(next) /\ UNCHANGED <<seeds, todo, ranked, context>>
         \/ Fail("changed")
  PROVE  RetrievalInv'
<1>1. ASSUME Go(next), UNCHANGED <<seeds, todo, ranked, context>> PROVE RetrievalInv'
  <2>1. step' = next /\ UNCHANGED <<pin, rows, cited, told>>
    BY <1>1 DEF Go
  <2> QED
    BY <1>1, <2>1, SettledStep DEF RetrievalInv
<1> QED
  BY <1>1, FailStep

LEMMA StepRerank ==
  ASSUME RetrievalInv, Rerank \/ NothingToRerank \/ BeginAnswer \/ ProjectGraph \/ ValidateBefore
  PROVE  RetrievalInv'
<1>1. CASE AskReranker
  <2>1. /\ UNCHANGED <<corpusVars, pin, cited, told, ranked, context, rows>>
        /\ step \in Settled \ Answered /\ step' \in Settled \ Answered
        /\ step' # "rows 2" /\ step' \notin RowsRead
    BY <1>1 DEF AskReranker, Settled, Answered, RowsRead
  <2> QED
    BY <2>1, SettledStep DEF RetrievalInv
<1>2. CASE RerankingFails
  BY <1>2, FailStep DEF RerankingFails
<1>3. CASE FindNeighbours
  BY <1>3, StepNeighbours
<1>4. CASE ~(AskReranker \/ RerankingFails \/ FindNeighbours)
  <2>1. /\ UNCHANGED corpusVars /\ step \in Settled \ Answered
        /\ \E next \in Settled \ (Answered \cup RowsRead \cup {"rows 2"}) :
              \/ Go(next) /\ UNCHANGED <<seeds, todo, ranked, context>>
              \/ Fail("changed")
    BY <1>4 DEF Rerank, CheckState, CheckShown, Rehydrate, NothingToRerank, BeginAnswer,
                ProjectGraph, ValidateBefore, CheckSources, Settled, Answered, RowsRead
  <2> QED
    BY <2>1, CheckStep
<1> QED
  BY <1>1, <1>2, <1>3, <1>4

\* The call ends with what it has.
LEMMA CallEnds ==
  ASSUME RetrievalInv, UNCHANGED <<corpusVars, pin, rows>>, step' = "done"
  PROVE  RetrievalInv'
<1>1. FoundSoFar' /\ IndexFollows'
  BY GroundRests DEF RetrievalInv, IndexFollows, FoundSoFar, Settled, RowsRead
<1> QED
  BY <1>1, GroundRests DEF RetrievalInv, Taken, Answered

LEMMA StepProject ==
  ASSUME RetrievalInv, Project
  PROVE  RetrievalInv'
<1>0. DOMAIN rows = Kinds /\ Visible' = Visible
  BY GroundRests DEF RetrievalInv, Project, ProjectGraph, CheckPin, CheckSelected, ReadRows,
                     RereadRows, DeliverGraph
<1>1. CASE ProjectGraph
  BY <1>1, StepRerank
<1>2. CASE CheckPin("pin 1", "selected 1") \/ CheckSelected("selected 1", "rows 1")
  BY <1>2, CheckStep DEF CheckPin, CheckSelected, Settled, Answered, RowsRead
<1>3. ASSUME NEW here, NEW kind \in Kinds, NEW next, ReadRows(here, kind, next),
             \/ here = "rows 1" /\ kind = "assertion" /\ next = "rows 2"
             \/ here = "rows 2" /\ kind = "mention" /\ next = "rows 3"
      PROVE  RetrievalInv'
  <2>1. PICK read : read = IF release = pin.pin.release THEN Visible ELSE {}
    OBVIOUS
  <2>2. /\ UNCHANGED <<corpusVars, pin, cited, told, ranked, context>>
        /\ step = here /\ step' = next /\ rows' = [rows EXCEPT ![kind] = read]
    BY <1>3, <2>1 DEF ReadRows
  <2>3. /\ DOMAIN rows' = Kinds /\ rows'[kind] = read
        /\ \A k \in Kinds \ {kind} : rows'[k] = rows[k]
    BY <1>0, <2>2
  <2>4. ASSUME pin.pin = Pin
        PROVE  /\ step' = "rows 2" => rows'["assertion"] = Visible
               /\ step' \in RowsRead => \A k \in Kinds : rows'[k] = Visible
    <3>1. read = Visible
      BY <2>1, <2>4, PinParts
    <3>2. here = "rows 2" => rows["assertion"] = Visible
      BY <2>2, <2>4 DEF RetrievalInv, FoundSoFar
    <3> QED
      BY <1>3, <2>2, <2>3, <3>1, <3>2 DEF Kinds, RowsRead
  <2>5. step \in Settled \ Answered /\ step' \in Settled \ Answered
    BY <1>3, <2>2 DEF Settled, Answered
  <2> QED
    BY <2>2, <2>3, <2>4, <2>5, SettledStep
<1>4. CASE \/ RereadRows("rows 3", "assertion", "rows 4")
           \/ RereadRows("rows 4", "mention", "selected 2") \/ CheckSelected("selected 2", "pin 2")
  <2>1. ASSUME Fail("changed") PROVE RetrievalInv'
    BY <1>4, <2>1, FailStep DEF RereadRows, CheckSelected
  <2>2. ASSUME ~Fail("changed") PROVE RetrievalInv'
    <3>1. /\ UNCHANGED <<corpusVars, pin, cited, told, ranked, context, rows>>
          /\ step \in RowsRead /\ step' \in RowsRead
      BY <1>4, <2>2 DEF RereadRows, CheckSelected, Go, RowsRead
    <3>2. step \in Settled \ Answered /\ step' \in Settled \ Answered /\ step' # "rows 2"
      BY <3>1 DEF RowsRead, Settled, Answered
    <3>3. pin.pin = Pin => \A k \in Kinds : rows'[k] = Visible
      BY <3>1 DEF RetrievalInv, FoundSoFar
    <3> QED
      BY <1>0, <3>1, <3>2, <3>3, SettledStep
  <2> QED
    BY <2>1, <2>2
<1>5. CASE DeliverGraph
  BY <1>5, CallEnds, FailStep DEF DeliverGraph
<1> QED
  BY <1>1, <1>2, <1>3, <1>4, <1>5 DEF Project, Kinds

LEMMA StepDeliverResult ==
  ASSUME RetrievalInv, DeliverResult
  PROVE  RetrievalInv'
  BY CallEnds DEF DeliverResult

\* From the model's output on.
LEMMA AfterStep ==
  ASSUME RetrievalInv, UNCHANGED <<corpusVars, pin, told, ranked, context, rows>>,
         step \in Answered \cup {"ask"}, step' \in Answered, cited' \subseteq context
  PROVE  RetrievalInv'
<1>1. ASSUME pin.pin = Pin PROVE FoundSoFar'
  BY <1>1, GroundRests DEF RetrievalInv, FoundSoFar, Settled, RowsRead, Answered
<1>2. IndexFollows'
  BY GroundRests DEF RetrievalInv, IndexFollows, Answered
<1> QED
  BY <1>1, <1>2, GroundRests DEF RetrievalInv, Taken, Answered

LEMMA StepGenerate ==
  ASSUME RetrievalInv, Generate
  PROVE  RetrievalInv'
<1>1. cited' \subseteq context
  BY DEF Generate, Acceptable
<1> QED
  BY <1>1, AfterStep DEF Generate, Answered

LEMMA StepValidateAfter ==
  ASSUME RetrievalInv, ValidateAfter
  PROVE  RetrievalInv'
<1>1. CASE DeliverAnswer
  BY <1>1, CallEnds, FailStep DEF DeliverAnswer
<1>2. CASE ~DeliverAnswer
  <2>1. ASSUME Fail("changed") PROVE RetrievalInv'
    BY <1>2, <2>1, FailStep DEF ValidateAfter, CheckState, CheckSources
  <2>2. ASSUME ~Fail("changed") PROVE RetrievalInv'
    <3>1. /\ UNCHANGED <<corpusVars, pin, cited, told, ranked, context, rows>>
          /\ step \in Answered /\ step' \in Answered
      BY <1>2, <2>2 DEF ValidateAfter, CheckState, CheckSources, Go, Answered
    <3>2. cited' \subseteq context
      BY <3>1 DEF RetrievalInv
    <3> QED
      BY <3>1, <3>2, AfterStep
  <2> QED
    BY <2>1, <2>2
<1> QED
  BY <1>1, <1>2

LEMMA RetrievalStep == RetrievalInv /\ [RetrievalNext]_retrievalVars => RetrievalInv'
<1> SUFFICES ASSUME RetrievalInv, [RetrievalNext]_retrievalVars PROVE RetrievalInv'
  OBVIOUS
<1>1. CASE UNCHANGED retrievalVars
  <2>1. UNCHANGED <<corpusVars, step, pin, seeds, todo, ranked, context, rows, cited, told>>
    BY <1>1 DEF retrievalVars, readerVars
  <2>2. (FoundSoFar => FoundSoFar') /\ IndexFollows'
    BY <2>1, GroundRests DEF RetrievalInv, IndexFollows, FoundSoFar
  <2> QED
    BY <2>1, <2>2, GroundRests DEF RetrievalInv, Taken
<1>2. CASE RetrievalNext
  BY <1>2, GroundUnderRetrieval, StepCapture, StepUnpublished, StepVectorRecall,
     StepLexicalRecall, StepExpand, StepRankCandidates, StepNeighbours, StepHydrate, StepConfirm,
     StepAgain, StepRerank, StepDeliverResult, StepProject, StepGenerate, StepValidateAfter
  DEF RetrievalNext, Reader
<1> QED
  BY <1>1, <1>2

\* What a call does where its state is compared for the last time.
LEMMA LastSteps ==
  ASSUME Reader
  PROVE  /\ step = "reconfirm" => CheckState("reconfirm", "result")
         /\ step = "unpublished" => Unpublished
         /\ step = "confirm" => Confirm
         /\ step = "after 4" => DeliverAnswer
         /\ step = "pin 2" => DeliverGraph
  BY DEF Reader, Capture, Unpublished, VectorRecall, LexicalRecall, Expand, RankCandidates,
         Adjacent, Hydrate, Confirm, Again, Rerank, AskReranker, RerankingFails, CheckState,
         CheckShown, FindNeighbours, Rehydrate, NothingToRerank, DeliverResult, Project,
         ProjectGraph, CheckPin, CheckSelected, ReadRows, RereadRows, DeliverGraph, BeginAnswer,
         ValidateBefore, CheckSources, Generate, ValidateAfter, DeliverAnswer

\* The last comparison of a call looks at the pin, and tells of what was found.
LEMMA LastComparison ==
  ASSUME RetrievalInv, RetrievalNext, Confirmed
  PROVE  /\ pin.pin = Pin /\ UNCHANGED <<corpusVars, context, cited, rows>>
         /\ step \in Settled \cup {"unpublished"} /\ step # "done"
         /\ told' = "graph" => step = "pin 2"
<1>0. step # "done" /\ told = "none" /\ step \in Settled \cup {"unpublished"}
  BY DEF Confirmed, RetrievalInv, Settled
<1>1. Reader
  BY <1>0 DEF RetrievalNext, readerVars, Confirmed
<1>2. Same => pin.pin = Pin
  BY DEF Same, State
<1>3. CASE step = "reconfirm"
  BY <1>0, <1>1, <1>2, <1>3, LastSteps DEF Confirmed, CheckState, Go, Fail
<1>4. CASE step = "unpublished"
  BY <1>0, <1>1, <1>2, <1>4, LastSteps DEF Confirmed, Unpublished, Go
<1>5. CASE step = "confirm"
  BY <1>0, <1>1, <1>2, <1>5, LastSteps DEF Confirmed, Confirm, Go
<1>6. CASE step = "after 4"
  BY <1>0, <1>1, <1>2, <1>6, LastSteps DEF Confirmed, DeliverAnswer, Fail
<1>7. CASE step = "pin 2"
  BY <1>0, <1>1, <1>7, LastSteps DEF Confirmed, DeliverGraph, Fail
<1> QED
  BY <1>3, <1>4, <1>5, <1>6, <1>7 DEF Confirmed

(* A retrieval, its graph and its answer are those of one instant, for any *)
(* corpus, any publications and any results of the recall.                 *)
THEOREM ResultsAreConsistent == RetrievalSpec => OneInstant
<1>1. RetrievalInv /\ [RetrievalNext]_retrievalVars =>
        [Confirmed => /\ context' = Outcome /\ cited' \subseteq Visible
                      /\ told' = "graph" => \A k \in Kinds : rows'[k] = Visible]_retrievalVars
  <2> SUFFICES ASSUME RetrievalInv, RetrievalNext, Confirmed
               PROVE  /\ context' = Outcome /\ cited' \subseteq Visible
                      /\ told' = "graph" => \A k \in Kinds : rows'[k] = Visible
    OBVIOUS
  <2>1. FoundSoFar /\ context' = context /\ cited' = cited /\ rows' = rows
    BY LastComparison DEF RetrievalInv
  <2>2. context = Outcome
    <3>1. CASE step \in Settled
      BY <2>1, <3>1 DEF FoundSoFar
    <3>2. CASE step = "unpublished"
      <4>1. context = {} /\ pin.index = 0 /\ pin.pin = Pin
        BY <3>2, LastComparison DEF RetrievalInv
      <4>2. release = NoRelease
        BY <3>2, <4>1, PinParts DEF RetrievalInv, IndexFollows
      <4> QED
        BY <4>1, <4>2, NothingPublished
    <3> QED
      BY <3>1, <3>2, LastComparison
  <2>3. cited \subseteq context
    BY LastComparison DEF RetrievalInv
  <2>4. step = "pin 2" => \A k \in Kinds : rows[k] = Visible
    BY <2>1 DEF FoundSoFar, RowsRead
  <2> QED
    BY <2>1, <2>2, <2>3, <2>4, LastComparison, OutcomeOfFound
<1> QED
  BY <1>1, InitialRetrieval, RetrievalStep, PTL DEF RetrievalSpec, OneInstant

-----------------------------------------------------------------------------
(* Browsing                                                                *)

\* The assertions that go with mentions: those in a chunk with one of them.
GoesWith(mentions) ==
    {f \in Assertions : /\ f \in Publishes[release]
                        /\ \E m \in mentions : Cites[m] = Cites[f]}

IsView(v) == v = [pin |-> v.pin, mentions |-> v.mentions, assertions |-> v.assertions]

\* What the first reading knows of the second, by the repairs there were so far.
ViewFollows ==
    /\ stage = "assertions" => (repairs = 0 => view.mentions = Served(Mentions))
    /\ stage = "mentions again" =>
          /\ repairs = 0 => view.mentions = Served(Mentions)
          /\ repairs <= 1 => \/ view.assertions = Served(Assertions)
                             \/ view.assertions = GoesWith(view.mentions)
    /\ stage \in {"assertions again", "confirm"} =>
          /\ second.pin = view.pin /\ second.mentions = view.mentions
          /\ repairs <= 1 => second.assertions = view.assertions
    /\ stage = "assertions again" =>
          (repairs <= 2 => \/ second.assertions = view.assertions
                           \/ second.assertions = Served(Assertions))
    /\ stage = "confirm" => (repairs <= 2 => second.assertions = view.assertions)

BrowsingInv ==
    /\ CorpusInv /\ Taken(view.pin) /\ IsView(view) /\ IsView(second)
    /\ stage \in {"mentions", "assertions", "mentions again", "assertions again"} =>
          view.pin.release # NoRelease
    /\ view.pin = Pin => ViewFollows

\* What is open of the assertions follows from what is open of the mentions.
LEMMA MentionsTell ==
  ASSUME release # NoRelease, release \in Releases
  PROVE  GoesWith(Served(Mentions)) = Served(Assertions)
  BY BrowsingAssumption DEF GoesWith, Served
LEMMA NoPinParts == NoPin.revision = 0 /\ NoPin.activation = 0
  BY DEF NoPin

\* Whatever moves below it, a request keeps what it knows.
LEMMA GroundUnderBrowsing ==
  ASSUME BrowsingInv, CorpusMoves \/ \E next \in SUBSET Chunks : RepairAccess(next),
         UNCHANGED <<stage, view, clientVars, second>>
  PROVE  BrowsingInv'
<1>0. CorpusInv /\ Taken(view.pin) /\ stage' = stage /\ view' = view /\ second' = second
  BY DEF BrowsingInv
<1>1. CASE CorpusMoves
  <2>1. /\ CorpusInv' /\ Taken(view.pin)'
        /\ view.pin = Pin' =>
              view.pin = Pin /\ UNCHANGED <<revision, release, activation, readable, repairs>>
    BY <1>0, <1>1, CorpusMoved
  <2>2. view'.pin = Pin' => ViewFollows'
    BY <1>0, <2>1 DEF BrowsingInv, ViewFollows, Served, GoesWith
  <2> QED
    BY <1>0, <2>1, <2>2 DEF BrowsingInv, IsView, Taken
<1>2. ASSUME NEW next \in SUBSET Chunks, RepairAccess(next)
      PROVE  BrowsingInv'
  <2>1. /\ CorpusInv' /\ repairs' = repairs + 1 /\ UNCHANGED <<revision, release, activation>>
        /\ Pin' = Pin /\ Taken(view.pin)'
    BY <1>0, <1>2, AccessRepaired
  <2>2. ASSUME view.pin = Pin PROVE ViewFollows'
    <3>1. repairs \in Nat /\ repairs' \in Nat /\ ViewFollows
      BY <2>1, <2>2 DEF BrowsingInv, CorpusInv
    <3>2. stage = "mentions again" => release \in Releases /\ release # NoRelease
      BY <1>0, <2>2, PinParts DEF BrowsingInv, CorpusInv
    <3>3. GoesWith(view.mentions)' = GoesWith(view.mentions)
      BY <1>0, <2>1 DEF GoesWith
    <3>4. CASE stage = "mentions again"
      <4>0. GoesWith(Served(Mentions)) = Served(Assertions)
        BY <3>2, <3>4, MentionsTell
      <4>1. repairs = 0 => view.assertions = GoesWith(view.mentions)
        <5> SUFFICES ASSUME repairs = 0 PROVE view.assertions = GoesWith(view.mentions)
          OBVIOUS
        <5>1. repairs <= 1
          OBVIOUS
        <5> QED
          BY <3>1, <3>4, <4>0, <5>1 DEF ViewFollows
      <4>2. repairs' # 0 /\ (repairs' <= 1 => repairs = 0)
        BY <2>1, <3>1
      <4> QED
        BY <1>0, <3>3, <3>4, <4>1, <4>2 DEF ViewFollows
    <3>5. CASE stage # "mentions again"
      <4>1. /\ repairs' # 0 /\ (repairs' <= 1 => repairs <= 1) /\ (repairs' <= 2 => repairs <= 1)
        BY <2>1, <3>1
      <4>2. repairs' <= 2 => repairs <= 2
        BY <2>1, <3>1
      <4> QED
        BY <1>0, <3>1, <3>5, <4>1, <4>2 DEF ViewFollows
    <3> QED
      BY <3>4, <3>5
  <2> QED
    BY <1>0, <2>1, <2>2 DEF BrowsingInv, IsView, Taken
<1> QED
  BY <1>1, <1>2

LEMMA InitialBrowsing == BrowsingInit => BrowsingInv
  BY CorpusAssumption
  DEF BrowsingInit, CorpusInit, BrowsingInv, CorpusInv, Taken, IsView, EmptyView, NoPin, ViewFollows

\* A step to or from where nothing is known of the view.
LEMMA RequestEnds ==
  ASSUME BrowsingInv, UNCHANGED <<revision, indexed, lastIndex, release, activation>>,
         repairs' \in Nat, view' \in {view, EmptyView}, second' = second,
         stage' \in {"idle", "pin", "loaded"}
  PROVE  BrowsingInv'
<1>1. Taken(EmptyView.pin)' /\ IsView(EmptyView)
  <2>1. EmptyView.pin = NoPin /\ IsView(EmptyView)
    BY DEF EmptyView, IsView
  <2>2. Taken(NoPin)'
    <3>1. revision' \in Nat /\ activation' \in Nat
      BY DEF BrowsingInv, CorpusInv
    <3> QED
      BY <3>1 DEF NoPin, Taken
  <2> QED
    BY <2>1, <2>2 DEF Taken
<1>2. ViewFollows'
  BY DEF ViewFollows
<1>3. CorpusInv'
  BY DEF BrowsingInv, CorpusInv
<1>4. Taken(view.pin)' /\ IsView(view)'
  BY <1>1 DEF BrowsingInv, Taken, IsView
<1> QED
  BY <1>2, <1>3, <1>4 DEF BrowsingInv, IsView

LEMMA StepReadPin ==
  ASSUME BrowsingInv, ReadPin
  PROVE  BrowsingInv'
<1>1. PICK v : v = [EmptyView EXCEPT !.pin = Pin]
  OBVIOUS
<1>2. /\ view' = v /\ v.pin = Pin /\ v.mentions = {} /\ v.assertions = {} /\ IsView(v)
      /\ UNCHANGED <<revision, indexed, lastIndex, release, activation, readable, repairs>>
  BY <1>1 DEF ReadPin, EmptyView, IsView, corpusVars
<1>3. CorpusInv' /\ Pin' = Pin /\ Taken(v.pin)'
  <2>1. CorpusInv' /\ Pin' = Pin
    BY <1>2 DEF BrowsingInv, CorpusInv, Pin
  <2>2. v.pin.revision = revision' /\ v.pin.activation = activation'
    BY <1>2, PinParts
  <2> QED
    BY <2>1, <2>2 DEF Taken, CorpusInv
<1>4. CASE release = NoRelease
  <2>1. stage' = "confirm" /\ second' = Now
    BY <1>4 DEF ReadPin
  <2>2. /\ second'.pin = Pin /\ second'.mentions = {} /\ second'.assertions = {}
        /\ IsView(second')
    BY <1>4, <2>1 DEF Now, Served, IsView
  <2>3. ViewFollows'
    BY <1>2, <2>1, <2>2 DEF ViewFollows
  <2> QED
    BY <1>2, <1>3, <2>1, <2>2, <2>3 DEF BrowsingInv, IsView
<1>5. CASE release # NoRelease
  <2>1. stage' = "mentions" /\ second' = second
    BY <1>5 DEF ReadPin
  <2>2. ViewFollows'
    BY <2>1 DEF ViewFollows
  <2>3. v.pin.release # NoRelease
    BY <1>2, <1>5 DEF Pin
  <2> QED
    BY <1>2, <1>3, <2>1, <2>2, <2>3 DEF BrowsingInv, IsView
<1> QED
  BY <1>4, <1>5

\* A query of the first or the second reading, under the pin of the view.
LEMMA QueryKeeps ==
  ASSUME BrowsingInv, UNCHANGED corpusVars, view'.pin = view.pin, IsView(view'), IsView(second'),
         stage \in {"mentions", "assertions", "mentions again", "assertions again"},
         view.pin = Pin => ViewFollows'
  PROVE  BrowsingInv'
<1>1. CorpusInv' /\ Pin' = Pin /\ Taken(view.pin)'
  BY DEF BrowsingInv, CorpusInv, Pin, Taken, corpusVars
<1> QED
  BY <1>1 DEF BrowsingInv, IsView

LEMMA StepReadMentions ==
  ASSUME BrowsingInv, ReadMentions
  PROVE  BrowsingInv'
<1>1. PICK read : read = IF release = view.pin.release THEN Served(Mentions) ELSE {}
  OBVIOUS
<1>2. /\ view' = [view EXCEPT !.mentions = read] /\ UNCHANGED corpusVars /\ second' = second
      /\ stage = "mentions" /\ stage' = "assertions"
  BY <1>1 DEF ReadMentions
<1>3. view'.pin = view.pin /\ view'.mentions = read /\ IsView(view')
  BY <1>2 DEF BrowsingInv, IsView
<1>4. ASSUME view.pin = Pin PROVE ViewFollows'
  <2>1. read = Served(Mentions)
    BY <1>1, <1>4 DEF Pin
  <2>2. Served(Mentions)' = Served(Mentions)
    BY <1>2 DEF Served, corpusVars
  <2> QED
    BY <1>2, <1>3, <2>1, <2>2 DEF ViewFollows
<1> QED
  BY <1>2, <1>3, <1>4, QueryKeeps DEF BrowsingInv

LEMMA StepReadAssertions ==
  ASSUME BrowsingInv, ReadAssertions
  PROVE  BrowsingInv'
<1>1. PICK read : read = IF release = view.pin.release THEN Served(Assertions) ELSE {}
  OBVIOUS
<1>2. /\ view' = [view EXCEPT !.assertions = read] /\ UNCHANGED corpusVars /\ second' = second
      /\ stage = "assertions" /\ stage' = "mentions again"
  BY <1>1 DEF ReadAssertions
<1>3. /\ view'.pin = view.pin /\ view'.mentions = view.mentions /\ view'.assertions = read
      /\ IsView(view')
  BY <1>2 DEF BrowsingInv, IsView
<1>4. ASSUME view.pin = Pin PROVE ViewFollows'
  <2>1. read = Served(Assertions)
    BY <1>1, <1>4 DEF Pin
  <2>2. /\ Served(Mentions)' = Served(Mentions) /\ Served(Assertions)' = Served(Assertions)
        /\ repairs' = repairs
    BY <1>2 DEF Served, corpusVars
  <2> QED
    BY <1>2, <1>3, <1>4, <2>1, <2>2 DEF ViewFollows, BrowsingInv
<1> QED
  BY <1>2, <1>3, <1>4, QueryKeeps DEF BrowsingInv

LEMMA StepRereadMentions ==
  ASSUME BrowsingInv, RereadMentions
  PROVE  BrowsingInv'
<1>1. CASE Reread("mentions", Mentions)
  <2>1. /\ stage = "mentions again" /\ stage' = "assertions again" /\ second' = Now
        /\ UNCHANGED corpusVars /\ view' = view
    BY <1>1 DEF RereadMentions
  <2>2. /\ second'.pin = Pin /\ second'.mentions = Served(Mentions)
        /\ second'.assertions = Served(Assertions) /\ IsView(second')
    BY <2>1 DEF Now, IsView
  <2>3. ASSUME view.pin = Pin PROVE ViewFollows'
    <3>1. view.mentions = Served(Mentions)
      BY <1>1, <2>3 DEF Reread, Pin
    <3>2. release # NoRelease /\ release \in Releases
      BY <2>1, <2>3, PinParts DEF BrowsingInv, CorpusInv
    <3>3. GoesWith(view.mentions) = Served(Assertions)
      BY <3>1, <3>2, MentionsTell
    <3>4. repairs' = repairs /\ Served(Assertions)' = Served(Assertions)
      BY <2>1 DEF Served, corpusVars
    <3> QED
      BY <2>1, <2>2, <2>3, <3>1, <3>3, <3>4 DEF ViewFollows, BrowsingInv
  <2> QED
    BY <2>1, <2>2, <2>3, QueryKeeps DEF BrowsingInv
<1>2. CASE ~Reread("mentions", Mentions)
  BY <1>2, RequestEnds DEF RereadMentions, StartOver, corpusVars, BrowsingInv, CorpusInv
<1> QED
  BY <1>1, <1>2

LEMMA StepRereadAssertions ==
  ASSUME BrowsingInv, RereadAssertions
  PROVE  BrowsingInv'
<1>1. CASE Reread("assertions", Assertions)
  <2>1. /\ stage = "assertions again" /\ stage' = "confirm" /\ second' = second
        /\ UNCHANGED corpusVars /\ view' = view
    BY <1>1 DEF RereadAssertions
  <2>2. ASSUME view.pin = Pin PROVE ViewFollows'
    <3>1. view.assertions = Served(Assertions)
      BY <1>1, <2>2 DEF Reread, Pin
    <3>2. repairs' = repairs
      BY <2>1 DEF corpusVars
    <3> QED
      BY <2>1, <2>2, <3>1, <3>2 DEF ViewFollows, BrowsingInv
  <2> QED
    BY <2>1, <2>2, QueryKeeps DEF BrowsingInv
<1>2. CASE ~Reread("assertions", Assertions)
  BY <1>2, RequestEnds DEF RereadAssertions, StartOver, corpusVars, BrowsingInv, CorpusInv
<1> QED
  BY <1>1, <1>2

\* The client's steps, and those that end a request.
LEMMA StepOfTheRest ==
  ASSUME BrowsingInv,
         \/ AskPage \/ AskEvidence \/ ForgetToken \/ ConfirmPin \/ Changed
         \/ LoseResponse \/ ReceiveEvidence
         \/ \E entries \in SUBSET Entries(view) : ReceivePage(entries)
  PROVE  BrowsingInv'
<1>1. CASE AskPage \/ AskEvidence
  BY <1>1, RequestEnds DEF AskPage, AskEvidence, Ask
<1>2. CASE ~(AskPage \/ AskEvidence)
  <2>1. /\ UNCHANGED corpusVars /\ second' = second /\ view' \in {view, EmptyView}
        /\ stage' \in {"idle", "pin", "loaded"}
    BY <1>2 DEF ForgetToken, ConfirmPin, Changed, StartOver, LoseResponse, ReceiveEvidence,
                ReceivePage
  <2> QED
    BY <2>1, RequestEnds DEF corpusVars, BrowsingInv, CorpusInv
<1> QED
  BY <1>1, <1>2

LEMMA BrowsingStep == BrowsingInv /\ [BrowsingNext]_browsingVars => BrowsingInv'
<1> SUFFICES ASSUME BrowsingInv, [BrowsingNext]_browsingVars PROVE BrowsingInv'
  OBVIOUS
<1>1. CASE UNCHANGED browsingVars
  <2>1. /\ UNCHANGED corpusVars /\ view' = view /\ second' = second /\ stage' = stage
    BY <1>1 DEF browsingVars
  <2>2. CorpusInv' /\ Pin' = Pin /\ Taken(view.pin)' /\ repairs' = repairs
    BY <2>1 DEF BrowsingInv, CorpusInv, Pin, Taken, corpusVars
  <2>3. ViewFollows => ViewFollows'
    BY <2>1, <2>2 DEF ViewFollows, Served, GoesWith, corpusVars
  <2> QED
    BY <2>1, <2>2, <2>3 DEF BrowsingInv, IsView
<1> QED
  BY <1>1, GroundUnderBrowsing, StepReadPin, StepReadMentions, StepReadAssertions,
     StepRereadMentions, StepRereadAssertions, StepOfTheRest
  DEF BrowsingNext, Browser

(* A view that is handed out is that of one instant of its second reading, *)
(* with up to two repairs of access within the request; its pin and its    *)
(* mentions are so with any number of them.                                *)
THEOREM ViewsAreConsistent == BrowsingSpec => ViewIsOfOneInstant
<1>1. BrowsingInv /\ [BrowsingNext]_browsingVars =>
        [stage = "confirm" /\ stage' = "loaded" =>
           /\ view.pin = second.pin /\ view.mentions = second.mentions
           /\ repairs <= 2 => view = second]_browsingVars
  <2> SUFFICES ASSUME BrowsingInv, BrowsingNext, stage = "confirm", stage' = "loaded"
               PROVE  /\ view.pin = second.pin /\ view.mentions = second.mentions
                      /\ repairs <= 2 => view = second
    OBVIOUS
  <2>1. ConfirmPin
    BY DEF BrowsingNext, Browser, AskPage, AskEvidence, Ask, ForgetToken, StartOver, ReadPin,
           ReadMentions, ReadAssertions, RereadMentions, RereadAssertions, Changed, LoseResponse,
           ReceiveEvidence, ReceivePage
  <2>2. view.pin = Pin
    BY <2>1 DEF ConfirmPin, StartOver
  <2> QED
    BY <2>2 DEF BrowsingInv, ViewFollows, IsView
<1> QED
  BY <1>1, InitialBrowsing, BrowsingStep, PTL DEF BrowsingSpec, ViewIsOfOneInstant
-----------------------------------------------------------------------------
(* The walk                                                                *)

OfRecords(v) == v.mentions \subseteq Mentions /\ v.assertions \subseteq Assertions

Received == UNION {pages[i] : i \in DOMAIN pages}

\* The client has what is up to its cursor.
WalkInv ==
    /\ OfRecords(view) /\ OfRecords(token)
    /\ cursor \in Nat /\ pages \in Seq(SUBSET Nat)
    /\ Received = {e \in Entries(token) : e <= cursor}
    /\ \A i, j \in DOMAIN pages : i < j => \A e \in pages[i], f \in pages[j] : e < f
    /\ walked => \A e \in Entries(token) : e <= cursor

LEMMA EntriesAreNumbers ==
  ASSUME NEW v, OfRecords(v)
  PROVE  Entries(v) \subseteq Nat \ {0}
  BY BrowsingAssumption DEF Entries, OfRecords

LEMMA EmptyWalk ==
  OfRecords(EmptyView) /\ Entries(EmptyView) = {}
  BY DEF OfRecords, Entries, EmptyView

LEMMA InitialWalk == BrowsingInit => WalkInv
<1> SUFFICES ASSUME BrowsingInit PROVE WalkInv
  OBVIOUS
<1>1. view = EmptyView /\ token = EmptyView /\ cursor = 0 /\ pages = <<>> /\ walked = FALSE
  BY DEF BrowsingInit
<1> QED
  BY <1>1, EmptyWalk DEF WalkInv, Received

\* A step that leaves what the client has.
LEMMA WalkRests ==
  ASSUME WalkInv, UNCHANGED <<token, cursor, pages, walked>>, OfRecords(view')
  PROVE  WalkInv'
  BY DEF WalkInv, Received, Entries, OfRecords

LEMMA WalkStartsOver ==
  ASSUME WalkInv, StartOver
  PROVE  WalkInv'
<1>1. view' = EmptyView /\ token' = EmptyView /\ cursor' = 0 /\ pages' = <<>> /\ walked' = FALSE
  BY DEF StartOver
<1>2. OfRecords(view)' /\ OfRecords(token)' /\ Entries(token)' = {}
  BY <1>1, EmptyWalk DEF OfRecords, Entries
<1> QED
  BY <1>1, <1>2 DEF WalkInv, Received

LEMMA ServedRecords ==
  /\ Served(Mentions) \subseteq Mentions /\ Served(Assertions) \subseteq Assertions
  BY DEF Served

\* The queries load records, and the client keeps what it has.
LEMMA WalkUnderQueries ==
  ASSUME WalkInv, BrowsingInv, ReadPin \/ ReadMentions \/ ReadAssertions
  PROVE  WalkInv'
<1>1. UNCHANGED <<token, cursor, pages, walked>> /\ IsView(view)
  BY DEF ReadPin, ReadMentions, ReadAssertions, clientVars, BrowsingInv
<1>2. CASE ReadPin
  <2>1. view'.mentions = {} /\ view'.assertions = {}
    BY <1>2 DEF ReadPin, EmptyView
  <2> QED
    BY <1>1, <2>1, WalkRests DEF OfRecords
<1>3. CASE ReadMentions
  <2>1. view'.mentions \subseteq Mentions /\ view'.assertions = view.assertions
    BY <1>1, <1>3, ServedRecords DEF ReadMentions, IsView
  <2> QED
    BY <1>1, <2>1, WalkRests DEF WalkInv, OfRecords
<1>4. CASE ReadAssertions
  <2>1. view'.assertions \subseteq Assertions /\ view'.mentions = view.mentions
    BY <1>1, <1>4, ServedRecords DEF ReadAssertions, IsView
  <2> QED
    BY <1>1, <2>1, WalkRests DEF WalkInv, OfRecords
<1> QED
  BY <1>2, <1>3, <1>4

LEMMA WalkGoesOn ==
  ASSUME WalkInv, NEW entries \in SUBSET Entries(view), ReceivePage(entries)
  PROVE  WalkInv'
<1>1. /\ Claimed /\ entries \subseteq Remaining /\ Page(entries)
      /\ pages' = Append(pages, entries) /\ token' = view /\ view' = EmptyView
      /\ walked' = (entries = Remaining)
  BY DEF ReceivePage
<1>2. Entries(view) \subseteq Nat \ {0} /\ entries \subseteq Nat /\ cursor \in Nat
  BY EntriesAreNumbers DEF WalkInv
<1>3. Received = {e \in Entries(view) : e <= cursor}
  <2>1. CASE Fresh
    <3>1. Received = {} /\ cursor = 0
      BY <2>1 DEF Fresh, Received
    <3>2. \A e \in Entries(view) : ~(e <= 0)
      BY <1>2
    <3> QED
      BY <3>1, <3>2
  <2>2. CASE ~Fresh
    BY <1>1, <2>2 DEF Claimed, WalkInv
  <2> QED
    BY <2>1, <2>2
<1>4. \A e \in entries : e > cursor
  BY <1>1 DEF Remaining
<1>5. /\ cursor' \in Nat /\ cursor' >= cursor /\ \A e \in entries : e <= cursor'
      /\ \A e \in Entries(view) : e <= cursor' => e <= cursor \/ e \in entries
  <2>1. CASE entries = {}
    <3>1. cursor' = cursor
      BY <2>1 DEF ReceivePage
    <3> QED
      BY <1>2, <2>1, <3>1
  <2>2. CASE entries # {}
    <3>1. PICK last \in entries : (\A e \in entries : e <= last) /\ cursor' = last
      BY <2>2 DEF ReceivePage
    <3>2. last \in Nat /\ last > cursor
      BY <1>2, <1>4, <3>1
    <3>3. ASSUME NEW e \in Entries(view), e <= last, ~(e <= cursor) PROVE e \in entries
      <4>1. e \in Remaining
        BY <1>2, <3>3 DEF Remaining
      <4> QED
        BY <1>1, <3>1, <3>3, <4>1 DEF Page
    <3> QED
      BY <1>2, <3>1, <3>2, <3>3
  <2> QED
    BY <2>1, <2>2
<1>6. /\ pages \in Seq(SUBSET Nat) /\ Len(pages) \in Nat /\ DOMAIN pages = 1..Len(pages)
      /\ pages' \in Seq(SUBSET Nat) /\ DOMAIN pages' = 1..(Len(pages) + 1)
      /\ pages'[Len(pages) + 1] = entries /\ \A i \in DOMAIN pages : pages'[i] = pages[i]
  BY <1>1, <1>2 DEF WalkInv
<1>7. Received' = Received \cup entries
  BY <1>6 DEF Received
<1>8. Received' = {e \in Entries(token)' : e <= cursor'}
  <2>1. Entries(token)' = Entries(view)
    BY <1>1 DEF Entries
  <2>2. \A e \in Entries(view) : e \in Received \cup entries <=> e <= cursor'
    BY <1>2, <1>3, <1>5
  <2>3. Received \cup entries \subseteq Entries(view)
    BY <1>3
  <2> QED
    BY <1>7, <2>1, <2>2, <2>3
<1>9. ASSUME NEW i \in DOMAIN pages', NEW j \in DOMAIN pages', i < j,
             NEW e \in pages'[i], NEW f \in pages'[j]
      PROVE  e < f
  <2>1. i \in DOMAIN pages /\ e \in pages[i]
    BY <1>6, <1>9
  <2>2. e \in Received
    BY <2>1 DEF Received
  <2>3. e <= cursor /\ e \in Nat
    BY <1>2, <1>3, <2>2
  <2>4. CASE j \in DOMAIN pages
    BY <1>6, <1>9, <2>1, <2>4 DEF WalkInv
  <2>5. CASE j \notin DOMAIN pages
    <3>1. f \in entries
      BY <1>6, <1>9, <2>5
    <3> QED
      BY <1>2, <1>4, <2>3, <3>1
  <2> QED
    BY <2>4, <2>5
<1>10. walked' => \A e \in Entries(token)' : e <= cursor'
  <2> SUFFICES ASSUME entries = Remaining, NEW e \in Entries(view) PROVE e <= cursor'
    BY <1>1 DEF Entries
  <2>1. e <= cursor \/ e \in entries
    BY <1>2 DEF Remaining
  <2> QED
    BY <1>2, <1>5, <2>1
<1>11. OfRecords(view)' /\ OfRecords(token)'
  BY <1>1, EmptyWalk DEF WalkInv, OfRecords
<1> QED
  BY <1>5, <1>6, <1>8, <1>9, <1>10, <1>11 DEF WalkInv

LEMMA WalkStep == WalkInv /\ BrowsingInv /\ [BrowsingNext]_browsingVars => WalkInv'
<1> SUFFICES ASSUME WalkInv, BrowsingInv, [BrowsingNext]_browsingVars PROVE WalkInv'
  OBVIOUS
<1>1. ASSUME StartOver PROVE WalkInv'
  BY <1>1, WalkStartsOver
<1>2. ASSUME UNCHANGED <<token, cursor, pages, walked>>, view' \in {view, EmptyView} PROVE WalkInv'
  BY <1>2, WalkRests, EmptyWalk DEF WalkInv, OfRecords
<1>3. CASE ReadPin \/ ReadMentions \/ ReadAssertions
  BY <1>3, WalkUnderQueries
<1>4. ASSUME NEW entries \in SUBSET Entries(view), ReceivePage(entries) PROVE WalkInv'
  BY <1>4, WalkGoesOn
<1>5. CASE \/ UNCHANGED browsingVars
           \/ AskPage \/ AskEvidence \/ ForgetToken \/ RereadMentions \/ RereadAssertions
           \/ ConfirmPin \/ Changed \/ LoseResponse \/ ReceiveEvidence
           \/ UNCHANGED <<stage, view, clientVars, second>>
  <2>1. \/ StartOver
        \/ UNCHANGED <<token, cursor, pages, walked>> /\ view' \in {view, EmptyView}
    BY <1>5 DEF browsingVars, AskPage, AskEvidence, ForgetToken, RereadMentions, RereadAssertions,
                ConfirmPin, Changed, LoseResponse, ReceiveEvidence, clientVars
  <2> QED
    BY <1>1, <1>2, <2>1
<1> QED
  BY <1>3, <1>4, <1>5 DEF BrowsingNext, Browser

(* A walk that came to its end holds every entry of one view once and in   *)
(* its order, for any records, page sizes and changes below it.            *)
THEOREM WalksAreWhole == BrowsingSpec => []WalkIsWhole
<1>1. WalkInv => WalkIsWhole
  <2> SUFFICES ASSUME WalkInv, walked PROVE Received = Entries(token)
    BY DEF WalkIsWhole, WalkInv, Received
  <2> QED
    BY DEF WalkInv
<1> QED
  BY <1>1, InitialBrowsing, InitialWalk, BrowsingStep, WalkStep, PTL DEF BrowsingSpec

-----------------------------------------------------------------------------
(* The audit                                                               *)

\* What may be read changes with the revision only.
LEMMA RevisionMoved ==
  ASSUME CorpusInv, CorpusMoves
  PROVE  CorpusInv' /\ revision' >= revision /\ (revision' = revision => readable' = readable)
<1>1. ASSUME NEW next \in SUBSET Chunks, ChangeCorpus(next)
      PROVE  CorpusInv' /\ revision' > revision
  BY <1>1 DEF ChangeCorpus, CorpusInv
<1>2. ASSUME NEW q \in Releases, ActivateRelease(q)
      PROVE  CorpusInv' /\ revision' = revision /\ readable' = readable
  BY <1>2 DEF ActivateRelease, CorpusInv
<1>3. ASSUME SelectIndex
      PROVE  CorpusInv' /\ revision' = revision /\ readable' = readable
  BY <1>3 DEF SelectIndex, CorpusInv
<1>4. revision \in Nat
  BY DEF CorpusInv
<1> QED
  BY <1>1, <1>2, <1>3, <1>4 DEF CorpusMoves, CorpusInv

\* The rows of a report could be read at its revision.
AuditInv ==
    /\ CorpusInv /\ report.revision \in Nat /\ report.revision <= revision
    /\ audit \in {"idle", "state", "revisions", "entities", "told", "manifest", "items",
                  "properties", "listed"}
    /\ audit \notin {"idle", "state", "revisions"} /\ report.revision = revision =>
          report.rows \subseteq readable

LEMMA InitialAudit == AuditInit => AuditInv
  BY DEF AuditInit, CorpusInit, AuditInv, CorpusInv, NoReport

LEMMA GroundUnderAudit ==
  ASSUME AuditInv, CorpusMoves, UNCHANGED <<audit, purpose, report, audits, runs, decided, listing>>
  PROVE  AuditInv'
<1>1. CorpusInv' /\ revision' >= revision /\ (revision' = revision => readable' = readable)
  BY RevisionMoved DEF AuditInv
<1>2. revision \in Nat /\ revision' \in Nat /\ report.revision \in Nat
  BY <1>1 DEF AuditInv, CorpusInv
<1>3. report.revision <= revision' /\ (report.revision = revision' => revision' = revision)
  BY <1>1, <1>2 DEF AuditInv
<1> QED
  BY <1>1, <1>2, <1>3 DEF AuditInv

\* A step after the rows were read, or that ends the call.
LEMMA AuditGoes ==
  ASSUME AuditInv, UNCHANGED corpusVars,
         \/ audit' = audit /\ report' = report
         \/ /\ audit \notin {"idle", "state", "revisions"}
            /\ report' = report /\ audit' \in {"told", "manifest", "items", "properties", "listed"}
         \/ Done
  PROVE  AuditInv'
<1>1. CorpusInv' /\ revision' = revision /\ readable' = readable /\ revision >= 0
  BY DEF AuditInv, CorpusInv, corpusVars
<1>2. CASE Done
  BY <1>1, <1>2 DEF Done, NoReport, AuditInv
<1>3. CASE ~Done
  BY <1>1, <1>3 DEF AuditInv
<1> QED
  BY <1>2, <1>3

LEMMA StepOfReading ==
  ASSUME AuditInv, ReadBoundary \/ ReadRevisions \/ ReadEntities
  PROVE  AuditInv'
<1>0. /\ UNCHANGED corpusVars /\ CorpusInv' /\ revision' = revision /\ readable' = readable
      /\ revision \in Nat
  BY DEF AuditInv, CorpusInv, corpusVars, ReadBoundary, ReadRevisions, ReadEntities, Rest
<1>1. CASE ReadBoundary
  <2>1. CASE Done
    BY <1>0, <2>1, AuditGoes
  <2>2. CASE ~Done
    <3>1. PICK r : r = [NoReport EXCEPT !.release = release, !.revision = revision]
      OBVIOUS
    <3>2. report' = r /\ r.revision = revision /\ audit' = "revisions"
      BY <1>1, <2>2, <3>1 DEF ReadBoundary, NoReport
    <3> QED
      BY <1>0, <3>2 DEF AuditInv
  <2> QED
    BY <2>1, <2>2
<1>2. CASE ReadRevisions
  <2>1. PICK found : found = IF StillActive THEN Visible ELSE {}
    OBVIOUS
  <2>2. PICK r : r = [report EXCEPT !.rows = found]
    OBVIOUS
  <2>3. report' = r /\ audit' = "entities"
    BY <1>2, <2>1, <2>2 DEF ReadRevisions
  <2>4. found \subseteq readable
    BY <2>1 DEF Visible
  <2>5. r.revision = report.revision /\ r.rows \subseteq readable
    BY <2>2, <2>4
  <2> QED
    BY <1>0, <2>3, <2>5 DEF AuditInv
<1>3. CASE ReadEntities
  <2>1. PICK e : report' = [report EXCEPT !.entities = e]
    BY <1>3 DEF ReadEntities
  <2>2. audit = "entities" /\ audit' = "told"
    BY <1>3 DEF ReadEntities
  <2>3. report'.revision = report.revision /\ report'.rows = report.rows
    BY <2>1
  <2> QED
    BY <1>0, <2>2, <2>3 DEF AuditInv
<1> QED
  BY <1>1, <1>2, <1>3

LEMMA AuditStep == AuditInv /\ [AuditNext]_auditVars => AuditInv'
<1> SUFFICES ASSUME AuditInv, [AuditNext]_auditVars PROVE AuditInv'
  OBVIOUS
<1>1. CASE UNCHANGED auditVars
  BY <1>1, AuditGoes DEF auditVars
<1>2. ASSUME NEW what \in {"report", "record", "inventory"}, StartAudit(what) PROVE AuditInv'
  BY <1>2 DEF StartAudit, AuditInv, CorpusInv, corpusVars
<1>3. ASSUME NEW d \in Decisions, NEW run \in runs, Decide(d, run) PROVE AuditInv'
  BY <1>3, AuditGoes DEF Decide
<1>4. CASE \/ HandOut \/ RecordRun \/ BeginInventory \/ ReadManifest \/ ReadItems \/ ReadProperties
           \/ HandOutInventory
  BY <1>4, AuditGoes
  DEF HandOut, RecordRun, BeginInventory, ReadManifest, ReadItems, ReadProperties,
      HandOutInventory, Rest, Going
<1> QED
  BY <1>1, <1>2, <1>3, <1>4, GroundUnderAudit, StepOfReading DEF AuditNext, Auditor

\* Only a recording adds a run, and only the reading of the items makes a listing.
LEMMA WhatAuditsLeave ==
  ASSUME AuditNext
  PROVE  /\ (\E r \in runs' : r \notin runs) => RecordRun
         /\ audit = "items" /\ audit' = "properties" => ReadItems
  BY DEF AuditNext, Auditor, StartAudit, ReadBoundary, ReadRevisions, ReadEntities, HandOut,
         RecordRun, Decide, BeginInventory, ReadManifest, ReadItems, ReadProperties,
         HandOutInventory, Rest, Going, Done

(* What rests on an audit that passed holds when it is written down.       *)
THEOREM AuditsAreCurrent == AuditSpec => PassedStillHolds
<1>1. AuditInv /\ [AuditNext]_auditVars =>
        [/\ \A r \in runs' \ runs : Passed(r) =>
              release = r.release /\ Visible = SourcesOf[r.release]
         /\ (audit = "items" /\ audit' = "properties") =>
              /\ listing' = SourcesOf[report.release]
              /\ listing' # {} => release = report.release /\ listing' = Visible]_auditVars
  <2> SUFFICES ASSUME AuditInv, AuditNext
               PROVE  /\ \A r \in runs' \ runs : Passed(r) =>
                            release = r.release /\ Visible = SourcesOf[r.release]
                      /\ (audit = "items" /\ audit' = "properties") =>
                            /\ listing' = SourcesOf[report.release]
                            /\ listing' # {} => release = report.release /\ listing' = Visible
    OBVIOUS
  <2>1. ASSUME NEW r \in runs', r \notin runs, Passed(r)
        PROVE  release = r.release /\ Visible = SourcesOf[r.release]
    <3>1. RecordRun
      BY <2>1, WhatAuditsLeave
    <3>2. r = report /\ release = report.release /\ revision = report.revision /\ audit = "told"
      BY <2>1, <3>1 DEF RecordRun, Audited
    <3>3. report.rows \subseteq readable
      BY <3>2 DEF AuditInv
    <3> QED
      BY <2>1, <3>2, <3>3 DEF Passed, Visible
  <2>2. ASSUME audit = "items", audit' = "properties"
        PROVE  /\ listing' = SourcesOf[report.release]
               /\ listing' # {} => release = report.release /\ listing' = Visible
    <3>1. ReadItems
      BY <2>2, WhatAuditsLeave
    <3>2. PICK found : /\ found = IF StillActive THEN Visible ELSE {}
                       /\ Complete(found) /\ listing' = found
      BY <2>2, <3>1 DEF ReadItems, Done
    <3> QED
      BY <3>2 DEF StillActive, Complete
  <2> QED
    BY <2>1, <2>2
<1> QED
  BY <1>1, InitialAudit, AuditStep, PTL DEF AuditSpec, PassedStillHolds

-----------------------------------------------------------------------------
(* Entity resolution                                                       *)

Rules == {"key", "identity", "alias"}

\* What was counted, fetched and proposed as a link.
ProposalFounded ==
    /\ counted.rule \in Rules /\ (candidate.declared # {} => counted.rule # "alias")
    /\ suggestion.targets = {counted.entity} /\ suggestion.evidence # {}
    /\ \A m \in suggestion.evidence :
          /\ m \in Attested[counted.pin.release] /\ m.entity = counted.entity
          /\ counted.rule # "identity" => Matched(counted.rule, m)

OwnContradiction == \E name \in candidate.declared : Cardinality(OwnValues(name)) > 1

LinkInv ==
    /\ turn \in Rules \cup {"fetch", "names", "suggested", "write", "linked", "refused", "raised"}
    /\ turn \in {"alias", "names"} => candidate.declared = {}
    /\ turn = "fetch" => /\ counted.rule \in Rules
                         /\ candidate.declared # {} => counted.rule # "alias"
    /\ candidate.declared # {} => suggestion.kind # "REVIEW"
    /\ suggestion.kind = "AUTO_LINK" /\ turn \in {"suggested", "write", "linked"} => ProposalFounded
    /\ turn \in {"write", "linked"} /\ chosen.way = "suggested" =>
          chosen.entity \in suggestion.targets /\ Offered(suggestion.kind)
    /\ turn = "linked" =>
          chosen.entity = linked /\ (OwnContradiction => \A m \in Authority : m.entity # linked)

\* The key and the aliases of a mention do not change.
LEMMA MatchedByText ==
  ASSUME NEW m
  PROVE  /\ Matched("key", m) <=> KeyOf[m.entity] = candidate.key
         /\ Matched("alias", m) <=> m.aliases \cap candidate.names # {}
  BY DEF Matched

LEMMA StillMatched ==
  ASSUME NEW rule \in {"key", "alias"}, NEW m, Matched(rule, m), candidate' = candidate
  PROVE  Matched(rule, m)'
<1>1. CASE rule = "key"
  BY <1>1, MatchedByText DEF Matched
<1>2. CASE rule = "alias"
  BY <1>2, MatchedByText DEF Matched
<1> QED
  BY <1>1, <1>2

LEMMA ProposalStays ==
  ASSUME ProposalFounded, UNCHANGED <<candidate, counted, suggestion>>
  PROVE  ProposalFounded'
<1>1. ASSUME NEW m \in suggestion.evidence, counted.rule # "identity"
      PROVE  Matched(counted.rule, m)'
  <2>1. PICK rule : rule = counted.rule
    OBVIOUS
  <2>2. rule \in {"key", "alias"} /\ Matched(rule, m)
    BY <1>1, <2>1 DEF ProposalFounded, Rules
  <2>3. Matched(rule, m)'
    BY <2>2, StillMatched
  <2> QED
    BY <2>1, <2>3
<1> QED
  BY <1>1 DEF ProposalFounded

LEMMA InitialLink == ResolutionInit => LinkInv
  BY DEF ResolutionInit, ResolutionStart, LinkInv, Rules, NoSuggestion, NoChoice

\* A conclusion other than a link by itself.
LEMMA ConclusionStep ==
  ASSUME LinkInv, NEW kind \in {"CONFLICT", "NO_MATCH", "REVIEW"}, NEW targets, NEW evidence,
         Conclude(kind, targets, evidence), UNCHANGED <<candidate, chosen, linked>>,
         kind = "REVIEW" => candidate.declared = {}
  PROVE  LinkInv'
<1>1. /\ suggestion'.kind = kind /\ suggestion'.targets = targets
      /\ turn' \in {"suggested", "write", "refused"}
      /\ (turn' = "write" => Offered(kind) /\ chosen.entity \in targets)
  BY DEF Conclude
<1> QED
  BY <1>1 DEF LinkInv, Rules, Offered

LEMMA StepCount ==
  ASSUME LinkInv, NEW rule \in Rules, CountMatches(rule)
  PROVE  LinkInv'
<1>0. turn = rule /\ UNCHANGED <<candidate, chosen, linked>>
  BY DEF CountMatches
<1>1. PICK found : found = {m.entity : m \in {a \in Authority : Matched(rule, a)}}
  OBVIOUS
<1>2. \/ Conclude("CONFLICT", {}, {})
      \/ \E entity \in found :
            /\ counted' = [rule |-> rule, entity |-> entity, pin |-> Pin]
            /\ turn' = "fetch" /\ UNCHANGED suggestion
      \/ Otherwise(rule)
  BY <1>1 DEF CountMatches
<1>3. ASSUME NEW entity, counted' = [rule |-> rule, entity |-> entity, pin |-> Pin],
             turn' = "fetch", UNCHANGED suggestion
      PROVE  LinkInv'
  <2>1. counted'.rule = rule
    BY <1>3
  <2> QED
    BY <1>0, <1>3, <2>1 DEF LinkInv, Rules
<1>4. ASSUME NEW next \in Rules \cup {"names"}, Turn(next),
             next \in {"alias", "names"} => candidate.declared = {}
      PROVE  LinkInv'
  BY <1>0, <1>4 DEF Turn, LinkInv, Rules
<1>5. CASE Otherwise(rule)
  BY <1>0, <1>4, <1>5, ConclusionStep DEF Otherwise, LinkInv, Rules
<1> QED
  BY <1>0, <1>2, <1>3, <1>5, ConclusionStep

LEMMA StepFetch ==
  ASSUME LinkInv, FetchTarget
  PROVE  LinkInv'
<1>0. turn = "fetch" /\ UNCHANGED <<candidate, chosen, linked, counted>>
  BY DEF FetchTarget, Conclude
<1>1. PICK evidence :
        evidence = {m \in Authority : m.entity = counted.entity /\ Matched(counted.rule, m)}
  OBVIOUS
<1>2. CASE Pinned /\ evidence # {}
  <2>1. Conclude("AUTO_LINK", {counted.entity}, evidence)
    BY <1>1, <1>2 DEF FetchTarget
  <2>2. /\ suggestion'.kind = "AUTO_LINK" /\ suggestion'.targets = {counted.entity}
        /\ suggestion'.evidence = evidence /\ turn' \in {"suggested", "write", "refused"}
        /\ turn' = "write" => chosen.entity \in {counted.entity}
    BY <2>1 DEF Conclude
  <2>3. ASSUME NEW m \in evidence
        PROVE  /\ m \in Attested[counted.pin.release] /\ m.entity = counted.entity
               /\ Matched(counted.rule, m)
    BY <1>1, <1>2, <2>3 DEF Pinned, Authority
  <2>4. ASSUME NEW m \in evidence, counted.rule # "identity"
        PROVE  Matched(counted.rule, m)'
    <3>1. PICK rule : rule = counted.rule
      OBVIOUS
    <3>2. rule \in {"key", "alias"} /\ Matched(rule, m)
      BY <1>0, <2>3, <2>4, <3>1 DEF LinkInv, Rules
    <3>3. Matched(rule, m)'
      BY <1>0, <3>2, StillMatched
    <3> QED
      BY <1>0, <3>1, <3>3
  <2>5. ProposalFounded'
    BY <1>0, <1>2, <2>2, <2>3, <2>4 DEF ProposalFounded, LinkInv
  <2> QED
    BY <1>0, <2>2, <2>5 DEF LinkInv, Rules, Offered
<1>3. CASE ~(Pinned /\ evidence # {})
  <2>1. turn' = "raised" /\ UNCHANGED suggestion
    BY <1>1, <1>3 DEF FetchTarget
  <2> QED
    BY <1>0, <2>1 DEF LinkInv, Rules
<1> QED
  BY <1>2, <1>3

LEMMA StepCompare ==
  ASSUME LinkInv, CompareNames
  PROVE  LinkInv'
<1>1. candidate.declared = {} /\ UNCHANGED <<candidate, chosen, linked>>
  BY DEF LinkInv, CompareNames
<1>2. \E kind \in {"CONFLICT", "NO_MATCH", "REVIEW"} : \E targets, evidence :
         Conclude(kind, targets, evidence)
  BY DEF CompareNames
<1> QED
  BY <1>1, <1>2, ConclusionStep

LEMMA StepChoose ==
  ASSUME LinkInv,
         \/ \E entity \in Entities : ApplySuggestion(entity)
         \/ \E r \in Releases : \E m \in Attested[r] : SelectTarget(m)
  PROVE  LinkInv'
<1>1. ASSUME NEW entity, ApplySuggestion(entity) PROVE LinkInv'
  BY <1>1 DEF ApplySuggestion, LinkInv, Rules
<1>2. ASSUME NEW m, SelectTarget(m) PROVE LinkInv'
  <2>1. /\ turn = "suggested" /\ turn' = "write" /\ chosen'.way = "selected"
        /\ UNCHANGED <<candidate, counted, suggestion, linked>>
    BY <1>2 DEF SelectTarget
  <2>2. ProposalFounded => ProposalFounded'
    BY <2>1, ProposalStays
  <2> QED
    BY <2>1, <2>2 DEF LinkInv, Rules
<1> QED
  BY <1>1, <1>2

LEMMA StepWrite ==
  ASSUME LinkInv, WriteLink
  PROVE  LinkInv'
<1>1. /\ turn = "write" /\ UNCHANGED <<candidate, counted, suggestion, chosen, corpusVars>>
      /\ \/ Uncontradicted /\ turn' = "linked" /\ linked' = chosen.entity
         \/ turn' = "refused"
  BY DEF WriteLink
<1>2. ProposalFounded => ProposalFounded'
  BY <1>1, ProposalStays
<1>3. (OwnContradiction' <=> OwnContradiction) /\ Authority' = Authority
  BY <1>1 DEF OwnContradiction, OwnValues, Authority, Visible, corpusVars
<1>4. ASSUME Uncontradicted, OwnContradiction, NEW m \in Authority PROVE m.entity # chosen.entity
  BY <1>4 DEF Uncontradicted, OwnContradiction, Contradicts
<1> QED
  BY <1>1, <1>2, <1>3, <1>4 DEF LinkInv, Rules

LEMMA LinkRests ==
  ASSUME LinkInv, UNCHANGED resolutionVars, GroundMoves \/ UNCHANGED corpusVars
  PROVE  LinkInv'
<1>1. UNCHANGED <<candidate, turn, counted, suggestion, chosen, linked>>
  BY DEF resolutionVars
<1>2. ProposalFounded => ProposalFounded'
  BY <1>1, ProposalStays
<1>3. turn = "linked" => Authority' = Authority
  BY DEF GroundMoves, Authority, Visible, corpusVars
<1>4. OwnContradiction' <=> OwnContradiction
  BY <1>1 DEF OwnContradiction, OwnValues
<1> QED
  BY <1>1, <1>2, <1>3, <1>4 DEF LinkInv

LEMMA LinkStep == LinkInv /\ [ResolutionNext]_<<corpusVars, resolutionVars>> => LinkInv'
<1> SUFFICES ASSUME LinkInv, [ResolutionNext]_<<corpusVars, resolutionVars>> PROVE LinkInv'
  OBVIOUS
<1>1. CASE GroundMoves \/ UNCHANGED <<corpusVars, resolutionVars>>
  BY <1>1, LinkRests DEF GroundMoves
<1> QED
  BY <1>1, StepCount, StepFetch, StepCompare, StepChoose, StepWrite DEF ResolutionNext, Rules

(* A link is founded, for any entities, mentions and candidates.           *)
THEOREM LinksAreFounded == ResolutionSpec => []LinkIsFounded
<1>1. LinkInv => LinkIsFounded
  <2> SUFFICES ASSUME LinkInv PROVE LinkIsFounded
    OBVIOUS
  <2>1. ASSUME suggestion.kind = "AUTO_LINK", turn \in {"suggested", "write", "linked"}
        PROVE  ProposalFounded
    BY <2>1 DEF LinkInv
  <2>2. ASSUME turn = "linked"
        PROVE  /\ chosen.entity = linked
               /\ chosen.way = "suggested" =>
                     linked \in suggestion.targets /\ Offered(suggestion.kind)
               /\ chosen.way = "suggested" /\ candidate.declared # {} =>
                     suggestion.kind = "AUTO_LINK"
               /\ OwnContradiction => \A m \in Authority : m.entity # linked
    BY <2>2 DEF LinkInv, Offered
  <2> QED
    BY <2>1, <2>2 DEF LinkIsFounded, ProposalFounded, OwnContradiction
<1> QED
  BY <1>1, InitialLink, LinkStep, PTL DEF ResolutionSpec

-----------------------------------------------------------------------------
(* The operation runner                                                    *)

USE RunnerAssumption

LEMMA FutureParts ==
  /\ \A f \in Futures : /\ f[1] \in Calls /\ f[2] \in 1..MaxAttempts
                        /\ f = <<f[1], f[2]>>
  /\ \A c \in Calls, n \in 1..MaxAttempts :
        <<c, n>> \in Futures /\ <<c, n>>[1] = c /\ <<c, n>>[2] = n
  BY DEF Futures

LEMMA HoldersFinite == IsFiniteSet(Holders) /\ Cardinality(Holders) \in Nat
<1>1. IsFiniteSet(1..MaxAttempts)
  BY FS_Interval
<1>2. IsFiniteSet(Futures)
  BY <1>1, FS_Product DEF Futures
<1>3. Holders \in SUBSET Futures
  BY DEF Holders
<1> QED
  BY <1>2, <1>3, FS_Subset, FS_CardinalityType

\* The permits after a step that changes at most one holder.
LEMMA PermitsKept ==
  ASSUME RunnerInv, Holders' = Holders, permits' = permits
  PROVE  CapacityAccounted' /\ permits' \in 0..Capacity
  BY DEF RunnerInv, RunnerTypeOK, CapacityAccounted, Capacity

LEMMA PermitTaken ==
  ASSUME RunnerInv, NEW f, f \notin Holders, Holders' = Holders \cup {f},
         permits > 0, permits' = permits - 1
  PROVE  CapacityAccounted' /\ permits' \in 0..Capacity
<1>1. Cardinality(Holders \cup {f}) = Cardinality(Holders) + 1
  BY HoldersFinite, FS_AddElement
<1> QED
  BY <1>1, HoldersFinite DEF RunnerInv, RunnerTypeOK, CapacityAccounted, Capacity

LEMMA PermitReturned ==
  ASSUME RunnerInv, NEW f, f \in Holders, Holders' = Holders \ {f}, permits' = permits + 1
  PROVE  CapacityAccounted' /\ permits' \in 0..Capacity
<1>1. Cardinality(Holders \ {f}) = Cardinality(Holders) - 1
  BY HoldersFinite, FS_RemoveElement
<1>2. Cardinality(Holders \ {f}) \in Nat
  BY HoldersFinite, FS_RemoveElement, FS_CardinalityType
<1> QED
  BY <1>1, <1>2, HoldersFinite DEF RunnerInv, RunnerTypeOK, CapacityAccounted, Capacity

\* Facts about the current attempt of a call that has begun.
LEMMA CurrentAttempt ==
  ASSUME RunnerInv, NEW c \in Calls, attempt[c] > 0
  PROVE  /\ Current(c) \in Futures /\ Current(c)[1] = c /\ Current(c)[2] = attempt[c]
         /\ \A f \in Futures : f[1] = c /\ f[2] = attempt[c] => f = Current(c)
  BY FutureParts DEF RunnerInv, RunnerTypeOK, Current

-----------------------------------------------------------------------------

LEMMA InitialRunner == RunnerInit => RunnerInv
<1> SUFFICES ASSUME RunnerInit PROVE RunnerInv
  OBVIOUS
<1>1. Holders = {}
  BY FutureParts DEF RunnerInit, Holders, Holds, Live
<1>2. CapacityAccounted
  BY <1>1, FS_EmptySet DEF RunnerInit, CapacityAccounted, Capacity
<1>3. RunnerTypeOK
  <2>1. permits \in 0..Capacity
    BY DEF RunnerInit, Capacity
  <2>2. /\ pc \in [Calls -> Places] /\ outcome \in [Calls -> Told]
        /\ attempt \in [Calls -> 0..MaxAttempts]
    BY DEF RunnerInit, Places, Told
  <2>3. future \in [Futures -> FutureStates] /\ queue \in Seq(Futures)
    BY DEF RunnerInit, FutureStates
  <2> QED
    BY <2>1, <2>2, <2>3 DEF RunnerInit, RunnerTypeOK
<1>4. CallsFollow /\ PoolFollows
  BY FutureParts
  DEF RunnerInit, CallsFollow, CallFollows, AttemptFollows, PoolFollows, JoinedIsQuiet, Attempts
<1> QED
  BY <1>2, <1>3, <1>4 DEF RunnerInv

-----------------------------------------------------------------------------

\* Where the two ways of moving a call on lead.
LEMMA GotoMoves ==
  ASSUME RunnerInv, NEW c \in Calls, NEW label \in Places, Goto(c, label)
  PROVE  /\ pc' \in [Calls -> Places] /\ outcome' \in [Calls -> Told]
         /\ pc'[c] = label /\ outcome'[c] = outcome[c]
         /\ \A d \in Calls : d # c => pc'[d] = pc[d] /\ outcome'[d] = outcome[d]
  BY DEF RunnerInv, RunnerTypeOK, Goto

LEMMA AnswerMoves ==
  ASSUME RunnerInv, NEW c \in Calls, NEW said \in Told, Answer(c, said)
  PROVE  /\ pc' \in [Calls -> Places] /\ outcome' \in [Calls -> Told]
         /\ pc'[c] = "answered" /\ outcome'[c] = said
         /\ \A d \in Calls : d # c => pc'[d] = pc[d] /\ outcome'[d] = outcome[d]
<1>1. "answered" \in Places
  BY DEF Places
<1> QED
  BY <1>1 DEF RunnerInv, RunnerTypeOK, Answer

LEMMA Labels ==
  /\ {"ready", "acquired", "checked", "waiting", "backoff"} \subseteq Places
  /\ {"result", "error", "unavailable", "timeout", "overloaded",
      "closed", "internal", "disconnected"} \subseteq Told
  BY DEF Places, Told

\* It is enough to look at the call that moved.
LEMMA OthersFollow ==
  ASSUME RunnerInv, NEW c \in Calls, CallFollows(c)',
         \A d \in Calls : d # c => /\ pc'[d] = pc[d] /\ attempt'[d] = attempt[d]
                                  /\ outcome'[d] = outcome[d],
         \A f \in Futures : f[1] # c => future'[f] = future[f],
         \A f \in Futures : f[1] = c => AttemptFollows(f)'
  PROVE  CallsFollow'
<1>1. ASSUME NEW d \in Calls PROVE CallFollows(d)'
  <2>1. CASE d = c
    BY <2>1
  <2>2. CASE d # c
    BY <2>2 DEF RunnerInv, CallsFollow, CallFollows, Attempts
  <2> QED
    BY <2>1, <2>2
<1>2. ASSUME NEW f \in Futures PROVE AttemptFollows(f)'
  <2>1. CASE f[1] = c
    BY <2>1
  <2>2. CASE f[1] # c
    BY <2>2, FutureParts DEF RunnerInv, CallsFollow, AttemptFollows
  <2> QED
    BY <2>1, <2>2
<1> QED
  BY <1>1, <1>2 DEF CallsFollow

\* A step of a call that leaves the futures and the executor alone.
LEMMA LoopKeepsPool ==
  ASSUME RunnerInv, UNCHANGED <<future, queue, executor>>
  PROVE  PoolFollows'
  BY DEF RunnerInv, PoolFollows, JoinedIsQuiet, Live

\* ... and the permits: c neither gains nor loses one.
LEMMA LoopKeepsHolders ==
  ASSUME RunnerInv, NEW c \in Calls, UNCHANGED <<future, permits>>,
         \A d \in Calls : d # c => pc'[d] = pc[d] /\ attempt'[d] = attempt[d],
         pc[c] \notin {"acquired", "checked"}, pc'[c] \notin {"acquired", "checked"}
  PROVE  CapacityAccounted' /\ permits' \in 0..Capacity
<1>1. Holders' = Holders
  BY FutureParts DEF Holders, Holds, Live, Current
<1> QED
  BY <1>1, PermitsKept

\* A step of a call that leaves the futures and the executor alone.
LEMMA CallStep ==
  ASSUME RunnerInv, NEW c \in Calls, UNCHANGED <<future, queue, closed, executor>>,
         pc' \in [Calls -> Places], outcome' \in [Calls -> Told],
         attempt' \in [Calls -> 0..MaxAttempts],
         \A d \in Calls : d # c => /\ pc'[d] = pc[d] /\ attempt'[d] = attempt[d]
                                  /\ outcome'[d] = outcome[d],
         CallFollows(c)', \A f \in Futures : f[1] = c => AttemptFollows(f)',
         CapacityAccounted', permits' \in 0..Capacity
  PROVE  RunnerInv'
<1>1. RunnerTypeOK'
  BY DEF RunnerInv, RunnerTypeOK
<1>2. CallsFollow'
  BY OthersFollow
<1> QED
  BY <1>1, <1>2, LoopKeepsPool DEF RunnerInv

\* An answer that touches no permit and no future.
LEMMA AnswerStep ==
  ASSUME RunnerInv, NEW c \in Calls, NEW said \in Told, Answer(c, said),
         UNCHANGED <<permits, attempt, future, queue, closed, executor>>,
         pc[c] \in {"idle", "ready", "waiting", "backoff"},
         \A f \in Futures : f[1] = c /\ f[2] = attempt[c] =>
            /\ said \in {"overloaded", "closed", "internal"} => future[f] = "none"
            /\ said = "timeout" => future[f] # "queued"
  PROVE  RunnerInv'
<1>1. CallFollows(c)'
  BY AnswerMoves DEF RunnerInv, RunnerTypeOK, CallsFollow, CallFollows, Attempts
<1>2. ASSUME NEW f \in Futures, f[1] = c PROVE AttemptFollows(f)'
  BY <1>2, AnswerMoves, FutureParts
  DEF RunnerInv, RunnerTypeOK, CallsFollow, CallFollows, AttemptFollows
<1>3. CapacityAccounted' /\ permits' \in 0..Capacity
  BY AnswerMoves, LoopKeepsHolders
<1> QED
  BY <1>1, <1>2, <1>3, AnswerMoves, CallStep DEF RunnerInv, RunnerTypeOK

LEMMA StepBegin ==
  ASSUME RunnerInv, NEW c \in Calls, Begin(c)
  PROVE  RunnerInv'
<1>0. pc[c] = "idle" /\ UNCHANGED <<permits, future, queue, closed, executor>>
  BY DEF Begin, poolVars, closeVars
<1>1. CASE closed
  <2>1. Answer(c, "closed") /\ attempt' = attempt
    BY <1>1 DEF Begin
  <2>2. \A f \in Futures : f[1] = c => future[f] = "none"
    BY <1>0, FutureParts
    DEF RunnerInv, RunnerTypeOK, CallsFollow, CallFollows, AttemptFollows
  <2> QED
    BY <1>0, <2>1, <2>2, Labels, AnswerStep
<1>2. CASE ~closed
  <2>1. Goto(c, "ready") /\ attempt' = [attempt EXCEPT ![c] = 1]
    BY <1>2 DEF Begin
  <2>2. /\ attempt' \in [Calls -> 0..MaxAttempts] /\ attempt'[c] = 1
        /\ \A d \in Calls : d # c => attempt'[d] = attempt[d]
    BY <2>1 DEF RunnerInv, RunnerTypeOK
  <2>3. CallFollows(c)'
    BY <1>0, <2>1, <2>2, GotoMoves, Labels
    DEF RunnerInv, RunnerTypeOK, CallsFollow, CallFollows, Attempts
  <2>4. ASSUME NEW f \in Futures, f[1] = c PROVE AttemptFollows(f)'
    BY <1>0, <2>1, <2>2, <2>4, GotoMoves, Labels, FutureParts
    DEF RunnerInv, RunnerTypeOK, CallsFollow, CallFollows, AttemptFollows
  <2>5. CapacityAccounted' /\ permits' \in 0..Capacity
    BY <1>0, <2>1, <2>2, GotoMoves, Labels, LoopKeepsHolders
  <2> QED
    BY <1>0, <2>1, <2>2, <2>3, <2>4, <2>5, GotoMoves, Labels, CallStep
<1> QED
  BY <1>1, <1>2

\* A call whose attempt has not been submitted.
LEMMA Unsubmitted ==
  ASSUME RunnerInv, NEW c \in Calls, pc[c] \in {"ready", "acquired", "checked"}
  PROVE  /\ attempt[c] \in 1..MaxAttempts
         /\ Current(c) \in Futures /\ Current(c)[1] = c /\ Current(c)[2] = attempt[c]
         /\ \A f \in Futures : f[1] = c /\ f[2] = attempt[c] =>
               f = Current(c) /\ future[f] = "none"
<1>1. attempt[c] > 0
  BY DEF RunnerInv, CallsFollow, CallFollows
<1>2. attempt[c] \in 1..MaxAttempts
  BY <1>1 DEF RunnerInv, RunnerTypeOK
<1> QED
  BY <1>1, <1>2, CurrentAttempt DEF RunnerInv, CallsFollow, AttemptFollows

LEMMA StepExpire ==
  ASSUME RunnerInv, NEW c \in Calls, Expire(c)
  PROVE  RunnerInv'
  BY Labels, Unsubmitted, AnswerStep DEF Expire, poolVars, closeVars

LEMMA StepAcquire ==
  ASSUME RunnerInv, NEW c \in Calls, Acquire(c)
  PROVE  RunnerInv'
<1>0. pc[c] = "ready" /\ UNCHANGED <<attempt, future, queue, closed, executor>>
  BY DEF Acquire, poolVars, closeVars
<1>1. ASSUME NEW said \in {"closed", "overloaded"}, Answer(c, said), UNCHANGED permits
      PROVE  RunnerInv'
  BY <1>0, <1>1, Labels, Unsubmitted, AnswerStep
<1>2. ASSUME permits > 0, Goto(c, "acquired"), permits' = permits - 1
      PROVE  RunnerInv'
  <2>1. CallFollows(c)'
    BY <1>0, <1>2, GotoMoves, Labels
    DEF RunnerInv, RunnerTypeOK, CallsFollow, CallFollows, Attempts
  <2>2. ASSUME NEW f \in Futures, f[1] = c PROVE AttemptFollows(f)'
    BY <1>0, <1>2, <2>2, GotoMoves, Labels, FutureParts
    DEF RunnerInv, RunnerTypeOK, CallsFollow, CallFollows, AttemptFollows
  <2>3. Current(c) \notin Holders
    BY <1>0, Unsubmitted DEF Holders, Holds, Live
  <2>4. Holders' = Holders \cup {Current(c)}
    BY <1>0, <1>2, GotoMoves, Labels, Unsubmitted, FutureParts
    DEF Holders, Holds, Live, Current
  <2>5. CapacityAccounted' /\ permits' \in 0..Capacity
    BY <1>2, <2>3, <2>4, PermitTaken
  <2> QED
    BY <1>0, <1>2, <2>1, <2>2, <2>5, GotoMoves, Labels, CallStep
    DEF RunnerInv, RunnerTypeOK
<1> QED
  BY <1>1, <1>2 DEF Acquire

\* A refusal that returns the permit of a call that has submitted nothing.
LEMMA RefusalStep ==
  ASSUME RunnerInv, NEW c \in Calls, NEW said \in {"closed", "internal"}, Answer(c, said),
         pc[c] \in {"acquired", "checked"}, permits' = permits + 1,
         UNCHANGED <<attempt, future, queue, closed, executor>>
  PROVE  RunnerInv'
<1>1. said \in Told
  BY Labels
<1>2. CallFollows(c)'
  BY <1>1, AnswerMoves DEF RunnerInv, RunnerTypeOK, CallsFollow, CallFollows, Attempts
<1>3. ASSUME NEW f \in Futures, f[1] = c PROVE AttemptFollows(f)'
  BY <1>1, <1>3, AnswerMoves, Unsubmitted, FutureParts
  DEF RunnerInv, RunnerTypeOK, CallsFollow, CallFollows, AttemptFollows
<1>4. Current(c) \in Holders
  BY Unsubmitted DEF Holders, Holds, Current
<1>5. Holders' = Holders \ {Current(c)}
  BY <1>1, AnswerMoves, Unsubmitted, FutureParts DEF Holders, Holds, Live, Current
<1>6. CapacityAccounted' /\ permits' \in 0..Capacity
  BY <1>4, <1>5, PermitReturned
<1> QED
  BY <1>1, <1>2, <1>3, <1>6, AnswerMoves, CallStep DEF RunnerInv, RunnerTypeOK

LEMMA StepCheck ==
  ASSUME RunnerInv, NEW c \in Calls, Check(c)
  PROVE  RunnerInv'
<1>0. pc[c] = "acquired" /\ UNCHANGED <<attempt, future, queue, closed, executor>>
  BY DEF Check, poolVars, closeVars
<1>1. CASE closed
  BY <1>0, <1>1, RefusalStep DEF Check
<1>2. CASE ~closed
  <2>0. Goto(c, "checked") /\ permits' = permits
    BY <1>2 DEF Check
  <2>1. CallFollows(c)'
    BY <1>0, <2>0, GotoMoves, Labels
    DEF RunnerInv, RunnerTypeOK, CallsFollow, CallFollows, Attempts
  <2>2. ASSUME NEW f \in Futures, f[1] = c PROVE AttemptFollows(f)'
    BY <1>0, <2>0, <2>2, GotoMoves, Labels, FutureParts
    DEF RunnerInv, RunnerTypeOK, CallsFollow, CallFollows, AttemptFollows
  <2>3. Holders' = Holders
    BY <1>0, <2>0, GotoMoves, Labels, FutureParts DEF Holders, Holds, Live, Current
  <2>4. CapacityAccounted' /\ permits' \in 0..Capacity
    BY <2>0, <2>3, PermitsKept
  <2> QED
    BY <1>0, <2>0, <2>1, <2>2, <2>4, GotoMoves, Labels, CallStep
    DEF RunnerInv, RunnerTypeOK
<1> QED
  BY <1>1, <1>2

LEMMA StepSubmit ==
  ASSUME RunnerInv, NEW c \in Calls, Submit(c)
  PROVE  RunnerInv'
<1>0. pc[c] = "checked" /\ UNCHANGED <<attempt, closed, executor>>
  BY DEF Submit, closeVars
<1>1. CASE executor # "open"
  BY <1>0, <1>1, RefusalStep DEF Submit, poolVars
<1>2. CASE executor = "open"
  <2>g. PICK g \in Futures : g = Current(c)
    BY <1>0, Unsubmitted
  <2>0. /\ Goto(c, "waiting") /\ permits' = permits
        /\ future' = [future EXCEPT ![g] = "queued"] /\ queue' = Append(queue, g)
    BY <1>2, <2>g DEF Submit
  <2>1. g[1] = c /\ g[2] = attempt[c] /\ attempt[c] \in 1..MaxAttempts
    BY <1>0, <2>g, Unsubmitted
  <2>2. /\ future' \in [Futures -> FutureStates] /\ future'[g] = "queued"
        /\ \A f \in Futures : f # g => future'[f] = future[f]
    BY <2>0, <2>1 DEF RunnerInv, RunnerTypeOK, FutureStates
  <2>3. /\ queue' \in Seq(Futures) /\ queue'[Len(queue) + 1] = g
        /\ Len(queue) + 1 \in DOMAIN queue'
        /\ \A i \in DOMAIN queue : i \in DOMAIN queue' /\ queue'[i] = queue[i]
    BY <2>0, <2>1 DEF RunnerInv, RunnerTypeOK
  <2>4. CallFollows(c)'
    BY <1>0, <2>0, GotoMoves, Labels
    DEF RunnerInv, RunnerTypeOK, CallsFollow, CallFollows, Attempts
  <2>5. ASSUME NEW f \in Futures, f[1] = c PROVE AttemptFollows(f)'
    <3>1. f[2] # attempt[c] => f # g
      BY <2>1
    <3>2. f[2] = attempt[c] => f = g
      BY <1>0, <2>g, <2>5, Unsubmitted
    <3>3. AttemptFollows(f)
      BY DEF RunnerInv, CallsFollow
    <3>4. outcome[c] = "none"
      BY <1>0 DEF RunnerInv, CallsFollow, CallFollows
    <3> QED
      BY <1>0, <2>0, <2>2, <2>5, <3>1, <3>2, <3>3, <3>4, GotoMoves, Labels
      DEF AttemptFollows
  <2>6. CallsFollow'
    <3>1. \A f \in Futures : f[1] # c => future'[f] = future[f]
      BY <2>1, <2>2
    <3> QED
      BY <1>0, <2>0, <2>4, <2>5, <3>1, GotoMoves, Labels, OthersFollow
  <2>7. PoolFollows'
    BY <1>0, <1>2, <2>2, <2>3 DEF RunnerInv, PoolFollows, JoinedIsQuiet
  <2>8. Holders' = Holders
    <3>1. \A f \in Futures : f # g => (Holds(f)' <=> Holds(f))
      <4> TAKE f \in Futures
      <4> HAVE f # g
      <4>1. CASE f[1] = c
        <5>1. f[2] # attempt[c]
          BY <1>0, <2>g, <4>1, Unsubmitted
        <5> QED
          BY <1>0, <2>2, <4>1, <5>1 DEF Holds, Live
      <4>2. CASE f[1] # c
        BY <1>0, <2>0, <2>2, <4>2, GotoMoves, Labels, FutureParts DEF Holds, Live
      <4> QED
        BY <4>1, <4>2
    <3>2. Holds(g) /\ Holds(g)'
      BY <1>0, <2>1, <2>2 DEF Holds, Live
    <3> QED
      BY <3>1, <3>2 DEF Holders, Holds, Live
  <2>9. CapacityAccounted' /\ permits' \in 0..Capacity
    BY <2>0, <2>8, PermitsKept
  <2>10. RunnerTypeOK'
    BY <1>0, <2>0, <2>2, <2>3, <2>9, GotoMoves, Labels DEF RunnerInv, RunnerTypeOK
  <2> QED
    BY <2>6, <2>7, <2>9, <2>10 DEF RunnerInv
<1> QED
  BY <1>1, <1>2

\* A call that waits for the future of its attempt.
LEMMA Submitted ==
  ASSUME RunnerInv, NEW c \in Calls, pc[c] \in {"waiting", "backoff"}
  PROVE  /\ attempt[c] \in 1..MaxAttempts
         /\ Current(c) \in Futures /\ Current(c)[1] = c /\ Current(c)[2] = attempt[c]
         /\ \A f \in Futures : f[1] = c /\ f[2] = attempt[c] => f = Current(c)
<1>1. attempt[c] > 0
  BY DEF RunnerInv, CallsFollow, CallFollows
<1>2. attempt[c] \in 1..MaxAttempts
  BY <1>1 DEF RunnerInv, RunnerTypeOK
<1> QED
  BY <1>1, <1>2, CurrentAttempt

LEMMA StepDeliver ==
  ASSUME RunnerInv, NEW c \in Calls, Deliver(c)
  PROVE  RunnerInv'
<1>0. /\ pc[c] = "waiting"
      /\ UNCHANGED <<permits, attempt, future, queue, closed, executor>>
  BY DEF Deliver, poolVars, closeVars
<1>1. ASSUME NEW said \in {"result", "error", "unavailable"}, Answer(c, said)
      PROVE  RunnerInv'
  BY <1>0, <1>1, Labels, AnswerStep
<1>2. ASSUME future[Current(c)] = "retryable", Answer(c, "timeout")
      PROVE  RunnerInv'
  BY <1>0, <1>2, Labels, Submitted, AnswerStep
<1>3. ASSUME future[Current(c)] = "retryable", attempt[c] < Attempts(c), Goto(c, "backoff")
      PROVE  RunnerInv'
  <2>1. CallFollows(c)'
    BY <1>0, <1>3, GotoMoves, Labels
    DEF RunnerInv, RunnerTypeOK, CallsFollow, CallFollows, Attempts
  <2>2. ASSUME NEW f \in Futures, f[1] = c PROVE AttemptFollows(f)'
    BY <1>0, <1>3, <2>2, GotoMoves, Labels, Submitted
    DEF RunnerInv, RunnerTypeOK, CallsFollow, CallFollows, AttemptFollows
  <2>3. CapacityAccounted' /\ permits' \in 0..Capacity
    BY <1>0, <1>3, GotoMoves, Labels, LoopKeepsHolders
  <2> QED
    BY <1>0, <1>3, <2>1, <2>2, <2>3, GotoMoves, Labels, CallStep
    DEF RunnerInv, RunnerTypeOK
<1>4. attempt[c] >= Attempts(c) \/ attempt[c] < Attempts(c)
  BY DEF RunnerInv, RunnerTypeOK, Attempts
<1> QED
  BY <1>1, <1>2, <1>3, <1>4 DEF Deliver

LEMMA StepResume ==
  ASSUME RunnerInv, NEW c \in Calls, Resume(c)
  PROVE  RunnerInv'
<1>0. /\ pc[c] = "backoff" /\ Goto(c, "ready")
      /\ attempt' = [attempt EXCEPT ![c] = attempt[c] + 1]
      /\ UNCHANGED <<permits, future, queue, closed, executor>>
  BY DEF Resume, poolVars, closeVars
<1>1. attempt[c] < Attempts(c)
  BY <1>0 DEF RunnerInv, CallsFollow, CallFollows
<1>2. /\ attempt' \in [Calls -> 0..MaxAttempts] /\ attempt'[c] = attempt[c] + 1
      /\ \A d \in Calls : d # c => attempt'[d] = attempt[d]
  BY <1>0, <1>1 DEF RunnerInv, RunnerTypeOK, Attempts
<1>3. CallFollows(c)'
  BY <1>0, <1>1, <1>2, GotoMoves, Labels
  DEF RunnerInv, RunnerTypeOK, CallsFollow, CallFollows, Attempts
<1>4. ASSUME NEW f \in Futures, f[1] = c PROVE AttemptFollows(f)'
  BY <1>0, <1>2, <1>4, GotoMoves, Labels, Submitted, FutureParts
  DEF RunnerInv, RunnerTypeOK, CallsFollow, CallFollows, AttemptFollows
<1>5. CapacityAccounted' /\ permits' \in 0..Capacity
  BY <1>0, <1>2, GotoMoves, Labels, LoopKeepsHolders
<1> QED
  BY <1>0, <1>2, <1>3, <1>4, <1>5, GotoMoves, Labels, CallStep

LEMMA StepTimeout ==
  ASSUME RunnerInv, NEW c \in Calls, Timeout(c)
  PROVE  RunnerInv'
<1>0. /\ pc[c] = "waiting" /\ Answer(c, "timeout")
      /\ UNCHANGED <<attempt, queue, closed, executor>>
  BY DEF Timeout, closeVars
<1>g. PICK g \in Futures : g = Current(c)
  BY <1>0, Submitted
<1>1. g[1] = c /\ g[2] = attempt[c] /\ attempt[c] \in 1..MaxAttempts
  BY <1>0, <1>g, Submitted
<1>2. CASE future[g] # "queued"
  <2>1. UNCHANGED <<future, permits>>
    BY <1>2, <1>g DEF Timeout, CancelUnstarted
  <2> QED
    BY <1>0, <1>2, <1>g, <2>1, Labels, Submitted, AnswerStep
<1>3. CASE future[g] = "queued"
  <2>0. future' = [future EXCEPT ![g] = "cancelled"] /\ permits' = permits + 1
    BY <1>3, <1>g DEF Timeout, CancelUnstarted
  <2>1. \A f \in Futures : f[1] = c /\ f[2] = attempt[c] => f = g
    BY <1>0, <1>g, Submitted
  <2>2. /\ future' \in [Futures -> FutureStates] /\ future'[g] = "cancelled"
        /\ \A f \in Futures : f # g => future'[f] = future[f]
    BY <1>1, <2>0 DEF RunnerInv, RunnerTypeOK, FutureStates
  <2>3. CallFollows(c)'
    BY <1>0, AnswerMoves, Labels
    DEF RunnerInv, RunnerTypeOK, CallsFollow, CallFollows, Attempts
  <2>4. ASSUME NEW f \in Futures, f[1] = c PROVE AttemptFollows(f)'
    <3>1. AttemptFollows(f) /\ (f[2] # attempt[c] => f # g)
      BY <1>1 DEF RunnerInv, CallsFollow
    <3> QED
      BY <1>0, <2>1, <2>2, <2>4, <3>1, AnswerMoves, Labels DEF AttemptFollows
  <2>5. CallsFollow'
    <3>1. \A f \in Futures : f[1] # c => future'[f] = future[f]
      BY <1>1, <2>2
    <3> QED
      BY <1>0, <2>3, <2>4, <3>1, AnswerMoves, Labels, OthersFollow
  <2>6. PoolFollows'
    BY <1>0, <2>2 DEF RunnerInv, PoolFollows, JoinedIsQuiet, Live
  <2>7. g \in Holders
    BY <1>1, <1>3 DEF Holders, Holds, Live
  <2>8. Holders' = Holders \ {g}
    <3>1. \A f \in Futures : f # g => (Holds(f)' <=> Holds(f))
      <4> TAKE f \in Futures
      <4> HAVE f # g
      <4>1. CASE f[1] = c
        BY <1>0, <2>1, <2>2, <4>1 DEF Holds, Live
      <4>2. CASE f[1] # c
        BY <1>0, <2>2, <4>2, AnswerMoves, Labels, FutureParts DEF Holds, Live
      <4> QED
        BY <4>1, <4>2
    <3>2. ~Holds(g)'
      BY <1>0, <1>1, <2>2, AnswerMoves, Labels DEF Holds, Live
    <3> QED
      BY <3>1, <3>2 DEF Holders, Holds, Live
  <2>9. CapacityAccounted' /\ permits' \in 0..Capacity
    BY <2>0, <2>7, <2>8, PermitReturned
  <2>10. RunnerTypeOK'
    BY <1>0, <2>2, <2>9, AnswerMoves, Labels DEF RunnerInv, RunnerTypeOK
  <2> QED
    BY <2>5, <2>6, <2>9, <2>10 DEF RunnerInv
<1> QED
  BY <1>2, <1>3

LEMMA StepDisconnect ==
  ASSUME RunnerInv, NEW c \in Calls, Disconnect(c)
  PROVE  RunnerInv'
  BY Labels, AnswerStep DEF Disconnect, poolVars, closeVars

-----------------------------------------------------------------------------

\* One live future moves on; its call does not.
LEMMA WorkerStep ==
  ASSUME RunnerInv, NEW g \in Futures, Live(g),
         NEW x \in {"running"} \cup Finished,
         future' = [future EXCEPT ![g] = x], UNCHANGED <<pc, attempt, outcome>>
  PROVE  /\ CallsFollow'
         /\ future' \in [Futures -> FutureStates] /\ future'[g] = x
         /\ \A f \in Futures : f # g => future'[f] = future[f]
<1>1. /\ future' \in [Futures -> FutureStates] /\ future'[g] = x
      /\ \A f \in Futures : f # g => future'[f] = future[f]
  BY DEF RunnerInv, RunnerTypeOK, FutureStates
<1>2. ASSUME NEW c \in Calls PROVE CallFollows(c)'
  BY DEF RunnerInv, CallsFollow, CallFollows, Attempts
<1>3. ASSUME NEW f \in Futures PROVE AttemptFollows(f)'
  <2>1. CASE f = g
    BY <1>1, <2>1, FutureParts
    DEF RunnerInv, RunnerTypeOK, CallsFollow, AttemptFollows, Live, Finished
  <2>2. CASE f # g
    BY <1>1, <2>2 DEF RunnerInv, CallsFollow, AttemptFollows
  <2> QED
    BY <2>1, <2>2
<1> QED
  BY <1>1, <1>2, <1>3 DEF CallsFollow

LEMMA StepStart ==
  ASSUME RunnerInv, Start
  PROVE  RunnerInv'
<1>0. /\ queue # <<>> /\ queue' = Tail(queue)
      /\ UNCHANGED <<permits, pc, attempt, outcome, closed, executor>>
  BY DEF Start, callVars, closeVars
<1>g. PICK g \in Futures : g = Head(queue)
  BY <1>0 DEF RunnerInv, RunnerTypeOK
<1>1. /\ queue' \in Seq(Futures) /\ queue[1] = g
      /\ \A i \in DOMAIN queue : i # 1 => i - 1 \in DOMAIN queue' /\ queue'[i - 1] = queue[i]
  BY <1>0, <1>g DEF RunnerInv, RunnerTypeOK
<1>2. CASE future[g] = "queued"
  <2>1. future' = [future EXCEPT ![g] = "running"]
    BY <1>2, <1>g DEF Start
  <2>2. /\ CallsFollow'
        /\ future' \in [Futures -> FutureStates] /\ future'[g] = "running"
        /\ \A f \in Futures : f # g => future'[f] = future[f]
    BY <1>0, <1>2, <2>1, WorkerStep DEF Live
  <2>3. Holders' = Holders
    BY <1>0, <1>2, <2>2 DEF Holders, Holds, Live
  <2>4. CapacityAccounted' /\ permits' \in 0..Capacity
    BY <1>0, <2>3, PermitsKept
  <2>5. PoolFollows'
    <3>1. ASSUME NEW f \in Futures, future'[f] = "queued"
          PROVE  \E i \in DOMAIN queue' : queue'[i] = f
      <4>1. f # g /\ future[f] = "queued"
        BY <2>2, <3>1
      <4>2. PICK i \in DOMAIN queue : queue[i] = f
        BY <4>1 DEF RunnerInv, PoolFollows
      <4> QED
        BY <1>1, <4>1, <4>2
    <3>2. executor # "joined"
      BY <1>2 DEF RunnerInv, PoolFollows, JoinedIsQuiet, Live
    <3> QED
      BY <1>0, <3>1, <3>2 DEF PoolFollows, JoinedIsQuiet
  <2>6. RunnerTypeOK'
    BY <1>0, <1>1, <2>2, <2>4 DEF RunnerInv, RunnerTypeOK
  <2> QED
    BY <2>2, <2>4, <2>5, <2>6 DEF RunnerInv
<1>3. CASE future[g] # "queued"
  <2>1. future' = future
    BY <1>3, <1>g DEF Start, RunnerInv, RunnerTypeOK
  <2>2. CallsFollow'
    BY <1>0, <2>1 DEF RunnerInv, CallsFollow, CallFollows, AttemptFollows, Attempts
  <2>3. Holders' = Holders
    BY <1>0, <2>1 DEF Holders, Holds, Live
  <2>4. CapacityAccounted' /\ permits' \in 0..Capacity
    BY <1>0, <2>3, PermitsKept
  <2>5. PoolFollows'
    <3>1. ASSUME NEW f \in Futures, future'[f] = "queued"
          PROVE  \E i \in DOMAIN queue' : queue'[i] = f
      <4>1. f # g /\ future[f] = "queued"
        BY <1>3, <2>1, <3>1
      <4>2. PICK i \in DOMAIN queue : queue[i] = f
        BY <4>1 DEF RunnerInv, PoolFollows
      <4> QED
        BY <1>1, <4>1, <4>2
    <3> QED
      BY <1>0, <2>1, <3>1 DEF RunnerInv, PoolFollows, JoinedIsQuiet, Live
  <2>6. RunnerTypeOK'
    BY <1>0, <1>1, <2>1, <2>4 DEF RunnerInv, RunnerTypeOK
  <2> QED
    BY <2>2, <2>4, <2>5, <2>6 DEF RunnerInv
<1> QED
  BY <1>2, <1>3

LEMMA StepFinish ==
  ASSUME RunnerInv, NEW g \in Futures, NEW ending \in Finished, Finish(g, ending)
  PROVE  RunnerInv'
<1>0. /\ future[g] = "running" /\ future' = [future EXCEPT ![g] = ending]
      /\ permits' = permits + 1
      /\ UNCHANGED <<pc, attempt, outcome, queue, closed, executor>>
  BY DEF Finish, callVars, closeVars
<1>1. /\ CallsFollow'
      /\ future' \in [Futures -> FutureStates] /\ future'[g] = ending
      /\ \A f \in Futures : f # g => future'[f] = future[f]
  BY <1>0, WorkerStep DEF Live
<1>2. g[2] = attempt[g[1]] => pc[g[1]] \notin {"acquired", "checked"}
  BY <1>0 DEF RunnerInv, CallsFollow, AttemptFollows
<1>3. g \in Holders /\ Holders' = Holders \ {g}
  BY <1>0, <1>1, <1>2 DEF Holders, Holds, Live, Finished
<1>4. CapacityAccounted' /\ permits' \in 0..Capacity
  BY <1>0, <1>3, PermitReturned
<1>5. PoolFollows'
  BY <1>0, <1>1 DEF RunnerInv, PoolFollows, JoinedIsQuiet, Live, Finished
<1>6. RunnerTypeOK'
  BY <1>0, <1>1, <1>4 DEF RunnerInv, RunnerTypeOK
<1> QED
  BY <1>1, <1>4, <1>5, <1>6 DEF RunnerInv

\* Closing touches nothing but its own two variables.
LEMMA ClosingKeeps ==
  ASSUME RunnerInv, UNCHANGED <<permits, callVars, poolVars>>
  PROVE  CallsFollow' /\ CapacityAccounted' /\ permits' \in 0..Capacity
<1>1. Holders' = Holders
  BY DEF Holders, Holds, Live, callVars, poolVars
<1>2. CallsFollow'
  BY DEF RunnerInv, CallsFollow, CallFollows, AttemptFollows, Attempts, callVars, poolVars
<1> QED
  BY <1>1, <1>2, PermitsKept

LEMMA StepClose ==
  ASSUME RunnerInv, Close \/ Shutdown \/ Join \/ UNCHANGED runnerVars
  PROVE  RunnerInv'
<1>1. UNCHANGED <<permits, callVars, poolVars>>
  BY DEF Close, Shutdown, Join, runnerVars
<1>2. RunnerTypeOK'
  BY <1>1, ClosingKeeps
  DEF RunnerInv, RunnerTypeOK, Close, Shutdown, Join, runnerVars, callVars, poolVars, closeVars
<1>3. PoolFollows'
  <2>1. CASE Join
    <3>1. \A f \in Futures : future[f] # "queued" /\ future[f] # "running"
      BY <2>1 DEF Join, Running, RunnerInv, PoolFollows
    <3> QED
      BY <1>1, <3>1 DEF PoolFollows, JoinedIsQuiet, Live, poolVars
  <2>2. CASE ~Join
    BY <1>1, <2>2
    DEF RunnerInv, PoolFollows, JoinedIsQuiet, Live, Close, Shutdown,
        runnerVars, poolVars, closeVars
  <2> QED
    BY <2>1, <2>2
<1> QED
  BY <1>1, <1>2, <1>3, ClosingKeeps DEF RunnerInv

LEMMA RunnerStep == RunnerInv /\ [RunnerNext]_runnerVars => RunnerInv'
  BY StepBegin, StepExpire, StepAcquire, StepCheck, StepSubmit, StepDeliver, StepResume,
     StepTimeout, StepDisconnect, StepStart, StepFinish, StepClose
  DEF RunnerNext, Step

-----------------------------------------------------------------------------

(* The inductive invariant, for any calls, workers, queue and attempts.    *)
THEOREM RunnerInvariance == RunnerSpec => []RunnerInv
  BY InitialRunner, RunnerStep, PTL DEF RunnerSpec

(* Every permit is held by exactly one piece of work and comes back when   *)
(* that ends (_release_capacity).                                          *)
THEOREM PermitsAreAccounted == RunnerSpec => []CapacityAccounted
<1>1. RunnerInv => CapacityAccounted
  BY DEF RunnerInv
<1> QED
  BY <1>1, RunnerInvariance, PTL

(* No retry runs beside an earlier attempt.                                *)
THEOREM AttemptsAreSerial == RunnerSpec => []OneAttemptAtATime
<1>1. RunnerInv => OneAttemptAtATime
  <2> SUFFICES ASSUME RunnerInv, NEW f \in Futures, Live(f) PROVE f = Current(f[1])
    BY DEF OneAttemptAtATime
  <2>0. f[2] \in Nat /\ attempt[f[1]] \in Nat
    BY FutureParts DEF RunnerInv, RunnerTypeOK
  <2>1. ~(f[2] > attempt[f[1]]) /\ ~(f[2] < attempt[f[1]])
    BY DEF RunnerInv, CallsFollow, AttemptFollows, Live
  <2>2. f[2] = attempt[f[1]]
    BY <2>0, <2>1
  <2> QED
    BY <2>2, FutureParts DEF Current
<1> QED
  BY <1>1, RunnerInvariance, PTL

(* An operation that is not retry-safe is attempted once at most.          *)
THEOREM UnsafeIsSingle == RunnerSpec => []UnsafeRunsOnce
<1>1. RunnerInv => UnsafeRunsOnce
  BY FutureParts
  DEF UnsafeRunsOnce, RunnerInv, RunnerTypeOK, CallsFollow, CallFollows, AttemptFollows, Attempts
<1> QED
  BY <1>1, RunnerInvariance, PTL

(* A refused request has no effect: nothing was submitted for it.          *)
THEOREM RefusalIsClean == RunnerSpec => []RefusedHadNoEffect
<1>1. RunnerInv => RefusedHadNoEffect
  <2> SUFFICES ASSUME RunnerInv, NEW c \in Calls \ RetrySafe,
                      outcome[c] \in {"overloaded", "closed", "internal"},
                      NEW f \in Futures, f[1] = c
               PROVE  future[f] = "none"
    BY DEF RefusedHadNoEffect
  <2>1. attempt[c] \in Nat /\ attempt[c] <= 1 /\ f[2] >= 1 /\ f[2] \in Nat
    BY FutureParts DEF RunnerInv, RunnerTypeOK, CallsFollow, CallFollows, Attempts
  <2>2. f[2] > attempt[c] \/ f[2] = attempt[c]
    BY <2>1
  <2> QED
    BY <2>2 DEF RunnerInv, CallsFollow, AttemptFollows
<1> QED
  BY <1>1, RunnerInvariance, PTL

(* Once close() has waited, nothing runs and nothing will.                 *)
THEOREM JoinIsFinal == RunnerSpec => []JoinedIsQuiet
<1>1. RunnerInv => JoinedIsQuiet
  BY DEF RunnerInv, PoolFollows
<1> QED
  BY <1>1, RunnerInvariance, PTL

\* Only Start makes a future run, and it takes one that was still queued.
LEMMA StartStep ==
  ASSUME RunnerInv, [RunnerNext]_runnerVars, NEW f \in Futures,
         future[f] # "running", future'[f] = "running"
  PROVE  outcome[f[1]] # "timeout"
<1>1. ASSUME ~Start PROVE FALSE
  <2>1. CASE UNCHANGED future
    BY <2>1
  <2>2. ASSUME NEW c \in Calls, Submit(c) PROVE FALSE
    BY <2>2 DEF Submit, poolVars, RunnerInv, RunnerTypeOK
  <2>3. ASSUME NEW c \in Calls, Timeout(c) PROVE FALSE
    BY <2>3 DEF Timeout, CancelUnstarted, RunnerInv, RunnerTypeOK
  <2>4. ASSUME NEW g \in Futures, NEW ending \in Finished, Finish(g, ending) PROVE FALSE
    BY <2>4 DEF Finish, Finished, RunnerInv, RunnerTypeOK
  <2>5. ASSUME ~UNCHANGED future
        PROVE  \/ \E c \in Calls : Submit(c) \/ Timeout(c)
               \/ \E g \in Futures, ending \in Finished : Finish(g, ending)
    BY <1>1, <2>5
    DEF RunnerNext, Step, Begin, Expire, Acquire, Check, Deliver, Resume, Disconnect,
        Close, Shutdown, Join, runnerVars, poolVars
  <2> QED
    BY <2>1, <2>2, <2>3, <2>4, <2>5
<1>2. Start
  BY <1>1
<1>3. PICK g \in Futures : future' = [future EXCEPT ![g] = IF future[g] = "queued"
                                                         THEN "running" ELSE future[g]]
  BY <1>2 DEF Start, RunnerInv, RunnerTypeOK
<1>4. future[f] = "queued"
  BY <1>3 DEF RunnerInv, RunnerTypeOK
<1> QED
  <2>1. f[2] \in Nat /\ attempt[f[1]] \in Nat
    BY FutureParts DEF RunnerInv, RunnerTypeOK
  <2>2. ~(f[2] > attempt[f[1]]) /\ ~(f[2] < attempt[f[1]])
    BY <1>4 DEF RunnerInv, CallsFollow, AttemptFollows
  <2>3. f[2] = attempt[f[1]]
    BY <2>1, <2>2
  <2> QED
    BY <1>4, <2>3 DEF RunnerInv, CallsFollow, AttemptFollows

(* What was told to have timed out before it started is never started.     *)
THEOREM TimeoutIsClean == RunnerSpec => NothingStartsAfterTimeout
<1>1. RunnerInv /\ [RunnerNext]_runnerVars =>
        [\A f \in Futures : future[f] # "running" /\ future'[f] = "running" =>
                              outcome[f[1]] # "timeout"]_runnerVars
  BY StartStep
<1> QED
  BY <1>1, RunnerInvariance, PTL DEF RunnerSpec, NothingStartsAfterTimeout

-----------------------------------------------------------------------------
(* The graph beside a result                                               *)

(* Every set of numbers that is not empty has a least one.                 *)
LEMMA LeastNat ==
  ASSUME NEW T, T \subseteq Nat, T # {}
  PROVE  \E n \in T : \A k \in T : n <= k
<1> DEFINE R == OpToRel(<, Nat)
<1>1. IsWellFoundedOn(R, Nat)
  BY NatLessThanWellFounded, Zenon
<1>2. PICK n \in T : \A k \in T : ~ (<<k, n>> \in R)
  <2> HIDE DEF R
  <2> QED
    BY <1>1, WFMin
<1>3. \A k \in T : ~ (k < n)
  <2> SUFFICES ASSUME NEW k \in T PROVE ~ (k < n)
    OBVIOUS
  <2>1. <<k, n>> \in R <=> k < n
    BY DEF OpToRel
  <2> QED
    BY <1>2, <2>1
<1> QED
  BY <1>3

LEMMA LeastIsLeast ==
  ASSUME NEW S, S \subseteq Nat, S # {}
  PROVE  Least(S) \in S
BY LeastNat DEF Least

\* Every rank up to the last is taken, since no two members have the same one.
LEMMA RanksAreTaken ==
  ASSUME NEW S, S \subseteq Nat, IsFiniteSet(S), NEW i \in 1..Cardinality(S)
  PROVE  \E x \in S : Cardinality({y \in S : y <= x}) = i
<1> DEFINE below(x) == {y \in S : y <= x}
           rank == [x \in S |-> Cardinality(below(x))]
           n == Cardinality(S)
<1>0. n \in Nat
  BY FS_CardinalityType
<1>1. ASSUME NEW x \in S
      PROVE  IsFiniteSet(below(x)) /\ Cardinality(below(x)) \in 1..n
  <2>1. below(x) \subseteq S /\ x \in below(x)
    OBVIOUS
  <2>2. IsFiniteSet(below(x)) /\ Cardinality(below(x)) <= n
    BY <2>1, FS_Subset
  <2>3. Cardinality(below(x)) \in Nat /\ Cardinality(below(x)) # 0
    BY <2>1, <2>2, FS_CardinalityType, FS_EmptySet
  <2> QED
    BY <1>0, <2>2, <2>3
<1>2. ASSUME NEW x \in S, NEW z \in S, x < z
      PROVE  Cardinality(below(x)) # Cardinality(below(z))
  <2>1. below(x) \subseteq below(z) /\ below(x) # below(z)
    <3>1. x \in Nat /\ z \in Nat /\ x < z /\ \A y \in S : y \in Nat
      BY <1>2
    <3>2. z \notin below(x) /\ z \in below(z)
      BY <3>1
    <3>3. ASSUME NEW y \in below(x) PROVE y \in below(z)
      BY <3>1
    <3> HIDE DEF below
    <3> QED
      BY <3>2, <3>3
  <2>2. IsFiniteSet(below(z))
    BY <1>1
  <2> HIDE DEF below
  <2> QED
    BY <2>1, <2>2, FS_Subset
<1>3. rank \in Injection(S, 1..n)
  <2>1. rank \in [S -> 1..n]
    BY <1>1
  <2>2. ASSUME NEW x \in S, NEW z \in S, rank[x] = rank[z]
        PROVE  x = z
    <3>1. ~ (x < z) /\ ~ (z < x)
      BY <1>2, <2>2
    <3> QED
      BY <3>1
  <2> QED
    BY <2>1, <2>2 DEF Injection, IsInjective
<1>4. IsFiniteSet(1..n) /\ Cardinality(1..n) = n
  BY <1>0, FS_Interval
<1>5. rank \in Surjection(S, 1..n)
  <2> HIDE DEF rank
  <2> QED
    BY <1>3, <1>4, FS_Injection
<1>6. \E x \in S : rank[x] = i
  BY <1>5 DEF Surjection
<1> QED
  BY <1>6

LEMMA InOrderType ==
  ASSUME NEW S, S \subseteq Nat, IsFiniteSet(S)
  PROVE  InOrder(S) \in Seq(S)
<1>0. Cardinality(S) \in Nat
  BY FS_CardinalityType
<1> DEFINE at(i) == CHOOSE x \in S : Cardinality({y \in S : y <= x}) = i
<1>1. ASSUME NEW i \in 1..Cardinality(S)
      PROVE  at(i) \in S
  BY RanksAreTaken
<1>2. InOrder(S) = [i \in 1..Cardinality(S) |-> at(i)]
  BY DEF InOrder
<1> HIDE DEF at
<1> QED
  BY <1>0, <1>1, <1>2

LEMMA FirstType ==
  ASSUME NEW S, NEW s \in Seq(S), NEW n \in Nat
  PROVE  First(n, s) \in Seq(S)
<1> DEFINE k == IF n < Len(s) THEN n ELSE Len(s)
<1>1. k \in 0..Len(s) /\ Len(s) \in Nat
  OBVIOUS
<1> HIDE DEF k
<1>2. SubSeq(s, 1, k) \in Seq(S)
  BY <1>1
<1> QED
  BY <1>2 DEF First, k

LEMMA ImageIsFinite ==
  ASSUME NEW S, IsFiniteSet(S), NEW f, f = [x \in S |-> f[x]]
  PROVE  /\ IsFiniteSet({f[x] : x \in S}) /\ Cardinality({f[x] : x \in S}) \in Nat
<1>1. f \in Surjection(S, {f[x] : x \in S})
  BY DEF Surjection
<1> QED
  BY <1>1, FS_Surjection, FS_CardinalityType

LEMMA NodesAreFinite ==
  ASSUME NEW marks \in SUBSET Marks
  PROVE  /\ IsFiniteSet(marks) /\ IsFiniteSet(Nodes(marks)) /\ Nodes(marks) \subseteq Nat
<1>1. IsFiniteSet(marks)
  BY ProjectionAssumption, FS_Subset
<1> DEFINE f == [m \in marks |-> NodeOf[m]]
<1>2. IsFiniteSet({f[m] : m \in marks})
  BY <1>1, ImageIsFinite
<1>3. {f[m] : m \in marks} = Nodes(marks)
  BY DEF Nodes
<1>4. NodeOf \in [Marks -> Nat]
  BY ProjectionAssumption
<1>5. Nodes(marks) \subseteq Nat
  BY <1>4 DEF Nodes
<1> QED
  BY <1>1, <1>2, <1>3, <1>5

LEMMA EndsAreMarks ==
  ASSUME NEW l \in Links
  PROVE  /\ EndsOf[l] \in Seq(Marks) /\ Ends(l) \subseteq Marks
         /\ EndsOf[l][1] \in Ends(l)
         /\ \/ Len(EndsOf[l]) = 1 /\ Ends(l) = {EndsOf[l][1]}
            \/ Len(EndsOf[l]) = 2 /\ Ends(l) = {EndsOf[l][1], EndsOf[l][2]}
<1>1. EndsOf[l] \in Seq(Marks) /\ Len(EndsOf[l]) \in 1..2
  BY ProjectionAssumption
<1>2. PICK s \in Seq(Marks) : s = EndsOf[l]
  BY <1>1
<1>3. Len(s) \in 1..2 /\ DOMAIN s = 1..Len(s) /\ Ends(l) = {s[i] : i \in DOMAIN s}
  BY <1>1, <1>2 DEF Ends
<1> QED
  BY <1>1, <1>2, <1>3

LEMMA CostIsMonotone ==
  ASSUME NEW more, IsFiniteSet(more), NEW items \in SUBSET more
  PROVE  /\ Cost(items) \in Nat /\ Cost(more) \in Nat /\ Cost(items) <= Cost(more)
<1> DEFINE texts(s) == {e.text : e \in s}
<1>1. ASSUME NEW s, IsFiniteSet(s)
      PROVE  IsFiniteSet(texts(s))
  <2> DEFINE f == [e \in s |-> e.text]
  <2>1. IsFiniteSet({f[e] : e \in s})
    BY <1>1, ImageIsFinite
  <2>2. {f[e] : e \in s} = texts(s)
    OBVIOUS
  <2> QED
    BY <2>1, <2>2
<1>2. IsFiniteSet(items) /\ Cardinality(items) <= Cardinality(more)
  BY FS_Subset
<1>3. IsFiniteSet(texts(items)) /\ IsFiniteSet(texts(more))
  BY <1>1, <1>2
<1>4. Cardinality(texts(items)) <= Cardinality(texts(more))
  <2>1. texts(items) \subseteq texts(more)
    OBVIOUS
  <2> HIDE DEF texts
  <2> QED
    BY <1>3, <2>1, FS_Subset
<1>5. /\ Cardinality(items) \in Nat /\ Cardinality(more) \in Nat
      /\ Cardinality(texts(items)) \in Nat /\ Cardinality(texts(more)) \in Nat
  BY <1>2, <1>3, FS_CardinalityType
<1> HIDE DEF texts
<1>6. ASSUME NEW a \in Nat, NEW b \in Nat, NEW c \in Nat, NEW d \in Nat, NEW k \in Nat,
             a <= b, c <= d
      PROVE  a + k * c \in Nat /\ b + k * d \in Nat /\ a + k * c <= b + k * d
  <2>1. PICK x \in Nat : d = c + x
    BY <1>6
  <2>2. k * d = k * c + k * x /\ k * x \in Nat /\ k * c \in Nat
    BY <2>1
  <2> QED
    BY <1>6, <2>2
<1>7. TextSize \in Nat
  BY ProjectionAssumption
<1>8. /\ Cost(items) = Cardinality(items) + TextSize * Cardinality(texts(items))
      /\ Cost(more) = Cardinality(more) + TextSize * Cardinality(texts(more))
  BY DEF Cost, texts
<1> QED
  BY <1>2, <1>4, <1>5, <1>6, <1>7, <1>8
-----------------------------------------------------------------------------

WithSeed == {l \in served.links : Nodes(Ends(l)) \cap SeedNodes # {}}

ProjectionType ==
    /\ selected \subseteq Texts
    /\ limits \in [nodes : Nat, perNode : Nat, links : Nat, size : Nat]
    /\ served \in [marks : SUBSET Marks, links : SUBSET Links]
    /\ waiting \in [marks : Seq(Marks), links : Seq(WithSeed)]
    /\ drawn \in [marks : SUBSET Marks, links : SUBSET Links]

OfNode(marks, node) == {m \in marks : NodeOf[m] = node}

HasRoom(marks) == \A node \in Nat : Cardinality(OfNode(marks, node)) <= limits.perNode

\* An assertion hangs on nodes that show its mentions.
Hangs(marks, l) ==
    /\ EndsOf[l][1] \in marks
    /\ \A m \in Ends(l) :
          /\ NodeOf[m] \in Nodes(marks)
          /\ NodeOf[m] # NodeOf[EndsOf[l][1]] => m \in marks

Anchored(marks, l) ==
    \E m \in marks : NodeOf[m] \in Nodes(Ends(l)) /\ TextOf[m] \in selected

ProjectionInv ==
    /\ ProjectionType
    /\ \A l \in drawn.links : Hangs(drawn.marks, l) /\ Anchored(drawn.marks, l)
    /\ Cardinality(Nodes(drawn.marks)) <= limits.nodes
    /\ HasRoom(drawn.marks)
    /\ IsFiniteSet(quoted) /\ Shown \subseteq quoted /\ Cost(quoted) <= limits.size

LEMMA MentionedAreMarks ==
  ASSUME selected \subseteq Texts, served \in [marks : SUBSET Marks, links : SUBSET Links]
  PROVE  /\ Mentioned \in SUBSET Marks /\ IsFiniteSet(Mentioned) /\ Mentioned \subseteq Nat
         /\ \A m \in Mentioned : TextOf[m] \in selected
<1>1. served.marks \in SUBSET Marks
  OBVIOUS
<1>2. Mentioned \subseteq Marks /\ \A m \in Mentioned : TextOf[m] \in selected
  BY <1>1 DEF Mentioned
<1> QED
  BY <1>2, ProjectionAssumption, FS_Subset

LEMMA SeedsAreMentioned ==
  ASSUME ProjectionType
  PROVE  SeedNodes \subseteq Nodes(Mentioned)
<1>1. Mentioned \in SUBSET Marks /\ limits.nodes \in Nat
  BY MentionedAreMarks DEF ProjectionType
<1>2. IsFiniteSet(Nodes(Mentioned)) /\ Nodes(Mentioned) \subseteq Nat
  BY <1>1, NodesAreFinite
<1>3. First(limits.nodes, InOrder(Nodes(Mentioned))) \in Seq(Nodes(Mentioned))
  BY <1>1, <1>2, InOrderType, FirstType
<1>4. PICK s \in Seq(Nodes(Mentioned)) : s = First(limits.nodes, InOrder(Nodes(Mentioned)))
  BY <1>3
<1>5. SeedNodes = {s[i] : i \in DOMAIN s}
  BY <1>4 DEF SeedNodes
<1>6. \A i \in DOMAIN s : s[i] \in Nodes(Mentioned)
  OBVIOUS
<1> QED
  BY <1>5, <1>6

\* An assertion in the rows has a seed, and the seed a selected chunk.
LEMMA SeedIsSelected ==
  ASSUME ProjectionType, NEW l \in WithSeed
  PROVE  SeedFor(l).node \in Nodes(Ends(l)) /\ SeedFor(l).text \in selected
<1> DEFINE common == Nodes(Ends(l)) \cap SeedNodes
           node == Least(common)
           texts == {TextOf[m] : m \in {n \in Mentioned : NodeOf[n] = node}}
<1>1. l \in Links
  BY DEF WithSeed, ProjectionType
<1>2. Nodes(Ends(l)) \subseteq Nat
  BY <1>1, EndsAreMarks, NodesAreFinite
<1>3. common # {}
  BY DEF WithSeed
<1>4. node \in common
  BY <1>2, <1>3, LeastIsLeast
<1> HIDE DEF node
<1>5. PICK m \in Mentioned : NodeOf[m] = node
  BY <1>4, SeedsAreMentioned DEF Nodes
<1>6. texts \subseteq selected /\ texts # {}
  BY <1>5, MentionedAreMarks DEF ProjectionType
<1>7. selected \subseteq Nat
  BY ProjectionAssumption DEF ProjectionType
<1>8. Least(texts) \in texts
  BY <1>6, <1>7, LeastIsLeast
<1>9. SeedFor(l) = [node |-> node, text |-> Least(texts)]
  BY DEF SeedFor, node
<1> QED
  BY <1>4, <1>6, <1>8, <1>9
-----------------------------------------------------------------------------

LEMMA NodeAdded ==
  ASSUME NEW marks \in SUBSET Marks, NEW m \in Marks, limits.perNode \in Nat, HasRoom(marks),
         m \in marks \/ Cardinality(OfNode(marks, NodeOf[m])) < limits.perNode
  PROVE  HasRoom(marks \cup {m})
<1> SUFFICES ASSUME NEW node \in Nat
             PROVE  Cardinality(OfNode(marks \cup {m}, node)) <= limits.perNode
  BY DEF HasRoom
<1>1. Cardinality(OfNode(marks, node)) <= limits.perNode
  BY DEF HasRoom
<1>2. CASE m \in marks \/ NodeOf[m] # node
  <2>1. OfNode(marks \cup {m}, node) = OfNode(marks, node)
    BY <1>2 DEF OfNode
  <2> QED
    BY <1>1, <2>1
<1>3. CASE m \notin marks /\ NodeOf[m] = node
  <2>1. /\ OfNode(marks \cup {m}, node) = OfNode(marks, node) \cup {m}
        /\ m \notin OfNode(marks, node)
    BY <1>3 DEF OfNode
  <2>2. IsFiniteSet(OfNode(marks, node))
    BY NodesAreFinite DEF OfNode
  <2>3. Cardinality(OfNode(marks \cup {m}, node)) = Cardinality(OfNode(marks, node)) + 1
    BY <2>1, <2>2, FS_AddElement
  <2>4. Cardinality(OfNode(marks, node)) < limits.perNode
    BY <1>3
  <2>5. Cardinality(OfNode(marks, node)) \in Nat
    BY <2>2, FS_CardinalityType
  <2> QED
    BY <2>3, <2>4, <2>5
<1> QED
  BY <1>2, <1>3

LEMMA AttachKeeps ==
  ASSUME NEW marks \in SUBSET Marks, NEW m \in Marks, limits.perNode \in Nat, HasRoom(marks)
  PROVE  /\ HasRoom(Attach(marks, m))
         /\ Attach(marks, m) \in SUBSET Marks
         /\ marks \subseteq Attach(marks, m) /\ Attach(marks, m) \subseteq marks \cup {m}
         /\ Cardinality(OfNode(marks, NodeOf[m])) < limits.perNode => m \in Attach(marks, m)
<1>1. Attach(marks, m) = IF Cardinality(OfNode(marks, NodeOf[m])) < limits.perNode
                         THEN marks \cup {m} ELSE marks
  BY DEF Attach, OfNode
<1> QED
  BY <1>1, NodeAdded

\* The first end is attached; the second too unless the first took its last place.
LEMMA EndsAttached ==
  ASSUME NEW marks \in SUBSET Marks, NEW l \in Links, limits.perNode \in Nat, HasRoom(marks),
         \A m \in Ends(l) :
            m \in marks \/ Cardinality(OfNode(marks, NodeOf[m])) < limits.perNode
  PROVE  LET next == AttachEnds(marks, EndsOf[l]) IN
         /\ HasRoom(next) /\ next \in SUBSET Marks
         /\ marks \subseteq next /\ next \subseteq marks \cup Ends(l)
         /\ Hangs(next, l)
<1> DEFINE s == EndsOf[l]
           one == Attach(marks, s[1])
           two == Attach(one, s[2])
<1>1. /\ s[1] \in Marks /\ s[1] \in Ends(l)
      /\ HasRoom(one) /\ one \in SUBSET Marks /\ marks \subseteq one
      /\ one \subseteq marks \cup {s[1]} /\ s[1] \in one
  <2>1. s[1] \in Marks /\ s[1] \in Ends(l)
    BY EndsAreMarks
  <2> QED
    BY <2>1, AttachKeeps
<1>2. CASE Len(s) = 1
  <2>1. AttachEnds(marks, s) = one /\ Ends(l) = {s[1]}
    BY <1>2, EndsAreMarks DEF AttachEnds
  <2>2. Hangs(one, l)
    BY <1>1, <2>1 DEF Hangs, Nodes
  <2> QED
    BY <1>1, <2>1, <2>2
<1>3. CASE Len(s) = 2
  <2>1. AttachEnds(marks, s) = two /\ Ends(l) = {s[1], s[2]} /\ s[2] \in Marks
    <3>1. AttachEnds(marks, s) = two
      BY <1>3 DEF AttachEnds
    <3>2. Ends(l) = {s[1], s[2]} /\ Ends(l) \subseteq Marks
      BY <1>3, EndsAreMarks
    <3> QED
      BY <3>1, <3>2
  <2>2. /\ HasRoom(two) /\ two \in SUBSET Marks /\ one \subseteq two
        /\ two \subseteq one \cup {s[2]}
        /\ Cardinality(OfNode(one, NodeOf[s[2]])) < limits.perNode => s[2] \in two
    BY <1>1, <2>1, AttachKeeps
  <2>3. NodeOf[s[2]] # NodeOf[s[1]] => s[2] \in two
    <3>1. SUFFICES ASSUME NodeOf[s[2]] # NodeOf[s[1]], s[2] \notin marks
                   PROVE  s[2] \in two
      BY <1>1, <2>2
    <3>2. OfNode(one, NodeOf[s[2]]) = OfNode(marks, NodeOf[s[2]])
      BY <1>1, <3>1 DEF OfNode
    <3>3. Cardinality(OfNode(marks, NodeOf[s[2]])) < limits.perNode
      BY <2>1, <3>1
    <3> QED
      BY <2>2, <3>2, <3>3
  <2>4. s[1] \in two /\ NodeOf[s[1]] \in Nodes(two) /\ NodeOf[s[2]] \in Nodes(two)
    BY <1>1, <2>2, <2>3 DEF Nodes
  <2>5. Hangs(two, l)
    BY <2>1, <2>3, <2>4 DEF Hangs
  <2> QED
    BY <1>1, <2>1, <2>2, <2>5
<1> QED
  BY <1>2, <1>3, EndsAreMarks

LEMMA EvidenceIsFinite ==
  ASSUME NEW l \in Links
  PROVE  IsFiniteSet(LinkEvidence(l))
<1> DEFINE f == [m \in Ends(l) |-> MarkEvidence(m)]
           t == TextOf[EndsOf[l][1]]
           own == {[of |-> "assertion", id |-> l, text |-> t]}
           around == {[of |-> "assertion", id |-> l, text |-> ContextOf[l]]}
<1>1. IsFiniteSet(Ends(l))
  BY EndsAreMarks, NodesAreFinite
<1>2. IsFiniteSet({f[m] : m \in Ends(l)})
  BY <1>1, ImageIsFinite
<1>3. IsFiniteSet(own) /\ IsFiniteSet(around)
  BY FS_Singleton
<1>4. LinkEvidence(l) \subseteq {f[m] : m \in Ends(l)} \cup own \cup around
  BY DEF LinkEvidence
<1> HIDE DEF f, own, around
<1> QED
  BY <1>2, <1>3, <1>4, FS_Union, FS_Subset

LEMMA ShownGrows ==
  ASSUME NEW marks, NEW links, NEW items, marks \subseteq drawn.marks \cup items,
         \A m \in items : MarkEvidence(m) \in quoted',
         \A l \in links : l \in drawn.links \/ LinkEvidence(l) \subseteq quoted',
         drawn' = [marks |-> marks, links |-> links],
         Shown \subseteq quoted, quoted \subseteq quoted'
  PROVE  Shown' \subseteq quoted'
<1> SUFFICES ASSUME NEW e \in Shown'
             PROVE  e \in quoted'
  OBVIOUS
<1>1. CASE \E m \in drawn.marks' : e = MarkEvidence(m)
  BY <1>1 DEF Shown
<1>2. CASE \E l \in drawn.links' : e \in LinkEvidence(l)
  BY <1>2 DEF Shown
<1> QED
  BY <1>1, <1>2 DEF Shown, MarkEvidence, LinkEvidence
-----------------------------------------------------------------------------

LEMMA HangsMore ==
  ASSUME NEW marks, NEW more, NEW l, marks \subseteq more, Hangs(marks, l)
  PROVE  Hangs(more, l)
BY DEF Hangs, Nodes

LEMMA AnchoredMore ==
  ASSUME NEW l, Anchored(drawn.marks, l), drawn.marks \subseteq drawn'.marks, selected' = selected
  PROVE  Anchored(drawn.marks, l)'
BY DEF Anchored

LEMMA ProjectionStarts == ProjectionInit => ProjectionInv
<1> SUFFICES ASSUME ProjectionInit
             PROVE  ProjectionInv
  OBVIOUS
<1>1. TextSize \in Nat
  BY ProjectionAssumption
<1>2. /\ selected \subseteq Texts
      /\ limits \in [nodes : Nat, perNode : Nat, links : Nat, size : Nat]
  BY <1>1 DEF ProjectionInit
<1>3. PICK links \in SUBSET Links : served \in [marks : SUBSET Marks, links : {links}]
  BY DEF ProjectionInit
<1>4. served \in [marks : SUBSET Marks, links : SUBSET Links]
  BY <1>3
<1>5. MentionRows \in Seq(Marks)
  <2>1. PICK n \in Nat : n = limits.nodes * limits.perNode
    BY <1>2
  <2>2. First(n, InOrder(Mentioned)) \in Seq(Mentioned)
    BY <1>2, <1>4, <2>1, MentionedAreMarks, InOrderType, FirstType
  <2> QED
    BY <1>2, <1>4, <2>1, <2>2, MentionedAreMarks DEF MentionRows
<1>6. AssertionRows \in Seq(WithSeed)
  <2>1. WithSeed \in SUBSET Links
    BY <1>4 DEF WithSeed
  <2>2. WithSeed \subseteq Nat /\ IsFiniteSet(WithSeed) /\ limits.links \in Nat
    BY <1>2, <2>1, ProjectionAssumption, FS_Subset
  <2>3. First(limits.links, InOrder(WithSeed)) \in Seq(WithSeed)
    BY <2>2, InOrderType, FirstType
  <2> QED
    BY <2>3 DEF AssertionRows, WithSeed
<1>7. drawn = [marks |-> {}, links |-> {}] /\ quoted = {}
      /\ waiting = [marks |-> MentionRows, links |-> AssertionRows]
  BY DEF ProjectionInit
<1>8. ProjectionType
  BY <1>2, <1>4, <1>5, <1>6, <1>7 DEF ProjectionType
<1>9. Nodes(drawn.marks) = {} /\ \A node \in Nat : OfNode(drawn.marks, node) = {}
  BY <1>7 DEF Nodes, OfNode
<1>10. Cardinality(Nodes(drawn.marks)) <= limits.nodes /\ HasRoom(drawn.marks)
  BY <1>2, <1>9, FS_EmptySet DEF HasRoom
<1>11. IsFiniteSet(quoted) /\ Shown \subseteq quoted
  BY <1>7, FS_EmptySet DEF Shown
<1>12. Cost(quoted) <= limits.size
  <2>1. {e.text : e \in quoted} = {} /\ Cardinality({}) = 0
    BY <1>7, FS_EmptySet
  <2>2. TextSize * 0 = 0 /\ limits.size \in Nat
    BY <1>1, <1>2
  <2>3. Cost(quoted) = 0 + TextSize * 0
    BY <1>7, <2>1 DEF Cost
  <2> QED
    BY <2>2, <2>3
<1> QED
  BY <1>7, <1>8, <1>10, <1>11, <1>12 DEF ProjectionInv

LEMMA SeedsStay ==
  ASSUME UNCHANGED <<selected, limits, served>>
  PROVE  WithSeed' = WithSeed
<1>1. Mentioned' = Mentioned
  BY DEF Mentioned
<1>2. SeedNodes' = SeedNodes
  BY <1>1 DEF SeedNodes
<1> QED
  BY <1>2 DEF WithSeed

LEMMA MentionRead == ProjectionInv /\ ReadMention => ProjectionInv'
<1> SUFFICES ASSUME ProjectionInv, ReadMention
             PROVE  ProjectionInv'
  OBVIOUS
<1> USE DEF ProjectionInv
<1> DEFINE m == Head(waiting.marks)
           fits == NodesFit({m}) /\ MarkFits(m) /\ EvidenceFits({MarkEvidence(m)})
<1>1. /\ waiting.marks # <<>> /\ waiting.marks \in Seq(Marks)
      /\ waiting' = [waiting EXCEPT !.marks = Tail(@)]
      /\ UNCHANGED <<selected, limits, served>>
  BY DEF ReadMention, ProjectionType
<1>2. m \in Marks /\ Tail(waiting.marks) \in Seq(Marks)
  BY <1>1
<1>3. waiting' \in [marks : Seq(Marks), links : Seq(WithSeed)] /\ WithSeed' = WithSeed
  <2>1. waiting \in [marks : Seq(Marks), links : Seq(WithSeed)]
    BY DEF ProjectionType
  <2>2. WithSeed' = WithSeed
    BY <1>1, SeedsStay
  <2> QED
    BY <1>1, <1>2, <2>1, <2>2
<1> HIDE DEF m
<1>4. CASE ~fits
  <2>1. UNCHANGED <<drawn, quoted>>
    BY <1>4 DEF ReadMention, m
  <2> QED
    BY <1>1, <1>3, <2>1 DEF ProjectionType, HasRoom, Anchored, Shown
<1>5. CASE fits
  <2>1. /\ drawn' = [drawn EXCEPT !.marks = @ \cup {m}]
        /\ quoted' = quoted \cup {MarkEvidence(m)}
    BY <1>5 DEF ReadMention, m
  <2>2. /\ drawn.marks \in SUBSET Marks /\ drawn.links \in SUBSET Links
        /\ limits.nodes \in Nat /\ limits.perNode \in Nat /\ limits.size \in Nat
        /\ drawn' = [marks |-> drawn.marks \cup {m}, links |-> drawn.links]
    BY <2>1 DEF ProjectionType
  <2>3. ProjectionType'
    BY <1>1, <1>2, <1>3, <2>2 DEF ProjectionType
  <2>4. \A l \in drawn'.links : Hangs(drawn'.marks, l) /\ Anchored(drawn.marks, l)'
    <3>1. SUFFICES ASSUME NEW l \in drawn.links
                   PROVE  Hangs(drawn'.marks, l) /\ Anchored(drawn.marks, l)'
      BY <2>2
    <3>2. Hangs(drawn.marks, l) /\ Anchored(drawn.marks, l)
      OBVIOUS
    <3>3. drawn.marks \subseteq drawn'.marks
      BY <2>2
    <3> QED
      BY <1>1, <3>2, <3>3, HangsMore, AnchoredMore
  <2>5. Cardinality(Nodes(drawn'.marks)) <= limits.nodes
    <3>1. Nodes(drawn'.marks) = Nodes(drawn.marks) \cup Nodes({m})
      BY <2>2 DEF Nodes
    <3> QED
      BY <1>5, <3>1 DEF NodesFit
  <2>6. HasRoom(drawn'.marks)
    <3>1. Attached(NodeOf[m]) = OfNode(drawn.marks, NodeOf[m])
      BY DEF Attached, OfNode
    <3> QED
      BY <1>2, <1>5, <2>2, <3>1, NodeAdded DEF MarkFits
  <2>7. IsFiniteSet(quoted') /\ Cost(quoted') <= limits.size
    <3>1. IsFiniteSet({MarkEvidence(m)})
      BY FS_Singleton
    <3>2. IsFiniteSet(quoted \cup {MarkEvidence(m)})
      BY <3>1, FS_Union
    <3>3. Cost(quoted \cup {MarkEvidence(m)}) <= limits.size
      BY <1>5 DEF EvidenceFits
    <3> QED
      BY <2>1, <3>2, <3>3
  <2>8. Shown' \subseteq quoted'
    <3> DEFINE items == {m}
    <3>1. \A n \in items : MarkEvidence(n) \in quoted'
      BY <2>1
    <3>2. drawn.marks \cup {m} \subseteq drawn.marks \cup items /\ quoted \subseteq quoted'
      BY <2>1
    <3>3. \A k \in drawn.links : k \in drawn.links \/ LinkEvidence(k) \subseteq quoted'
      OBVIOUS
    <3>4. Shown \subseteq quoted
      OBVIOUS
    <3> HIDE DEF items
    <3> QED
      BY <2>2, <3>1, <3>2, <3>3, <3>4, ShownGrows
  <2> QED
    BY <1>1, <2>3, <2>4, <2>5, <2>6, <2>7, <2>8 DEF HasRoom, Cost
<1> QED
  BY <1>4, <1>5

LEMMA AssertionRead == ProjectionInv /\ ReadAssertion => ProjectionInv'
<1> SUFFICES ASSUME ProjectionInv, ReadAssertion
             PROVE  ProjectionInv'
  OBVIOUS
<1> USE DEF ProjectionInv
<1> DEFINE l == Head(waiting.links)
           fits == /\ SeedAdmitted(l) /\ NodesFit(Ends(l)) /\ \A m \in Ends(l) : MarkFits(m)
                   /\ EvidenceFits(LinkEvidence(l))
           next == AttachEnds(drawn.marks, EndsOf[l])
<1>1. /\ waiting.links # <<>> /\ waiting.links \in Seq(WithSeed)
      /\ waiting' = [waiting EXCEPT !.links = Tail(@)]
      /\ UNCHANGED <<selected, limits, served>>
  BY DEF ReadAssertion, ProjectionType
<1>2. l \in WithSeed /\ Tail(waiting.links) \in Seq(WithSeed)
  BY <1>1
<1>3. waiting' \in [marks : Seq(Marks), links : Seq(WithSeed)] /\ WithSeed' = WithSeed
  <2>1. waiting \in [marks : Seq(Marks), links : Seq(WithSeed)]
    BY DEF ProjectionType
  <2>2. WithSeed' = WithSeed
    BY <1>1, SeedsStay
  <2> QED
    BY <1>1, <1>2, <2>1, <2>2
<1>4. l \in Links
  BY <1>2 DEF WithSeed, ProjectionType
<1> HIDE DEF l
<1>5. CASE ~fits
  <2>1. UNCHANGED <<drawn, quoted>>
    BY <1>5 DEF ReadAssertion, l
  <2> QED
    BY <1>1, <1>3, <2>1 DEF ProjectionType, HasRoom, Anchored, Shown
<1>6. CASE fits
  <2>1. /\ drawn' = [marks |-> next, links |-> drawn.links \cup {l}]
        /\ quoted' = quoted \cup LinkEvidence(l)
    BY <1>6 DEF ReadAssertion, l
  <2>2. /\ drawn.marks \in SUBSET Marks /\ drawn.links \in SUBSET Links
        /\ limits.nodes \in Nat /\ limits.perNode \in Nat /\ limits.size \in Nat
    BY DEF ProjectionType
  <2>3. \A m \in Ends(l) :
           m \in drawn.marks \/ Cardinality(OfNode(drawn.marks, NodeOf[m])) < limits.perNode
    BY <1>6 DEF MarkFits, Attached, OfNode
  <2>4. /\ HasRoom(next) /\ next \in SUBSET Marks
        /\ drawn.marks \subseteq next /\ next \subseteq drawn.marks \cup Ends(l)
        /\ Hangs(next, l)
    BY <1>4, <2>2, <2>3, EndsAttached
  <2> HIDE DEF next
  <2>5. ProjectionType'
    BY <1>1, <1>3, <1>4, <2>1, <2>2, <2>4 DEF ProjectionType
  <2>6. Anchored(drawn.marks, l)
    <3>1. PICK m \in Attached(SeedFor(l).node) : TextOf[m] = SeedFor(l).text
      BY <1>6 DEF SeedAdmitted
    <3>2. m \in drawn.marks /\ NodeOf[m] = SeedFor(l).node
      BY DEF Attached
    <3> QED
      BY <1>2, <3>1, <3>2, SeedIsSelected DEF Anchored
  <2>7. \A k \in drawn'.links : Hangs(drawn'.marks, k) /\ Anchored(drawn.marks, k)'
    <3>1. SUFFICES ASSUME NEW k \in drawn.links \cup {l}
                   PROVE  Hangs(drawn'.marks, k) /\ Anchored(drawn.marks, k)'
      BY <2>1
    <3>2. Anchored(drawn.marks, k)
      BY <2>6
    <3>3. drawn.marks \subseteq drawn'.marks /\ drawn'.marks = next
      BY <2>1, <2>4
    <3>4. Hangs(drawn'.marks, k)
      BY <2>4, <3>3, HangsMore
    <3> QED
      BY <1>1, <3>2, <3>3, <3>4, AnchoredMore
  <2>8. Cardinality(Nodes(drawn'.marks)) <= limits.nodes
    <3> DEFINE all == Nodes(drawn.marks) \cup Nodes(Ends(l))
    <3>1. Nodes(next) \subseteq all
      BY <2>4 DEF Nodes
    <3>2. Ends(l) \in SUBSET Marks
      BY <1>4, EndsAreMarks
    <3>3. IsFiniteSet(Nodes(drawn.marks)) /\ IsFiniteSet(Nodes(Ends(l)))
      BY <2>2, <3>2, NodesAreFinite
    <3>4. IsFiniteSet(all)
      BY <3>3, FS_Union
    <3>5. Cardinality(all) <= limits.nodes /\ Cardinality(all) \in Nat
      BY <1>6, <3>4, FS_CardinalityType DEF NodesFit
    <3> HIDE DEF all
    <3>6. IsFiniteSet(Nodes(next)) /\ Cardinality(Nodes(next)) <= Cardinality(all)
      BY <3>1, <3>4, FS_Subset
    <3>7. Cardinality(Nodes(next)) \in Nat
      BY <3>6, FS_CardinalityType
    <3>8. drawn'.marks = next
      BY <2>1
    <3> QED
      BY <2>2, <3>5, <3>6, <3>7, <3>8
  <2>9. HasRoom(drawn'.marks)
    BY <2>1, <2>4
  <2>10. IsFiniteSet(quoted') /\ Cost(quoted') <= limits.size
    BY <1>4, <1>6, <2>1, EvidenceIsFinite, FS_Union DEF EvidenceFits
  <2>11. Shown' \subseteq quoted'
    <3>1. \A m \in Ends(l) : MarkEvidence(m) \in quoted'
      BY <2>1 DEF LinkEvidence
    <3>2. \A k \in drawn.links \cup {l} : k \in drawn.links \/ LinkEvidence(k) \subseteq quoted'
      BY <2>1
    <3>3. quoted \subseteq quoted' /\ Shown \subseteq quoted
      BY <2>1
    <3> QED
      BY <2>1, <2>4, <3>1, <3>2, <3>3, ShownGrows
  <2> QED
    BY <1>1, <2>5, <2>7, <2>8, <2>9, <2>10, <2>11 DEF HasRoom, Cost
<1> QED
  BY <1>5, <1>6

(* Whatever the rows are and in whatever order they are skipped, the graph *)
(* that is shown is whole and within its budgets (_project_rows).          *)
THEOREM ProjectionStaysWhole == ProjectionSpec => []ProjectionIsWhole
<1>1. ProjectionInit => ProjectionInv
  BY ProjectionStarts
<1>2. ProjectionInv /\ [ProjectionNext]_projectionVars => ProjectionInv'
  <2>1. CASE UNCHANGED projectionVars
    BY <2>1 DEF projectionVars, ProjectionInv, ProjectionType, HasRoom, Anchored, Shown, Cost,
                WithSeed, SeedNodes, Mentioned
  <2> QED
    BY <2>1, MentionRead, AssertionRead DEF ProjectionNext
<1>3. ProjectionInv => ProjectionIsWhole
  <2> SUFFICES ASSUME ProjectionInv
               PROVE  ProjectionIsWhole
    OBVIOUS
  <2> USE DEF ProjectionInv
  <2>1. \A m \in drawn.marks : Cardinality(Attached(NodeOf[m])) <= limits.perNode
    <3>1. SUFFICES ASSUME NEW m \in drawn.marks
                   PROVE  Cardinality(Attached(NodeOf[m])) <= limits.perNode
      OBVIOUS
    <3>2. NodeOf[m] \in Nat
      BY ProjectionAssumption DEF ProjectionType
    <3> QED
      BY <3>2 DEF HasRoom, OfNode, Attached
  <2>2. Cost(Shown) <= limits.size
    <3>1. Cost(Shown) <= Cost(quoted) /\ Cost(Shown) \in Nat /\ Cost(quoted) \in Nat
      BY CostIsMonotone
    <3>2. limits.size \in Nat
      BY DEF ProjectionType
    <3> QED
      BY <3>1, <3>2
  <2> QED
    BY <2>1, <2>2 DEF ProjectionIsWhole, Hangs, Anchored
<1> QED
  BY <1>1, <1>2, <1>3, PTL DEF ProjectionSpec

-----------------------------------------------------------------------------
(* The contract of a release                                               *)

NodesOn(edges) == UNION {{e[1], e[2]} : e \in edges}

\* A round of the algorithm, and the rounds up to n.
Round(edges, S) == {v \in S : \E u \in S : <<u, v>> \in edges}
Rounds(edges, f, n) ==
    f = [i \in 0..n |-> IF i = 0 THEN NodesOn(edges) ELSE Round(edges, f[i - 1])]

LEMMA RoundsExist ==
  ASSUME NEW edges, NEW n \in Nat
  PROVE  \E f : Rounds(edges, f, n)
<1> DEFINE T == {k \in Nat : ~ \E f : Rounds(edges, f, k)}
<1>1. SUFFICES ASSUME T # {} PROVE FALSE
  OBVIOUS
<1>2. PICK k \in T : \A j \in T : k <= j
  BY <1>1, LeastNat
<1>3. CASE k = 0
  <2>1. Rounds(edges, [i \in 0..0 |-> NodesOn(edges)], 0)
    BY DEF Rounds
  <2> QED
    BY <1>2, <1>3, <2>1
<1>4. CASE k # 0
  <2>1. k - 1 \in Nat /\ k - 1 \notin T
    BY <1>2, <1>4
  <2>2. PICK f : Rounds(edges, f, k - 1)
    BY <2>1
  <2> DEFINE g == [i \in 0..k |-> IF i = k THEN Round(edges, f[k - 1]) ELSE f[i]]
  <2>3. ASSUME NEW i \in 0..k
        PROVE  g[i] = IF i = 0 THEN NodesOn(edges) ELSE Round(edges, g[i - 1])
    <3>1. CASE i = k
      <4>1. g[i] = Round(edges, f[k - 1]) /\ g[i - 1] = f[k - 1]
        BY <1>4, <2>1, <3>1
      <4> QED
        BY <1>4, <3>1, <4>1
    <3>2. CASE i # k
      <4>1. i \in 0..(k - 1) /\ g[i] = f[i]
        BY <3>2
      <4>2. f[i] = IF i = 0 THEN NodesOn(edges) ELSE Round(edges, f[i - 1])
        BY <2>2, <4>1 DEF Rounds
      <4>3. i # 0 => g[i - 1] = f[i - 1]
        BY <4>1
      <4> QED
        BY <4>1, <4>2, <4>3
    <3> QED
      BY <3>1, <3>2
  <2>4. Rounds(edges, g, k)
    BY <2>3 DEF Rounds
  <2> QED
    BY <2>4
<1> QED
  BY <1>3, <1>4

LEMMA CycleStays ==
  ASSUME NEW edges, NEW n \in Nat, NEW f, Rounds(edges, f, n),
         NEW C \in SUBSET NodesOn(edges), \A v \in C : \E u \in C : <<u, v>> \in edges
  PROVE  C \subseteq f[n]
<1> DEFINE T == {k \in 0..n : ~ (C \subseteq f[k])}
<1>1. SUFFICES ASSUME T # {} PROVE FALSE
  OBVIOUS
<1>2. PICK k \in T : \A j \in T : k <= j
  <2>1. T \subseteq Nat
    OBVIOUS
  <2> QED
    BY <1>1, <2>1, LeastNat
<1>3. f[k] = IF k = 0 THEN NodesOn(edges) ELSE Round(edges, f[k - 1])
  BY DEF Rounds
<1>4. CASE k = 0
  BY <1>3, <1>4
<1>5. CASE k # 0
  <2>1. k - 1 \in 0..n /\ k - 1 \notin T
    BY <1>2, <1>5
  <2>2. C \subseteq f[k - 1]
    BY <2>1
  <2> QED
    BY <1>3, <1>5, <2>2 DEF Round
<1> QED
  BY <1>4, <1>5

LEMMA AcyclicHasNoCycle ==
  ASSUME NEW edges, IsFiniteSet(NodesOn(edges)), Acyclic(edges),
         NEW C \in SUBSET NodesOn(edges), \A v \in C : \E u \in C : <<u, v>> \in edges
  PROVE  C = {}
<1> DEFINE n == Cardinality(NodesOn(edges))
           left == CHOOSE f : Rounds(edges, f, n)
<1>1. n \in Nat
  BY FS_CardinalityType
<1> HIDE DEF n
<1>2. Rounds(edges, left, n)
  BY <1>1, RoundsExist
<1>3. left[n] = {}
  BY Zenon DEF Acyclic, Rounds, Round, NodesOn, n
<1> QED
  BY <1>1, <1>2, <1>3, CycleStays
\* What x[2] leads to would lead to x[1] and so to x[2] again.
LEMMA AcyclicGoesNowhere ==
  ASSUME NEW edges, IsFiniteSet(NodesOn(edges)), Acyclic(edges),
         NEW x \in edges, \A e \in edges : e = <<e[1], e[2]>>
  PROVE  ~Reaches(edges, x[2], x[1])
<1> SUFFICES ASSUME Reaches(edges, x[2], x[1])
             PROVE  FALSE
  OBVIOUS
<1> DEFINE C == {v \in NodesOn(edges) : Reaches(edges, x[2], v)}
           contains(S) == /\ \A e \in edges : e[1] = x[2] => e[2] \in S
                          /\ \A e \in edges : e[1] \in S => e[2] \in S
<1>1. \A v : Reaches(edges, x[2], v) <=> \A S \in SUBSET NodesOn(edges) : contains(S) => v \in S
  BY DEF Reaches, NodesOn
<1>2. \A e \in edges : e[1] \in NodesOn(edges) /\ e[2] \in NodesOn(edges)
  BY DEF NodesOn
<1>3. x[1] \in C /\ contains(C)
  <2>1. x[1] \in C
    BY <1>2
  <2>2. ASSUME NEW e \in edges, e[1] = x[2] \/ e[1] \in C
        PROVE  e[2] \in C
    BY <1>1, <1>2, <2>2
  <2> QED
    BY <2>1, <2>2
<1>4. x[2] \in C
  BY <1>3
<1>5. ASSUME NEW v \in C
      PROVE  \E u \in C : <<u, v>> \in edges
  <2> SUFFICES ASSUME \A u \in C : <<u, v>> \notin edges
               PROVE  FALSE
    OBVIOUS
  <2> DEFINE S == C \ {v}
  <2>1. \A e \in edges : e[1] \in C => e[2] # v
    OBVIOUS
  <2>2. contains(S) /\ S \in SUBSET NodesOn(edges)
    BY <1>3, <1>4, <2>1
  <2>3. Reaches(edges, x[2], v)
    OBVIOUS
  <2> QED
    BY <1>1, <2>2, <2>3
<1>6. C \in SUBSET NodesOn(edges)
  OBVIOUS
<1> HIDE DEF C
<1> QED
  BY <1>3, <1>5, <1>6, AcyclicHasNoCycle
-----------------------------------------------------------------------------

\* The graph is that of the active release and of nothing else.
ContractInv ==
    /\ approved \subseteq DOMAIN Says
    /\ releases \in Seq(SUBSET DOMAIN Says)
    /\ current \in 0..Len(releases)
    /\ current = 0 => graph = EmptyGraph
    /\ current # 0 =>
          /\ MeetsContract(Manifest) /\ Agreed(EmptyGraph, Manifest, current)
          /\ \E time : graph = Materialized(EmptyGraph, Manifest, current, time)

LEMMA ManifestType ==
  ASSUME ContractInv
  PROVE  Manifest \in SUBSET DOMAIN Says
<1>1. CASE current = 0
  BY <1>1 DEF Manifest
<1>2. CASE current # 0
  <2>1. current \in 1..Len(releases)
    BY <1>2 DEF ContractInv
  <2> QED
    BY <1>2, <2>1 DEF ContractInv, Manifest
<1> QED
  BY <1>1, <1>2

LEMMA GraphIsUndone ==
  ASSUME ContractInv
  PROVE  Deactivated(graph, current) = EmptyGraph
<1> DEFINE members == {x \in graph.members : x.release # current}
           nodes == {x \in graph.nodes : x.release = current => \E y \in members : y.node = x.id}
           holds == {h \in graph.holds : \E x \in nodes : x.id = h.node}
<1>1. Deactivated(graph, current) =
        [nodes |-> nodes, members |-> members,
         entities |-> {x \in graph.entities : x.release # current}, holds |-> holds,
         values |-> {v \in graph.values : \E h \in holds : h.value = v.id}]
  BY DEF Deactivated
<1>2. members = {} /\ {x \in graph.entities : x.release # current} = {}
  BY DEF ContractInv, Materialized, EmptyGraph
<1>3. \A x \in graph.nodes : x.release = current
  BY DEF ContractInv, Materialized, EmptyGraph, NewNodes
<1>4. nodes = {}
  BY <1>2, <1>3
<1> HIDE DEF nodes
<1>5. holds = {}
  BY <1>4
<1> HIDE DEF holds
<1> QED
  BY <1>1, <1>2, <1>4, <1>5 DEF EmptyGraph

LEMMA ReleaseActivated ==
  ASSUME ContractInv, NEW p \in 1..Len(releases'), releases' \in Seq(SUBSET DOMAIN Says),
         UNCHANGED approved, Activate(releases'[p], p)
  PROVE  ContractInv'
<1>1. /\ MeetsContract(releases'[p]) /\ Agreed(EmptyGraph, releases'[p], p)
      /\ graph' = Materialized(EmptyGraph, releases'[p], p, activated')
      /\ current' = p
  BY GraphIsUndone DEF Activate
<1>2. Manifest' = releases'[p] /\ current' # 0
  BY <1>1 DEF Manifest
<1>3. MeetsContract(Manifest') /\ Agreed(EmptyGraph, Manifest', current')
  BY <1>1, <1>2
<1>4. graph' = Materialized(EmptyGraph, Manifest', current', activated')
  BY <1>1, <1>2
<1> QED
  <2>1. /\ approved' \subseteq DOMAIN Says /\ current' \in 0..Len(releases')
        /\ releases' \in Seq(SUBSET DOMAIN Says)
    BY <1>1 DEF ContractInv
  <2>2. \E time : graph' = Materialized(EmptyGraph, Manifest', current', time)
    BY <1>4
  <2> QED
    BY <1>2, <1>3, <2>1, <2>2 DEF ContractInv

LEMMA ContractStarts == ContractInit => ContractInv
<1> SUFFICES ASSUME ContractInit
             PROVE  ContractInv
  OBVIOUS
<1>1. approved \subseteq DOMAIN Says
  BY ContractAssumption DEF ContractInit
<1>2. CASE releases = <<>> /\ current = 0 /\ graph = EmptyGraph
  BY <1>1, <1>2 DEF ContractInv
<1>3. CASE \E m \in Former : /\ m \subseteq approved
                            /\ releases = <<m>> /\ current = 1
                            /\ graph = Materialized(EmptyGraph, m, 1, 0)
  <2>1. PICK m \in Former : /\ releases = <<m>> /\ current = 1
                            /\ graph = Materialized(EmptyGraph, m, 1, 0)
    BY <1>3
  <2>2. m \in SUBSET DOMAIN Says /\ MeetsContract(m) /\ Agreed(EmptyGraph, m, 1)
    BY ContractAssumption
  <2>3. Manifest = m /\ Len(releases) = 1 /\ releases \in Seq(SUBSET DOMAIN Says)
    BY <2>1, <2>2 DEF Manifest
  <2> QED
    BY <1>1, <2>1, <2>2, <2>3 DEF ContractInv
<1> QED
  BY <1>2, <1>3 DEF ContractInit

LEMMA ContractKept == ContractInv /\ [ContractNext]_contractVars => ContractInv'
<1> SUFFICES ASSUME ContractInv, [ContractNext]_contractVars
             PROVE  ContractInv'
  OBVIOUS
<1>1. CASE PublishRelease
  <2>1. PICK added \in SUBSET (approved \ Manifest), removed \in SUBSET Manifest :
           /\ releases' = Append(releases, (Manifest \ removed) \cup added)
           /\ Activate((Manifest \ removed) \cup added, Len(releases) + 1)
    BY <1>1 DEF PublishRelease
  <2> DEFINE next == (Manifest \ removed) \cup added
             p == Len(releases) + 1
  <2>2. next \in SUBSET DOMAIN Says
    BY ManifestType DEF ContractInv
  <2>3. releases \in Seq(SUBSET DOMAIN Says) /\ releases' = Append(releases, next)
    BY <2>1 DEF ContractInv
  <2>4. Activate(next, p) /\ UNCHANGED approved
    BY <1>1, <2>1 DEF PublishRelease
  <2> HIDE DEF next
  <2>5. /\ releases' \in Seq(SUBSET DOMAIN Says) /\ p \in 1..Len(releases')
        /\ releases'[p] = next
    BY <2>2, <2>3
  <2> HIDE DEF p
  <2> QED
    BY <2>4, <2>5, ReleaseActivated
<1>2. CASE RestoreRelease
  <2>1. PICK p \in 1..Len(releases) : Activate(releases[p], p)
    BY <1>2 DEF RestoreRelease
  <2>2. UNCHANGED <<approved, releases>> /\ releases \in Seq(SUBSET DOMAIN Says)
    BY <1>2 DEF RestoreRelease, ContractInv
  <2> QED
    BY <2>1, <2>2, ReleaseActivated
<1>3. CASE UNCHANGED contractVars
  BY <1>3 DEF contractVars, ContractInv, Manifest
<1> QED
  BY <1>1, <1>2, <1>3 DEF ContractNext
-----------------------------------------------------------------------------

LEMMA ActiveGraph ==
  ASSUME ContractInv, current # 0
  PROVE  /\ graph.nodes = NewNodes(Manifest, current)
         /\ graph.values = NewValues(Manifest)
         /\ graph.holds = NewHolds(Manifest)
         /\ graph.entities = {[entity |-> Says[r].entity, release |-> current]
                              : r \in MentionsIn(Manifest)}
         /\ Agree(NewNodes(Manifest, current)) /\ Agree(NewValues(Manifest))
<1>1. PICK time : graph = Materialized(EmptyGraph, Manifest, current, time)
  BY DEF ContractInv
<1>2. Agreed(EmptyGraph, Manifest, current)
  BY DEF ContractInv
<1>3. EmptyGraph.nodes = {} /\ EmptyGraph.values = {} /\ EmptyGraph.holds = {}
      /\ EmptyGraph.entities = {}
  BY DEF EmptyGraph
<1>4. \A S : {} \cup S = S
  OBVIOUS
<1>5. Agree(NewNodes(Manifest, current)) /\ Agree(NewValues(Manifest))
  BY <1>2, <1>3, <1>4 DEF Agreed
<1> QED
  BY <1>1, <1>3, <1>4, <1>5 DEF Materialized

\* Two records with one id would be one node, of two revisions.
LEMMA IdsAreOwn ==
  ASSUME ContractInv, current # 0, NEW q \in Manifest, NEW r \in Manifest,
         NavigationId(q) = NavigationId(r)
  PROVE  q = r
<1> DEFINE node(x) == [id |-> NavigationId(x), revision |-> x, release |-> current,
                       format |-> Format]
<1>1. node(q) \in NewNodes(Manifest, current) /\ node(r) \in NewNodes(Manifest, current)
  BY DEF NewNodes
<1>2. node(q).id = node(r).id
  OBVIOUS
<1>3. node(q) = node(r)
  BY <1>1, <1>2, ActiveGraph DEF Agree
<1> QED
  BY <1>3

\* The node is in today's format, whatever the format of the record.
LEMMA ProjectionsPass ==
  ASSUME ContractInv, current # 0, NEW r \in Manifest
  PROVE  ProjectionPasses(r) <=> ~Unformatted(r)
<1> DEFINE node == [id |-> NavigationId(r), revision |-> r, release |-> current,
                    format |-> Format]
<1>1. NodesOf(r) = {node}
  BY ActiveGraph DEF NodesOf, NewNodes
<1>2. PICK time : graph = Materialized(EmptyGraph, Manifest, current, time)
  BY DEF ContractInv
<1> DEFINE member == [node |-> NavigationId(r), release |-> current, time |-> time]
<1>3. graph.members =
        {[node |-> NavigationId(q), release |-> current, time |-> time] : q \in Manifest}
  BY <1>2 DEF Materialized, EmptyGraph
<1>4. MembersOf(r) = {member}
  <2>1. member \in graph.members /\ member.release = current /\ node.id = member.node
    BY <1>3
  <2>2. member \in MembersOf(r)
    BY <1>1, <2>1 DEF MembersOf
  <2>3. ASSUME NEW y \in MembersOf(r)
        PROVE  y = member
    BY <1>1, <1>3 DEF MembersOf
  <2> QED
    BY <2>2, <2>3
<1> QED
  <2>1. Cardinality(NodesOf(r)) = 1 /\ Cardinality(MembersOf(r)) = 1
    <3> HIDE DEF node, member
    <3> QED
      BY <1>1, <1>4, FS_Singleton
  <2>2. /\ \A x \in NodesOf(r) : x.id = NavigationId(r) /\ x.format = Format
        /\ \E x \in NodesOf(r) : x = node
    BY <1>1
  <2>3. (\A x \in NodesOf(r) : x.format = Says[r].format) <=> Says[r].format = Format
    BY <2>2
  <2> QED
    BY <2>1, <2>2, <2>3 DEF ProjectionPasses, ExpectedId, Unformatted

LEMMA HeldByIs ==
  ASSUME ContractInv, current # 0, NEW r \in Manifest
  PROVE  HeldBy(r) = IF r \in RelationsIn(Manifest)
                     THEN {ValueId(r, v) : v \in Says[r].values} ELSE {}
<1> DEFINE node == [id |-> NavigationId(r), revision |-> r, release |-> current,
                    format |-> Format]
<1>1. NodesOf(r) = {node}
  BY ActiveGraph DEF NodesOf, NewNodes
<1>2. HeldBy(r) = {h.value : h \in {g \in NewHolds(Manifest) : g.node = NavigationId(r)}}
  BY <1>1, ActiveGraph DEF HeldBy
<1>3. \A h : h \in NewHolds(Manifest) <=>
        \E q \in RelationsIn(Manifest) : \E v \in Says[q].values :
           h = [node |-> NavigationId(q), value |-> ValueId(q, v)]
  BY DEF NewHolds
<1>4. ASSUME NEW h \in NewHolds(Manifest), h.node = NavigationId(r)
      PROVE  /\ r \in RelationsIn(Manifest)
             /\ \E v \in Says[r].values : h.value = ValueId(r, v)
  <2>1. PICK q \in RelationsIn(Manifest) : \E v \in Says[q].values :
           h = [node |-> NavigationId(q), value |-> ValueId(q, v)]
    BY <1>3
  <2>2. q \in Manifest /\ NavigationId(q) = NavigationId(r)
    BY <1>4, <2>1 DEF RelationsIn
  <2>3. q = r
    BY <2>2, IdsAreOwn
  <2> QED
    BY <2>1, <2>3
<1>5. ASSUME r \in RelationsIn(Manifest), NEW v \in Says[r].values
      PROVE  \E h \in NewHolds(Manifest) : h.node = NavigationId(r) /\ h.value = ValueId(r, v)
  <2> DEFINE h == [node |-> NavigationId(r), value |-> ValueId(r, v)]
  <2>1. h \in NewHolds(Manifest)
    BY <1>3, <1>5
  <2>2. h.node = NavigationId(r) /\ h.value = ValueId(r, v)
    OBVIOUS
  <2> HIDE DEF h
  <2> QED
    BY <2>1, <2>2
<1>6. CASE r \in RelationsIn(Manifest)
  <2> DEFINE own == {ValueId(r, v) : v \in Says[r].values}
  <2>1. ASSUME NEW x \in HeldBy(r) PROVE x \in own
    <3>1. PICK h \in NewHolds(Manifest) : h.node = NavigationId(r) /\ x = h.value
      BY <1>2
    <3> QED
      BY <1>4, <3>1
  <2>2. ASSUME NEW x \in own PROVE x \in HeldBy(r)
    <3>1. PICK v \in Says[r].values : x = ValueId(r, v)
      OBVIOUS
    <3>2. PICK h \in NewHolds(Manifest) : h.node = NavigationId(r) /\ h.value = ValueId(r, v)
      BY <1>5, <1>6
    <3> QED
      BY <1>2, <3>1, <3>2
  <2> HIDE DEF own
  <2>3. HeldBy(r) = own
    BY <2>1, <2>2
  <2> QED
    BY <1>6, <2>3 DEF own
<1>7. CASE r \notin RelationsIn(Manifest)
  BY <1>2, <1>4, <1>7
<1> QED
  BY <1>6, <1>7

LEMMA ValuesAreExpected ==
  ASSUME ContractInv, current # 0, NEW r \in RelationsIn(Manifest)
  PROVE  {v \in graph.values : v.id \in HeldBy(r)} = ExpectedValues(r)
<1> DEFINE value(q, v) == [id |-> ValueId(q, v), sure |-> v.sure]
<1>1. HeldBy(r) = {ValueId(r, v) : v \in Says[r].values}
  BY HeldByIs DEF RelationsIn
<1>2. \A x : x \in graph.values <=>
        \E q \in RelationsIn(Manifest) : \E v \in Says[q].values : x = value(q, v)
  BY ActiveGraph DEF NewValues
<1>3. ASSUME NEW x \in graph.values, x.id \in HeldBy(r)
      PROVE  x \in ExpectedValues(r)
  <2>1. PICK v \in Says[r].values : x.id = ValueId(r, v)
    BY <1>1, <1>3
  <2>2. value(r, v) \in graph.values /\ value(r, v).id = x.id
    BY <1>2, <2>1
  <2>3. x = value(r, v)
    BY <2>2, ActiveGraph DEF Agree
  <2> QED
    BY <2>3 DEF ExpectedValues
<1>4. ASSUME NEW x \in ExpectedValues(r)
      PROVE  x \in graph.values /\ x.id \in HeldBy(r)
  <2>1. PICK v \in Says[r].values : x = value(r, v)
    BY DEF ExpectedValues
  <2> QED
    BY <1>1, <1>2, <2>1
<1> QED
  BY <1>3, <1>4
-----------------------------------------------------------------------------

LEMMA EndsAreSupported ==
  ASSUME ContractInv, current # 0, NEW r \in LiteralsIn(Manifest) \cup RelationsIn(Manifest)
  PROVE  /\ Supported(Manifest, Says[r].on, Says[r].entity)
         /\ r \in RelationsIn(Manifest) => Supported(Manifest, Says[r].onTo, Says[r].to)
<1>1. Manifest \subseteq DOMAIN Says /\ Closed(Manifest)
  BY ManifestType DEF ContractInv, MeetsContract
<1>2. r \in DOMAIN Says /\ Says[r].kind \in {"literal", "relation"}
  BY <1>1 DEF LiteralsIn, RelationsIn
<1>3. Says[r].on \in Manifest
  BY <1>1 DEF Closed
<1>4. Supported(Manifest, Says[r].on, Says[r].entity)
  BY <1>1, <1>2, <1>3, ContractAssumption DEF Supported, MentionsIn
<1>5. ASSUME r \in RelationsIn(Manifest)
      PROVE  Supported(Manifest, Says[r].onTo, Says[r].to)
  BY <1>1, <1>5, ContractAssumption DEF Closed, Supported, MentionsIn, RelationsIn
<1> QED
  BY <1>4, <1>5

LEMMA RelationsPass ==
  ASSUME ContractInv, current # 0, NEW r \in RelationsIn(Manifest)
  PROVE  RelationPasses(Manifest, r)
<1>1. Relates(r) /\ ValuesKept(r)
  BY DEF ContractInv, MeetsContract
<1>2. /\ Says[r].entity.type \in RelationContract[Says[r].name].from
      /\ Says[r].to.type \in RelationContract[Says[r].name].into
  BY <1>1 DEF Relates
<1> QED
  BY <1>1, <1>2, EndsAreSupported, ValuesAreExpected DEF RelationPasses

LEMMA LiteralsPass ==
  ASSUME ContractInv, current # 0, NEW r \in LiteralsIn(Manifest)
  PROVE  LiteralPasses(Manifest, r) <=> ~Untyped(r)
<1>1. Says[r].kind = "literal" /\ r \in Manifest
  BY DEF LiteralsIn
<1>2. Says[r].typed <=> ~Untyped(r)
  BY <1>1 DEF Untyped
<1>3. LiteralDeclared(r)
  BY DEF ContractInv, MeetsContract
<1>4. HeldBy(r) = {}
  BY <1>1, HeldByIs DEF RelationsIn
<1> QED
  BY <1>2, <1>3, <1>4, EndsAreSupported DEF LiteralPasses

LEMMA AuditedAreOfManifest ==
  ASSUME ContractInv, current # 0
  PROVE  AuditedEntities(Manifest) = EntitiesIn(Manifest)
<1>1. \A x \in graph.entities : \E r \in Manifest : x.entity = Says[r].entity
  BY ActiveGraph DEF MentionsIn
<1> QED
  BY <1>1 DEF AuditedEntities, EntitiesIn

LEMMA EntitiesPass ==
  ASSUME ContractInv, current # 0, NEW e \in AuditedEntities(Manifest)
  PROVE  EntityPasses(Manifest, e)
         <=> \A f \in EntitiesIn(Manifest) : SameFolded(e, f) => f = e
<1>1. e \in EntitiesIn(Manifest) /\ Manifest \subseteq DOMAIN Says
  BY AuditedAreOfManifest, ManifestType
<1>2. EntityKept(Manifest, e)
  BY <1>1 DEF ContractInv, MeetsContract
<1>3. \E r \in MentionsIn(Manifest) : Says[r].entity = e
  <2>1. CASE \E r \in Manifest : e = Says[r].entity
    <3>1. PICK r \in Manifest : e = Says[r].entity
      BY <2>1
    <3>2. Says[r].kind \in {"mention", "literal", "relation"}
      BY <1>1, ContractAssumption
    <3>3. r \in MentionsIn(Manifest) \/ r \in LiteralsIn(Manifest) \cup RelationsIn(Manifest)
      BY <3>2 DEF MentionsIn, LiteralsIn, RelationsIn
    <3> QED
      BY <3>1, <3>3, EndsAreSupported DEF Supported
  <2>2. CASE \E r \in RelationsIn(Manifest) : e = Says[r].to
    BY <2>2, EndsAreSupported DEF Supported
  <2> QED
    BY <1>1, <2>1, <2>2 DEF EntitiesIn
<1>4. [entity |-> e, release |-> current] \in graph.entities
  BY <1>3, ActiveGraph
<1> QED
  BY <1>2, <1>3, <1>4, AuditedAreOfManifest DEF EntityPasses, EntityKept

LEMMA BijectionCounts ==
  ASSUME NEW P, IsFiniteSet(P), NEW T, NEW f \in Bijection(P, T)
  PROVE  Cardinality(T) = Cardinality(P)
<1>1. ExistsBijection(P, T)
  BY DEF ExistsBijection
<1> QED
  BY <1>1, FS_Bijection

\* Pairs with one end in common are as many as their other ends.
LEMMA PairsFrom ==
  ASSUME NEW P, IsFiniteSet(P), NEW e
  PROVE  Cardinality({<<e, t>> : t \in P}) = Cardinality(P)
<1>1. [t \in P |-> <<e, t>>] \in Bijection(P, {<<e, t>> : t \in P})
  BY DEF Bijection, Injection, Surjection, IsInjective
<1> QED
  BY <1>1, BijectionCounts

LEMMA PairsInto ==
  ASSUME NEW P, IsFiniteSet(P), NEW e
  PROVE  Cardinality({<<t, e>> : t \in P}) = Cardinality(P)
<1>1. [t \in P |-> <<t, e>>] \in Bijection(P, {<<t, e>> : t \in P})
  BY DEF Bijection, Injection, Surjection, IsInjective
<1> QED
  BY <1>1, BijectionCounts

LEMMA PartnersFinite ==
  ASSUME NEW m \in SUBSET DOMAIN Says, NEW name, NEW e
  PROVE  IsFiniteSet(Partners(m, name, e)) /\ IsFiniteSet(Owners(m, name, e))
<1> DEFINE from == {q \in RelationsIn(m) : Says[q].name = name /\ Says[q].entity = e}
           into == {q \in RelationsIn(m) : Says[q].name = name /\ Says[q].to = e}
           f == [r \in from |-> Says[r].to]
           g == [r \in into |-> Says[r].entity]
<1>1. from \subseteq DOMAIN Says /\ into \subseteq DOMAIN Says
  BY DEF RelationsIn
<1>2. IsFiniteSet(from) /\ IsFiniteSet(into)
  BY <1>1, ContractAssumption, FS_Subset
<1>3. f \in Surjection(from, Partners(m, name, e)) /\ g \in Surjection(into, Owners(m, name, e))
  BY DEF Surjection, Partners, Owners
<1> HIDE DEF from, into, f, g
<1> QED
  BY <1>2, <1>3, FS_Surjection
LEMMA EndsPassed ==
  ASSUME ContractInv, current # 0, NEW name \in DOMAIN RelationContract
  PROVE  EndsPass(Manifest, name)
<1> DEFINE contract == RelationContract[name]
           edges == Edges(Manifest, name)
           pairs == {x \in edges : x[1].type \in contract.from /\ x[2].type \in contract.into}
<1>1. ASSUME NEW x
      PROVE  x \in edges <=> \E r \in RelationsIn(Manifest) :
                Says[r].name = name /\ x = <<Says[r].entity, Says[r].to>>
  BY DEF Edges
<1>2. ASSUME NEW r \in RelationsIn(Manifest), Says[r].name = name
      PROVE  Says[r].entity.type \in contract.from /\ Says[r].to.type \in contract.into
  BY <1>2 DEF ContractInv, MeetsContract, Relates
<1>3. pairs = edges
  BY <1>1, <1>2
<1>4. ASSUME NEW e
      PROVE  /\ {x \in edges : x[1] = e} = {<<e, t>> : t \in Partners(Manifest, name, e)}
             /\ {x \in edges : x[2] = e} = {<<t, e>> : t \in Owners(Manifest, name, e)}
  BY <1>1 DEF Partners, Owners
<1>5. ASSUME NEW e
      PROVE  /\ Cardinality({x \in pairs : x[1] = e}) = Cardinality(Partners(Manifest, name, e))
             /\ Cardinality({x \in pairs : x[2] = e}) = Cardinality(Owners(Manifest, name, e))
  <2>1. Manifest \in SUBSET DOMAIN Says
    BY ManifestType
  <2>2. IsFiniteSet(Partners(Manifest, name, e)) /\ IsFiniteSet(Owners(Manifest, name, e))
    BY <2>1, PartnersFinite
  <2>3. /\ Cardinality({<<e, t>> : t \in Partners(Manifest, name, e)})
              = Cardinality(Partners(Manifest, name, e))
        /\ Cardinality({<<t, e>> : t \in Owners(Manifest, name, e)})
              = Cardinality(Owners(Manifest, name, e))
    <3>1. \A P : IsFiniteSet(P) => Cardinality({<<e, t>> : t \in P}) = Cardinality(P)
      BY PairsFrom
    <3>2. \A P : IsFiniteSet(P) => Cardinality({<<t, e>> : t \in P}) = Cardinality(P)
      BY PairsInto
    <3> QED
      BY <2>2, <3>1, <3>2
  <2>4. /\ {x \in pairs : x[1] = e} = {<<e, t>> : t \in Partners(Manifest, name, e)}
        /\ {x \in pairs : x[2] = e} = {<<t, e>> : t \in Owners(Manifest, name, e)}
    <3> HIDE DEF pairs, edges
    <3> QED
      BY <1>3, <1>4
  <2> QED
    BY <2>3, <2>4
<1>6. LeavingKept(Manifest, name) /\ ArrivingKept(Manifest, name)
  BY DEF ContractInv, MeetsContract, EndsKept
<1> HIDE DEF pairs
<1>7. ASSUME NEW e \in AuditedEntities(Manifest)
      PROVE  /\ e.type \in contract.from =>
                   Bounded(Cardinality({x \in pairs : x[1] = e}), contract.mustLeave,
                           contract.oneLeaves)
             /\ e.type \in contract.into =>
                   Bounded(Cardinality({x \in pairs : x[2] = e}), contract.mustArrive,
                           contract.oneArrives)
  <2>1. e \in EntitiesIn(Manifest)
    BY AuditedAreOfManifest
  <2> QED
    BY <1>5, <1>6, <2>1 DEF LeavingKept, ArrivingKept
<1> QED
  BY <1>7 DEF EndsPass, pairs

LEMMA NodesOnFinite ==
  ASSUME NEW m \in SUBSET DOMAIN Says, NEW name
  PROVE  IsFiniteSet(NodesOn(Edges(m, name)))
<1> DEFINE f == [r \in m |-> Says[r].entity]
           g == [r \in m |-> Says[r].to]
           from == {f[r] : r \in m}
           into == {g[r] : r \in m}
<1>1. IsFiniteSet(m)
  BY ContractAssumption, FS_Subset
<1>2. f \in Surjection(m, from) /\ g \in Surjection(m, into)
  BY DEF Surjection
<1>3. NodesOn(Edges(m, name)) \subseteq from \cup into
  BY DEF NodesOn, Edges, RelationsIn
<1> HIDE DEF f, g, from, into
<1>4. IsFiniteSet(from \cup into)
  BY <1>1, <1>2, FS_Surjection, FS_Union
<1> QED
  BY <1>3, <1>4, FS_Subset

LEMMA NoCycles ==
  ASSUME ContractInv, current # 0, NEW name \in Hierarchies, NEW x \in Edges(Manifest, name)
  PROVE  ~Reaches(Edges(Manifest, name), x[2], x[1])
<1>1. Acyclic(Edges(Manifest, name))
  BY DEF ContractInv, MeetsContract
<1>2. IsFiniteSet(NodesOn(Edges(Manifest, name)))
  BY ManifestType, NodesOnFinite
<1>3. \A e \in Edges(Manifest, name) : e = <<e[1], e[2]>>
  BY DEF Edges
<1> QED
  BY <1>1, <1>2, <1>3, AcyclicGoesNowhere

(* Whatever is published, carried over, taken out or restored, the audit   *)
(* of the active release objects to its untyped literals, its assertions   *)
(* of the earlier format and its entities whose types and keys differ in   *)
(* case only, and otherwise agrees with the gate that let it in            *)
(* (published_quality.py).  And no hierarchy has a cycle.                  *)
THEOREM ReleasesPassAudits == ContractSpec => []ReleasePassesAudit
<1>1. ContractInit => ContractInv
  BY ContractStarts
<1>2. ContractInv /\ [ContractNext]_contractVars => ContractInv'
  BY ContractKept
<1>3. ContractInv => ReleasePassesAudit
  BY ProjectionsPass, RelationsPass, LiteralsPass, EntitiesPass, EndsPassed, NoCycles
  DEF ReleasePassesAudit
<1> QED
  BY <1>1, <1>2, <1>3, PTL DEF ContractSpec
=============================================================================
