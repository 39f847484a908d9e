-------------------------- MODULE GovernedRetrieval --------------------------
(***************************************************************************)
(* One retrieval or one answer (retrieval/engine.py, generation/service.py *)
(* and the handlers of api/backend.py).                                    *)
(*                                                                         *)
(* A retrieval captures the state of the corpus, asks one query after      *)
(* another, each of which checks that state for itself and is empty        *)
(* otherwise, and compares the state again.  A reranker and the answer     *)
(* model are asked outside any transaction.  Scores, ranks, limits and     *)
(* excerpts are left out: Near, Lexical, Linked and NextTo are what the    *)
(* recall finds in a corpus that is all visible, and the membership guard  *)
(* of a publication always holds.                                          *)
(***************************************************************************)
EXTENDS PublishedCorpus

CONSTANTS
    Near,      \* what the vector recall finds
    Lexical,   \* what the full text index finds
    Linked,    \* the chunks that share an entity with a chunk
    NextTo,    \* its neighbours in the snapshot
    DocOf,     \* the document of a chunk
    Unlabelled \* a citation label the context does not have

ASSUME RetrievalAssumption ==
    /\ Near \subseteq Chunks /\ Lexical \subseteq Chunks
    /\ Linked \in [Chunks -> SUBSET Chunks] /\ NextTo \in [Chunks -> SUBSET Chunks]
    /\ Unlabelled \notin Chunks

VARIABLES
    request,  \* what is asked for: an answer or a retrieval, reranked or not
    step,     \* the next thing the call does
    pin,      \* the captured state, and the index
    seeds,    \* the hits of vector and full text recall
    todo,     \* seeds whose entities are not expanded yet
    ranked,   \* the candidates, and once ranked the ranking
    context,  \* the hydrated chunks, and in the end those of the result
    rows,     \* the chunks with the rows of the projected graph, by kind
    captures,  \* how often the state was captured
    asked,    \* how often a paid provider was asked: reranker, model
    cited,    \* the chunks an answer cites
    told      \* what the client is told

readerVars == <<request, step, pin, seeds, todo, ranked, context, rows,
                captures, asked, cited, told>>
retrievalVars == <<corpusVars, readerVars>>

MaxCaptures == 2   \* _CORPUS_STATE_ATTEMPTS

Kinds == {"assertion", "mention"}
Requests == [answer : BOOLEAN, rerank : BOOLEAN]
State == [pin |-> Pin, index |-> indexed]

ReaderInit ==
    /\ step = "capture" /\ pin = [pin |-> NoPin, index |-> 0]
    /\ seeds = {} /\ todo = {} /\ ranked = {} /\ context = {}
    /\ rows = [k \in Kinds |-> {}]
    /\ captures = 1 /\ asked = [rerank |-> 0, model |-> 0]
    /\ cited = {} /\ told = "none"

RetrievalInit == CorpusInit /\ request \in Requests /\ ReaderInit

\* Mutant: the activation generation is not part of what is compared.
SameRelease == /\ pin.index = indexed
               /\ pin.pin.revision = revision /\ pin.pin.release = release

\* The state is what was captured.
Same == pin = State

\* A query that finds another state finds nothing.
Asked(hits) == IF pin = State THEN hits \cap Visible ELSE {}

Go(next) == step' = next /\ UNCHANGED <<request, pin, rows, captures, asked, cited, told>>

Fail(reason) ==
    /\ told' = reason /\ step' = "done"
    /\ context' = {} /\ cited' = {}
    /\ UNCHANGED <<request, pin, seeds, todo, ranked, rows, captures, asked>>

-----------------------------------------------------------------------------
(* The retrieval transaction                                               *)

Capture ==
    /\ step = "capture"
    /\ pin' = State
    /\ seeds' = {} /\ todo' = {} /\ ranked' = {} /\ context' = {}
    /\ \/ indexed = 0 /\ release = NoRelease /\ step' = "unpublished" /\ UNCHANGED told
       \/ indexed = 0 /\ release # NoRelease /\ step' = "done" /\ told' = "unavailable"
       \/ indexed > 0 /\ step' = "vector" /\ UNCHANGED told
    /\ UNCHANGED <<corpusVars, request, rows, captures, asked, cited>>

\* Nothing is published: no source is read instead.
Unpublished ==
    /\ step = "unpublished"
    /\ IF Same THEN Go("found") ELSE Go("changed")
    /\ UNCHANGED <<corpusVars, seeds, todo, ranked, context>>

VectorRecall ==
    /\ step = "vector"
    /\ seeds' = Asked(Near)
    /\ Go("lexical") /\ UNCHANGED <<corpusVars, todo, ranked, context>>

LexicalRecall ==
    /\ step = "lexical"
    /\ ranked' = Asked(Lexical)
    /\ seeds' = seeds \cup ranked' /\ todo' = seeds'
    /\ Go("expand") /\ UNCHANGED <<corpusVars, context>>

\* The seeds are expanded one after the other.
Expand(c) ==
    /\ step = "expand" /\ c \in todo
    /\ todo' = todo \ {c}
    /\ context' = context \cup Asked(IF c \in Visible THEN Linked[c] ELSE {})
    /\ Go("expand") /\ UNCHANGED <<corpusVars, seeds, ranked>>

\* The candidates are ranked by their vectors and the full text's ranks.
RankCandidates ==
    /\ step = "expand" /\ todo = {}
    /\ ranked' = ranked \cup Asked(seeds \cup context)
    /\ Go("adjacent") /\ UNCHANGED <<corpusVars, seeds, todo, context>>

Neighbours(anchors) == UNION {NextTo[c] : c \in anchors}

Adjacent ==
    /\ step = "adjacent"
    /\ context' = ranked \cup Asked(Neighbours(ranked \cap Visible))
    /\ Go("hydrate") /\ UNCHANGED <<corpusVars, seeds, todo, ranked>>

Hydrate ==
    /\ step = "hydrate"
    /\ context' = Asked(context)
    /\ ranked' = ranked \cap context'
    /\ Go("confirm") /\ UNCHANGED <<corpusVars, seeds, todo>>

Confirm ==
    /\ step = "confirm"
    /\ IF Same THEN Go("found") ELSE Go("changed")
    /\ UNCHANGED <<corpusVars, seeds, todo, ranked, context>>

\* The state changed under the transaction: once more, or give up.
Again ==
    /\ step = "changed"
    /\ IF captures = MaxCaptures THEN Fail("unavailable")
       ELSE /\ step' = "capture" /\ captures' = captures + 1
            /\ UNCHANGED <<request, pin, seeds, todo, ranked, context, rows, asked, cited, told>>
    /\ UNCHANGED corpusVars

-----------------------------------------------------------------------------
(* Reranking: the provider is asked once, outside any transaction; then    *)
(* everything it saw and everything the result shows is read again.        *)

AskReranker ==
    /\ step = "found" /\ request.rerank /\ ranked # {}
    /\ asked' = [asked EXCEPT !.rerank = @ + 1]
    /\ step' = "ranked" \/ step' = "refused"
    /\ UNCHANGED <<corpusVars, request, pin, seeds, todo, ranked, context,
                   rows, captures, cited, told>>

\* A provider that fails, or answers for other candidates.
RerankingFails ==
    /\ step = "refused"
    /\ Fail("unavailable") /\ UNCHANGED corpusVars

CheckState(here, next) ==
    /\ step = here
    /\ IF Same
       THEN Go(next) /\ UNCHANGED <<seeds, todo, ranked, context>>
       ELSE Fail("changed")
    /\ UNCHANGED corpusVars

\* Whatever the result shows must still be there.
CheckShown ==
    /\ step = "reread"
    /\ IF Asked(seeds \cup ranked \cup context) = seeds \cup ranked \cup context
       THEN Go("neighbours") /\ UNCHANGED <<seeds, todo, ranked, context>>
       ELSE Fail("changed")
    /\ UNCHANGED corpusVars

FindNeighbours ==
    /\ step = "neighbours"
    /\ context' = ranked \cup Asked(Neighbours(ranked \cap Visible))
    /\ Go("rehydrate") /\ UNCHANGED <<corpusVars, seeds, todo, ranked>>

Rehydrate ==
    /\ step = "rehydrate"
    /\ IF Asked(context \ ranked) = context \ ranked
       THEN Go("reconfirm") /\ UNCHANGED <<seeds, todo, ranked, context>>
       ELSE Fail("changed")
    /\ UNCHANGED corpusVars

Rerank ==
    \/ AskReranker \/ RerankingFails
    \/ CheckState("ranked", "reread") \/ CheckShown \/ FindNeighbours \/ Rehydrate
    \/ CheckState("reconfirm", "result")

\* Without a reranker, or with nothing for it to rank.
NothingToRerank ==
    /\ step = "found" /\ (~request.rerank \/ ranked = {})
    /\ Go("result") /\ UNCHANGED <<corpusVars, seeds, todo, ranked, context>>

-----------------------------------------------------------------------------
(* The answer, or the subgraph of a retrieval                              *)

DeliverResult ==
    /\ step = "result" /\ ~request.answer
    /\ told' = "retrieved" /\ step' = "done"
    /\ UNCHANGED <<corpusVars, request, pin, seeds, todo, ranked, context,
                   rows, captures, asked, cited>>

\* The graph of the result's chunks is read under the result's own pin.
ProjectGraph ==
    /\ step = "result" /\ ~request.answer /\ context # {}
    /\ Go("pin 1") /\ UNCHANGED <<corpusVars, seeds, todo, ranked, context>>

CheckPin(here, next) ==
    /\ step = here
    /\ IF pin.pin = Pin
       THEN Go(next) /\ UNCHANGED <<seeds, todo, ranked, context>>
       ELSE Fail("changed")
    /\ UNCHANGED corpusVars

\* The rows of the graph: assertions, then mentions, and both again.
ReadRows(here, kind, next) ==
    /\ step = here
    /\ rows' = [rows EXCEPT ![kind] = IF release = pin.pin.release THEN Visible ELSE {}]
    /\ step' = next
    /\ UNCHANGED <<corpusVars, request, pin, seeds, todo, ranked, context, captures,
                   asked, cited, told>>

RereadRows(here, kind, next) ==
    /\ step = here
    /\ IF rows[kind] = (IF release = pin.pin.release THEN Visible ELSE {})
       THEN Go(next) /\ UNCHANGED <<seeds, todo, ranked, context>>
       ELSE Fail("changed")
    /\ UNCHANGED corpusVars

\* The selected sources are open under the pinned publication.
CheckSelected(here, next) ==
    /\ step = here
    /\ IF release = pin.pin.release /\ context \subseteq Visible
       THEN Go(next) /\ UNCHANGED <<seeds, todo, ranked, context>>
       ELSE Fail("changed")
    /\ UNCHANGED corpusVars

DeliverGraph ==
    /\ step = "pin 2"
    /\ IF pin.pin = Pin
       THEN /\ told' = "graph" /\ step' = "done"
            /\ UNCHANGED <<request, pin, seeds, todo, ranked, context, rows, captures, asked, cited>>
       ELSE Fail("changed")
    /\ UNCHANGED corpusVars

Project ==
    \/ ProjectGraph \/ CheckPin("pin 1", "selected 1")
    \/ CheckSelected("selected 1", "rows 1")
    \/ ReadRows("rows 1", "assertion", "rows 2") \/ ReadRows("rows 2", "mention", "rows 3")
    \/ RereadRows("rows 3", "assertion", "rows 4")
    \/ RereadRows("rows 4", "mention", "selected 2")
    \/ CheckSelected("selected 2", "pin 2")
    \/ DeliverGraph

BeginAnswer ==
    /\ step = "result" /\ request.answer
    /\ Go("before 1") /\ UNCHANGED <<corpusVars, seeds, todo, ranked, context>>

\* The sources of the result, asked for twice between two looks at the state.
CheckSources(here, next) ==
    /\ step = here
    /\ IF Asked(context) = context
       THEN Go(next) /\ UNCHANGED <<seeds, todo, ranked, context>>
       ELSE Fail("changed")
    /\ UNCHANGED corpusVars

ValidateBefore ==
    \/ CheckState("before 1", "before 2") \/ CheckSources("before 2", "before 3")
    \/ CheckSources("before 3", "before 4") \/ CheckState("before 4", "ask")

\* What the model's output may cite to stand: labels of the context, from
\* two documents if it states a conflict.
Acceptable(labels, conflict) ==
    /\ labels # {} /\ labels \subseteq context
    /\ conflict => Cardinality({DocOf[c] : c \in labels}) > 1

\* An empty context is refused without the model; so is unsafe output.
Generate ==
    /\ step = "ask"
    /\ \/ context = {} /\ cited' = {} /\ UNCHANGED asked
       \/ /\ context # {}
          /\ asked' = [asked EXCEPT !.model = @ + 1]
          /\ \E labels \in SUBSET (context \cup {Unlabelled}), conflict \in BOOLEAN :
                cited' = IF Acceptable(labels, conflict) THEN labels ELSE {}
    /\ step' = "after 1"
    /\ UNCHANGED <<corpusVars, request, pin, seeds, todo, ranked, context, rows, captures, told>>

DeliverAnswer ==
    /\ step = "after 4"
    /\ IF Same
       THEN /\ told' = IF cited = {} THEN "refusal" ELSE "answered"
            /\ step' = "done"
            /\ UNCHANGED <<request, pin, seeds, todo, ranked, context, rows, captures, asked, cited>>
       ELSE Fail("changed")
    /\ UNCHANGED corpusVars

ValidateAfter ==
    \/ CheckState("after 1", "after 2") \/ CheckSources("after 2", "after 3")
    \/ CheckSources("after 3", "after 4") \/ DeliverAnswer

-----------------------------------------------------------------------------

Reader ==
    \/ Capture \/ Unpublished \/ VectorRecall \/ LexicalRecall
    \/ \E c \in Chunks : Expand(c)
    \/ RankCandidates \/ Adjacent \/ Hydrate \/ Confirm \/ Again
    \/ Rerank \/ NothingToRerank
    \/ DeliverResult \/ Project \/ BeginAnswer \/ ValidateBefore \/ Generate \/ ValidateAfter

RetrievalNext ==
    \/ CorpusMoves /\ step # "done" /\ UNCHANGED readerVars
    \/ Reader

RetrievalSpec == RetrievalInit /\ [][RetrievalNext]_retrievalVars

-----------------------------------------------------------------------------

\* What all queries together find in the corpus as it is at one instant.
Outcome ==
    LET hits  == (Near \cup Lexical) \cap Visible
        found == hits \cup ((UNION {Linked[c] : c \in hits}) \cap Visible)
    IN  found \cup (Neighbours(found) \cap Visible)

\* The last comparison of the state that a result went through.
Confirmed ==
    \/ step = "reconfirm" /\ step' = "result"
    \/ step \in {"unpublished", "confirm"} /\ step' = "found"
    \/ step = "after 4" /\ told' \in {"answered", "refusal"}
    \/ step = "pin 2" /\ told' = "graph"

(* A result is what one instant would have given, although every query     *)
(* sees the corpus of its own: when the state is compared for the last     *)
(* time, after the queries, after the reranker, after the projection and   *)
(* after the model, the chunks, the graph and what the answer cites are    *)
(* those of that instant.                                                  *)
OneInstant ==
    [][Confirmed => /\ context' = Outcome /\ cited' \subseteq Visible
                    /\ told' = "graph" => \A k \in Kinds : rows'[k] = Visible]_retrievalVars
=============================================================================
