---------------------------- MODULE GraphBrowsing ----------------------------
(***************************************************************************)
(* A walk through the pages of the published graph (graph/browsing.py,     *)
(* graph/view_tokens.py).                                                  *)
(*                                                                         *)
(* Every request loads the whole view that the reader is authorized for,   *)
(* reads it twice between two looks at the pin, and compares pin and       *)
(* digest with those that the client's token claims.  The order of the     *)
(* entries is the server's; a cursor says after which one to go on.        *)
(*                                                                         *)
(* A view is its mentions and its assertions, each of which cites a chunk. *)
(* EntryOf is the place of a record's entry in the display order: the      *)
(* revisions of one relationship share an entry.                           *)
(***************************************************************************)
EXTENDS PublishedCorpus, Sequences

CONSTANTS
    Mentions, Assertions,
    Publishes,  \* the records of a publication
    Cites,      \* the chunk a record cites
    SeedOf,     \* the mention an assertion is reached by
    EntryOf,    \* the place of a record's entry
    PageSize    \* query.page_size

ASSUME BrowsingAssumption ==
    /\ Publishes \in [Releases -> SUBSET (Mentions \cup Assertions)]
    /\ Cites \in [Mentions \cup Assertions -> Chunks]
    /\ SeedOf \in [Assertions -> Mentions]
    /\ EntryOf \in [Mentions \cup Assertions -> Nat \ {0}]
    \* the rows join an assertion to its subject's mention in the same chunk
    /\ \A p \in Releases : \A f \in Publishes[p] \cap Assertions :
          \E m \in Publishes[p] \cap Mentions : Cites[m] = Cites[f]
    /\ PageSize \in Nat \ {0}

VARIABLES
    stage,  \* what the server does next
    asking, \* for a page or for evidence
    view,   \* what it has read: the pin, the mentions and the assertions
    token,  \* the claims of the client's view token
    cursor, \* the place after which the client wants to go on
    pages,  \* the entries of the pages the client has received
    walked, \* whether it was told that there are no more
    second  \* history: the view at the beginning of the second reading

clientVars == <<asking, token, cursor, pages, walked>>
browsingVars == <<corpusVars, stage, view, clientVars, second>>

EmptyView == [pin |-> NoPin, mentions |-> {}, assertions |-> {}]

\* The rows the queries return.
Served(records) ==
    {r \in records : /\ release # NoRelease
                     /\ r \in Publishes[release] /\ Cites[r] \in SourcesOf[release]
                     /\ Cites[r] \in readable}

Now == [pin |-> Pin, mentions |-> Served(Mentions), assertions |-> Served(Assertions)]

BrowsingInit ==
    /\ CorpusInit
    /\ stage = "idle" /\ asking = "page"
    /\ view = EmptyView /\ second = EmptyView
    /\ token = EmptyView /\ cursor = 0 /\ pages = <<>> /\ walked = FALSE

-----------------------------------------------------------------------------
(* The client                                                              *)

\* No token yet, or one that the server does not know any more.
Fresh == cursor = 0 /\ pages = <<>>

\* Repairs of access are counted from the beginning of a request.
Ask ==
    /\ stage' = "pin" /\ repairs' = 0
    /\ UNCHANGED <<revision, indexed, lastIndex, release, activation, readable>>

AskPage ==
    /\ stage = "idle" /\ ~walked
    /\ asking' = "page" /\ Ask
    /\ UNCHANGED <<view, token, cursor, pages, walked, second>>

AskEvidence ==
    /\ stage = "idle" /\ ~Fresh
    /\ asking' = "evidence" /\ Ask
    /\ UNCHANGED <<view, token, cursor, pages, walked, second>>

\* The view has changed, or the token expired: the client begins again.
StartOver ==
    /\ stage' = "idle" /\ view' = EmptyView
    /\ token' = EmptyView /\ cursor' = 0 /\ pages' = <<>> /\ walked' = FALSE
    /\ UNCHANGED <<corpusVars, asking, second>>

ForgetToken == stage = "idle" /\ ~Fresh /\ StartOver

-----------------------------------------------------------------------------
(* _load_tx                                                                *)

ReadPin ==
    /\ stage = "pin"
    /\ view' = [EmptyView EXCEPT !.pin = Pin]
    /\ stage' = IF release = NoRelease THEN "confirm" ELSE "mentions"
    /\ second' = IF release = NoRelease THEN Now ELSE second
    /\ UNCHANGED <<corpusVars, clientVars>>

ReadMentions ==
    /\ stage = "mentions"
    /\ view' = [view EXCEPT !.mentions = IF release = view.pin.release
                                         THEN Served(Mentions) ELSE {}]
    /\ stage' = "assertions"
    /\ UNCHANGED <<corpusVars, clientVars, second>>

ReadAssertions ==
    /\ stage = "assertions"
    /\ view' = [view EXCEPT !.assertions = IF release = view.pin.release
                                           THEN Served(Assertions) ELSE {}]
    /\ stage' = "mentions again"
    /\ UNCHANGED <<corpusVars, clientVars, second>>

\* Mutant: what was read first is taken to be what is there.
RereadNothing(field, records) == TRUE

\* A second reading of the rows finds what the first found.
Reread(field, records) ==
    view[field] = IF release = view.pin.release THEN Served(records) ELSE {}

RereadMentions ==
    /\ stage = "mentions again"
    /\ IF Reread("mentions", Mentions)
       THEN /\ stage' = "assertions again" /\ second' = Now
            /\ UNCHANGED <<corpusVars, view, clientVars>>
       ELSE StartOver

RereadAssertions ==
    /\ stage = "assertions again"
    /\ IF Reread("assertions", Assertions)
       THEN stage' = "confirm" /\ UNCHANGED <<corpusVars, view, clientVars, second>>
       ELSE StartOver

\* Every assertion comes with the mention it was reached by.
Seeded == \A r \in view.assertions : SeedOf[r] \in view.mentions

ConfirmPin ==
    /\ stage = "confirm"
    /\ IF view.pin = Pin /\ Seeded
       THEN stage' = "loaded" /\ UNCHANGED <<corpusVars, view, clientVars, second>>
       ELSE StartOver

-----------------------------------------------------------------------------
(* query and evidence                                                      *)

\* Mutant: the digest of the view is not part of the claims.
ClaimedPin == Fresh \/ token.pin = view.pin

\* The token's claims are those of the view that was loaded.
Claimed == Fresh \/ token = view

Changed ==
    /\ stage = "loaded" /\ ~Claimed
    /\ StartOver

Entries(v) == {EntryOf[r] : r \in v.mentions \cup v.assertions}

\* What remains after the cursor.
Remaining == {e \in Entries(view) : e > cursor}

\* A page is a beginning of it that ends at its size, or earlier at the bound on
\* nodes or edges; none is empty while something remains.
Page(entries) ==
    /\ \A e \in entries, f \in Remaining : f <= e => f \in entries
    /\ Cardinality(entries) <= PageSize
    /\ entries = {} => Remaining = {}

ReceivePage(entries) ==
    /\ stage = "loaded" /\ asking = "page" /\ Claimed
    /\ entries \subseteq Remaining /\ Page(entries)
    /\ pages' = Append(pages, entries)
    /\ \/ entries = {} /\ cursor' = cursor
       \/ \E last \in entries : (\A e \in entries : e <= last) /\ cursor' = last
    /\ walked' = (entries = Remaining)
    /\ token' = view
    /\ stage' = "idle" /\ view' = EmptyView
    /\ UNCHANGED <<corpusVars, asking, second>>

\* The response is lost: the client asks with its old cursor again.
LoseResponse ==
    /\ stage = "loaded" /\ Claimed
    /\ stage' = "idle" /\ view' = EmptyView
    /\ UNCHANGED <<corpusVars, clientVars, second>>

ReceiveEvidence ==
    /\ stage = "loaded" /\ asking = "evidence" /\ Claimed
    /\ stage' = "idle" /\ view' = EmptyView
    /\ UNCHANGED <<corpusVars, clientVars, second>>

-----------------------------------------------------------------------------

Browser ==
    \/ AskPage \/ AskEvidence \/ ForgetToken
    \/ ReadPin \/ ReadMentions \/ ReadAssertions \/ RereadMentions \/ RereadAssertions
    \/ ConfirmPin \/ Changed \/ LoseResponse \/ ReceiveEvidence
    \/ \E entries \in SUBSET Entries(view) : ReceivePage(entries)

BrowsingNext ==
    \/ /\ CorpusMoves \/ \E next \in SUBSET Chunks : RepairAccess(next)
       /\ UNCHANGED <<stage, view, clientVars, second>>
    \/ Browser

BrowsingSpec == BrowsingInit /\ [][BrowsingNext]_browsingVars

-----------------------------------------------------------------------------

(* The pages of a walk that came to its end hold every entry of one view   *)
(* once and in its order: none is skipped, repeated or taken from another  *)
(* view, whatever changes meanwhile and however often a response is lost.  *)
WalkIsWhole ==
    walked => /\ UNION {pages[i] : i \in DOMAIN pages} = Entries(token)
              /\ \A i, j \in DOMAIN pages : i < j => \A e \in pages[i], f \in pages[j] : e < f

(* What is handed out was the whole authorized view at one instant of the  *)
(* second reading, also if access is repaired without a new revision.  A   *)
(* third repair within the request can hide from the double reading: then  *)
(* the pin and the mentions are of that instant, the assertions of others. *)
ViewIsOfOneInstant ==
    [][stage = "confirm" /\ stage' = "loaded" =>
          /\ view.pin = second.pin /\ view.mentions = second.mentions
          /\ repairs <= 2 => view = second]_browsingVars
=============================================================================
