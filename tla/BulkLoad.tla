------------------------------ MODULE BulkLoad ------------------------------
(***************************************************************************)
(* The offline initial load of one document (ingestion/bulk.py): a whole   *)
(* plan in one transaction under the lock on the corpus state.  The driver *)
(* runs the transaction again when it does not learn whether it was        *)
(* committed, so that a load may find itself done.                         *)
(*                                                                         *)
(* Of the rows of a plan the chunks with their access policies are kept    *)
(* apart; the others are artifacts, each a stable id and what an           *)
(* extraction made of it, which need not be the same twice.                *)
(***************************************************************************)
EXTENDS Naturals, FiniteSets

CONSTANTS
    Loads,       \* plans
    Contents,    \* snapshots
    NoContent,   \* no ACTIVE_SNAPSHOT
    LoadOf,      \* a plan: [content, number, expected, access]
    PiecesOf,    \* the chunks of a snapshot
    ArtifactsOf, \* its other rows, each of an id and a value
    Loaders      \* concurrent calls of ingest()

ASSUME BulkAssumption ==
    /\ NoContent \notin Contents
    /\ LoadOf \in [Loads -> [content : Contents, number : Nat,
                             expected : Contents \cup {NoContent},
                             access : [version : Nat \ {0}, groups : STRING]]]

VARIABLES
    mode,       \* state.lifecycle_mode
    loading,    \* the plan of each call
    shown,      \* the active snapshot
    number,     \* the number of the active version, 0 before the first
    built,      \* snapshot.build_state
    searchable, \* the chunks with a retrieval_scope
    access,     \* the document's access policy
    chunkAccess,\* the chunks'
    rows,       \* the artifacts that are stored
    highest     \* history: the highest version number that was active

bulkVars ==
    <<mode, loading, shown, number, built, searchable, access, chunkAccess, rows, highest>>

NoLoad == "none"
Open == [version |-> 0, groups |-> "none"]
AllPieces == UNION {PiecesOf[s] : s \in Contents}
AllArtifacts == UNION {ArtifactsOf[s] : s \in Contents}

BulkTypeOK ==
    /\ mode \in {"NONE", "OFFLINE_INITIAL_LOAD", "MANAGED_INCREMENTAL"}
    /\ loading \in [Loaders -> Loads \cup {NoLoad}]
    /\ shown \in Contents \cup {NoContent} /\ number \in Nat
    /\ built \in [Contents -> {"ABSENT", "PUBLISHED", "RETIRED"}]
    /\ searchable \subseteq AllPieces /\ rows \subseteq AllArtifacts

BulkInit ==
    /\ mode = "NONE" /\ loading = [w \in Loaders |-> NoLoad]
    /\ shown = NoContent /\ number = 0 /\ highest = 0
    /\ built = [s \in Contents |-> "ABSENT"]
    /\ searchable = {} /\ rows = {}
    /\ access = Open /\ chunkAccess = [c \in AllPieces |-> Open]

-----------------------------------------------------------------------------

CallLoad(w, l) ==
    /\ loading[w] = NoLoad
    /\ loading' = [loading EXCEPT ![w] = l]
    /\ UNCHANGED <<mode, shown, number, built, searchable, access, chunkAccess, rows,
                   highest>>

\* The policy in the plan is newer, or the same.
AccessAccepted(old, new) == new.version > old.version \/ new = old

\* Mutant: an older version may replace a newer one.
MayLoadOlder(p) == shown = p.expected /\ AccessAccepted(access, p.access)

MayLoad(p) ==
    /\ shown = p.expected
    /\ number <= p.number
    /\ AccessAccepted(access, p.access)
    /\ \A c \in PiecesOf[p.content] : AccessAccepted(chunkAccess[c], p.access)

\* Mutant: a row that is there is taken for the plan's.
CompatibleAlways(s) == TRUE

\* What is stored under the id of a row is that row.
Compatible(s) == \A a \in ArtifactsOf[s], b \in rows : a.id = b.id => a = b

\* A row is created unless its id exists.
RowsAfter(s) == rows \cup {a \in ArtifactsOf[s] : \A b \in rows : b.id # a.id}

\* Mutant: the chunks of the replaced snapshot stay searchable.
SearchableWith(s) == searchable \cup PiecesOf[s]

SearchableAfter(s) ==
    PiecesOf[s] \cup (searchable \ (IF shown = NoContent THEN {} ELSE PiecesOf[shown]))

\* The last answer was lost, and the driver runs the transaction again.
KeepsTrying(w) == UNCHANGED loading
Returns(w) == loading' = [loading EXCEPT ![w] = NoLoad]

Load(w) ==
    LET p == LoadOf[loading[w]]
    IN  /\ loading[w] # NoLoad /\ mode # "MANAGED_INCREMENTAL"
        /\ shown # p.content /\ MayLoad(p) /\ Compatible(p.content)
        /\ mode' = "OFFLINE_INITIAL_LOAD"
        /\ shown' = p.content /\ number' = p.number
        /\ built' = [s \in Contents |-> IF s = p.content THEN "PUBLISHED"
                                        ELSE IF s = shown THEN "RETIRED" ELSE built[s]]
        /\ rows' = RowsAfter(p.content)
        /\ searchable' = SearchableAfter(p.content)
        /\ access' = p.access
        /\ chunkAccess' = [c \in AllPieces |-> IF c \in PiecesOf[p.content] THEN p.access
                                             ELSE chunkAccess[c]]
        /\ highest' = IF p.number > highest THEN p.number ELSE highest
        /\ Returns(w) \/ KeepsTrying(w)

(* An exact replay: the plan's snapshot is active, what it wrote is still  *)
(* there and its job SUCCEEDED, or the load is refused.                    *)
EndLoad(w) ==
    /\ loading[w] # NoLoad
    /\ LET p == LoadOf[loading[w]] IN
          \/ mode = "MANAGED_INCREMENTAL"
          \/ shown = p.content
          \/ ~MayLoad(p) \/ ~Compatible(p.content)
    /\ Returns(w)
    /\ UNCHANGED <<mode, shown, number, built, searchable, access, chunkAccess, rows,
                   highest>>

\* An incremental ingestion, a deletion or a retirement: for good.
BecomeManaged ==
    /\ mode # "MANAGED_INCREMENTAL"
    /\ mode' = "MANAGED_INCREMENTAL"
    /\ UNCHANGED <<loading, shown, number, built, searchable, access, chunkAccess, rows,
                   highest>>

BulkNext ==
    \/ BecomeManaged
    \/ \E w \in Loaders : Load(w) \/ EndLoad(w) \/ \E l \in Loads : CallLoad(w, l)

BulkSpec == BulkInit /\ [][BulkNext]_bulkVars

-----------------------------------------------------------------------------

(* However often a load is run again and in whatever order plans arrive,   *)
(* the document serves one complete snapshot, the newest that was loaded:  *)
(* it alone is PUBLISHED, its chunks alone are searchable, under the       *)
(* document's access policy, and it rests on its own extraction's rows.    *)
OneSnapshotServed ==
    /\ BulkTypeOK
    /\ number = highest
    /\ \A s \in Contents : built[s] = "PUBLISHED" <=> shown = s
    /\ searchable = IF shown = NoContent THEN {} ELSE PiecesOf[shown]
    /\ \A c \in searchable : chunkAccess[c] = access
    /\ shown # NoContent => ArtifactsOf[shown] \subseteq rows
=============================================================================
