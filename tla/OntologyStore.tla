---------------------------- MODULE OntologyStore ----------------------------
(***************************************************************************)
(* The T-Box versions of one catalog (ontology/store.py).  A write holds   *)
(* the lock on the catalog node for the whole transaction, so that it is   *)
(* one action; a transaction that is refused leaves nothing behind.        *)
(*                                                                         *)
(* A definition stands for its checksum.  Next to the version with its     *)
(* definition_json the store keeps a node for every type and property that *)
(* is declared, and the uploaded files with what they were normalised to.  *)
(* The catalog's revision counts writes and is left out.                   *)
(***************************************************************************)
EXTENDS Naturals, FiniteSets

CONSTANTS
    TBoxes,       \* the versions, by number
    NoTBox,       \* no ACTIVE_TBOX_VERSION
    Definitions,  \* checksums
    NoDefinition, \* no expected checksum
    Files         \* uploaded files, by their contents

ASSUME OntologyAssumption ==
    /\ TBoxes \subseteq Nat \ {0} /\ NoTBox \notin TBoxes
    /\ NoDefinition \notin Definitions

VARIABLES
    tbox,       \* TBoxVersion: status and definition
    declared,   \* the definitions whose nodes hang on a version
    sources,    \* TBoxSourceFile: the file and what it was normalised to
    activeTBox  \* the target of ACTIVE_TBOX_VERSION

ontologyVars == <<tbox, declared, sources, activeTBox>>

Unsaved == [status |-> "ABSENT", definition |-> NoDefinition]
NoFile == "no file"
Sources == [file : Files, result : Definitions]

OntologyTypeOK ==
    /\ tbox \in [TBoxes -> [status : {"ABSENT", "DRAFT", "PUBLISHED", "RETIRED"},
                            definition : Definitions \cup {NoDefinition}]]
    /\ declared \in [TBoxes -> SUBSET Definitions]
    /\ sources \in [TBoxes -> SUBSET Sources]
    /\ activeTBox \in TBoxes \cup {NoTBox}

OntologyInit ==
    /\ tbox = [v \in TBoxes |-> Unsaved]
    /\ declared = [v \in TBoxes |-> {}] /\ sources = [v \in TBoxes |-> {}]
    /\ activeTBox = NoTBox

-----------------------------------------------------------------------------
(* _import_tx.  Each part of it is given the state it finds.               *)

Replay(t, definition) == t.definition = definition

\* Mutant: a published version may be replaced by who knows its checksum.
MayImportKnown(t, expected) == expected = t.definition

\* A new version, or a draft whose checksum the caller knows.
MayImport(t, expected) ==
    /\ t.status \in {"ABSENT", "DRAFT"}
    /\ expected = t.definition

\* A file must be there already unless the version is a draft.
MayAddSource(v, t, source) ==
    t.status \in {"ABSENT", "DRAFT"} \/ source \in sources[v]

SourceOf(file, definition) ==
    IF file = NoFile THEN {} ELSE {[file |-> file, result |-> definition]}

WriteSource(v, file, definition) ==
    sources' = [sources EXCEPT ![v] = @ \cup SourceOf(file, definition)]

\* Mutant: the nodes of the earlier draft stay.
DeclareMore(v, definition) ==
    declared' = [declared EXCEPT ![v] = @ \cup {definition}]

\* The nodes of an earlier draft are deleted and those of this one created.
Declare(v, definition) == declared' = [declared EXCEPT ![v] = {definition}]

\* The replay of an import changes nothing but a draft's files.
ReplayImport(v, definition, file) ==
    /\ Replay(tbox[v], definition)
    /\ \A source \in SourceOf(file, definition) : MayAddSource(v, tbox[v], source)
    /\ WriteSource(v, file, definition)
    /\ UNCHANGED <<tbox, declared, activeTBox>>

ImportVersion(v, definition, expected, file) ==
    /\ ~Replay(tbox[v], definition) /\ MayImport(tbox[v], expected)
    /\ tbox' = [tbox EXCEPT ![v] = [status |-> "DRAFT", definition |-> definition]]
    /\ Declare(v, definition)
    /\ WriteSource(v, file, definition)
    /\ UNCHANGED activeTBox

-----------------------------------------------------------------------------
(* _publish_tx                                                             *)

MayPublish(v, status, expected) ==
    /\ activeTBox = expected /\ activeTBox # v
    /\ status = "DRAFT"
    /\ activeTBox # NoTBox => v > activeTBox

\* Mutant: the version it replaces is not retired.
PublishedBeside(v, definition) ==
    [tbox EXCEPT ![v] = [status |-> "PUBLISHED", definition |-> definition]]

\* The version is published and the one it replaces retired.
Published(v, definition) ==
    [u \in TBoxes |-> IF u = v THEN [status |-> "PUBLISHED", definition |-> definition]
                      ELSE IF u = activeTBox THEN [tbox[u] EXCEPT !.status = "RETIRED"]
                      ELSE tbox[u]]

Publish(v, expected) ==
    /\ MayPublish(v, tbox[v].status, expected)
    /\ tbox' = Published(v, tbox[v].definition)
    /\ activeTBox' = v
    /\ UNCHANGED <<declared, sources>>

(* save_and_activate: both in one transaction, or neither.  A definition   *)
(* that was saved as a draft before is replayed and then published.        *)
SaveAndActivate(v, definition, expected, file, expectedActive) ==
    /\ \/ Replay(tbox[v], definition)
       \/ MayImport(tbox[v], expected)
    /\ \A source \in SourceOf(file, definition) : MayAddSource(v, tbox[v], source)
    /\ IF activeTBox = v
       THEN /\ expectedActive \in {NoTBox, v} /\ tbox[v].status = "PUBLISHED"
            /\ UNCHANGED <<tbox, declared, activeTBox>>
       ELSE /\ MayPublish(v, IF tbox[v].status = "ABSENT" THEN "DRAFT" ELSE tbox[v].status,
                          expectedActive)
            /\ tbox' = Published(v, definition)
            /\ activeTBox' = v
            /\ IF Replay(tbox[v], definition) THEN UNCHANGED declared
                                              ELSE Declare(v, definition)
    /\ WriteSource(v, file, definition)

-----------------------------------------------------------------------------

OntologyNext ==
    \E v \in TBoxes :
        \/ \E expected \in TBoxes \cup {NoTBox} : Publish(v, expected)
        \/ \E definition \in Definitions, file \in Files \cup {NoFile} :
              \/ ReplayImport(v, definition, file)
              \/ \E expected \in Definitions \cup {NoDefinition} :
                    \/ ImportVersion(v, definition, expected, file)
                    \/ \E active \in TBoxes \cup {NoTBox} :
                          SaveAndActivate(v, definition, expected, file, active)

OntologySpec == OntologyInit /\ [][OntologyNext]_ontologyVars

-----------------------------------------------------------------------------

(* The catalog's pointer, the statuses and the nodes of the types agree:   *)
(* one version at most is PUBLISHED, the one that is pointed at; every     *)
(* RETIRED one is older; and what is declared is what the version says.    *)
CatalogAgrees ==
    /\ OntologyTypeOK
    /\ \A v \in TBoxes :
          /\ tbox[v].status = "PUBLISHED" <=> activeTBox = v
          /\ tbox[v].status = "RETIRED" => activeTBox # NoTBox /\ v < activeTBox
          /\ declared[v] = {tbox[v].definition} \ {NoDefinition}

=============================================================================
