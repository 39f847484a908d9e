--------------------------- MODULE SourceRegister ---------------------------
(***************************************************************************)
(* What ingestion promises about one source: a register with compare-and-  *)
(* swap.  An operation carries the snapshot and the generation its caller  *)
(* saw, takes effect in one step or not at all, at most once, and only     *)
(* while the register still holds what the caller saw.  Removing a source  *)
(* starts a new generation, so that nothing asked for before can undo it.  *)
(* Jobs, leases, retries, staging and crashes are not part of the promise. *)
(***************************************************************************)
EXTENDS Naturals

CONSTANTS Jobs, Snapshots, NoSnapshot, Kind, Target

VARIABLES
    current,     \* the snapshot retrieval reads
    generation,  \* of the source
    revision,    \* of the corpus
    asked,       \* what the caller of each submitted operation saw
    submitted,   \* the operations callers asked for
    done         \* the operations that were answered with success

registerVars == <<current, generation, revision, asked, submitted, done>>

RegisterInit ==
    /\ current = NoSnapshot
    /\ generation = 0 /\ revision = 0
    /\ asked = [j \in Jobs |-> [expected |-> NoSnapshot, gen |-> 0]]
    /\ submitted = {} /\ done = {}

Submit(j) ==
    /\ j \notin submitted
    /\ submitted' = submitted \cup {j}
    /\ asked' = [asked EXCEPT ![j] = [expected |-> current, gen |-> generation]]
    /\ UNCHANGED <<current, generation, revision, done>>

Answer(j) ==
    /\ j \in submitted \ done
    /\ done' = done \cup {j}
    /\ UNCHANGED <<asked, submitted>>

\* What the caller saw is still there.
Fresh(j) == asked[j] = [expected |-> current, gen |-> generation]

Switch(j) ==
    /\ Answer(j) /\ Fresh(j)
    /\ Kind[j] = "UPSERT" /\ Target[j] # current
    /\ current' = Target[j]
    /\ revision' = revision + 1
    /\ UNCHANGED generation

\* The snapshot stays and its title, policy or scope changes.
Touch(j) ==
    /\ Answer(j) /\ Fresh(j)
    /\ Kind[j] = "UPSERT" /\ Target[j] = current
    /\ revision' = revision + 1
    /\ UNCHANGED <<current, generation>>

\* Nothing is left to do.
Agree(j) ==
    /\ Answer(j)
    /\ \/ Kind[j] = "UPSERT" /\ Target[j] = current /\ asked[j].gen = generation
       \/ Kind[j] = "DELETE" /\ current = NoSnapshot
    /\ UNCHANGED <<current, generation, revision>>

Remove(j) ==
    /\ Answer(j) /\ Fresh(j)
    /\ Kind[j] = "DELETE"
    /\ current' = NoSnapshot
    /\ generation' = generation + 1
    /\ \/ revision' = revision + 1
       \/ current = NoSnapshot /\ UNCHANGED revision

Retire ==
    /\ current # NoSnapshot
    /\ current' = NoSnapshot
    /\ generation' = generation + 1
    /\ revision' = revision + 1
    /\ UNCHANGED <<asked, submitted, done>>

RegisterNext ==
    \/ \E j \in Jobs : Submit(j) \/ Switch(j) \/ Touch(j) \/ Agree(j) \/ Remove(j)
    \/ Retire

RegisterSpec == RegisterInit /\ [][RegisterNext]_registerVars

=============================================================================
