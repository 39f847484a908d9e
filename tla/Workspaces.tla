----------------------------- MODULE Workspaces -----------------------------
(***************************************************************************)
(* The projects of the workbench (playground/workspaces.py).  A project    *)
(* owns one active tenant; a reset gives it a new, empty one and archives  *)
(* the old.  The tenant is named after the operation id that made it.      *)
(*                                                                         *)
(* create() and reset() hold the registry's lock from their checks to the  *)
(* transaction that saves, also while the tenant is prepared; the process  *)
(* may die in between.  Backend operations take the lock when they begin   *)
(* and when they end only.                                                 *)
(***************************************************************************)
EXTENDS Naturals, FiniteSets

CONSTANTS
    Projects,   \* knowledge bases
    Names,
    OpIds,      \* operation ids of the clients, each the name of a tenant
    FirstOp,    \* the tenant of the project there is at first
    Jobs,       \* backend operations
    MaxCrashes  \* bound: deaths of the process

ASSUME WorkspaceAssumption ==
    /\ FirstOp \notin OpIds /\ "none" \notin OpIds \cup {FirstOp}
    /\ IsFiniteSet(Jobs) /\ MaxCrashes \in Nat
    /\ Projects # {} /\ Names # {}

Tenants == OpIds \cup {FirstOp}
NoProject == [name |-> "none", tenant |-> "none", generation |-> 0]

VARIABLES
    projects,  \* WorkbenchKnowledgeBase
    archive,   \* WorkbenchKnowledgeBaseArchive: tenants and their generations
    done,      \* WorkbenchWorkspaceOperation: the fingerprint of each finished one
    change,    \* the change under the lock, whose tenant is being prepared
    sessions,  \* the tenants that were ever active: tokens are out for them
    job,       \* the backend operations
    writers,   \* registry.workers
    crashes    \* how often the process died

workspaceVars == <<projects, archive, done, change, sessions, job, writers, crashes>>

NoChange == [op |-> "none"]
NoJob == [at |-> "none", tenant |-> FirstOp, write |-> FALSE]

Active == {projects[k].tenant : k \in {k \in Projects : projects[k] # NoProject}}

WorkspaceTypeOK ==
    /\ projects \in [Projects ->
          {NoProject} \cup [name : Names, tenant : Tenants, generation : Nat]]
    /\ \A a \in archive : a \in [project : Projects, tenant : Tenants, generation : Nat]
    /\ DOMAIN done \subseteq OpIds
    /\ sessions \subseteq Tenants
    /\ job \in [Jobs -> [at : {"none", "inside", "answered", "refused"},
                         tenant : Tenants, write : BOOLEAN]]
    /\ writers \in [Tenants -> Nat]
    /\ crashes \in 0..MaxCrashes

WorkspaceInit ==
    /\ \E k \in Projects, n \in Names :
          projects = [j \in Projects |->
              IF j = k THEN [name |-> n, tenant |-> FirstOp, generation |-> 1] ELSE NoProject]
    /\ archive = {} /\ done = [o \in {} |-> NoChange]
    /\ change = NoChange /\ sessions = {FirstOp}
    /\ job = [j \in Jobs |-> NoJob]
    /\ writers = [t \in Tenants |-> 0]
    /\ crashes = 0

-----------------------------------------------------------------------------
(* create() and reset()                                                    *)

\* Mutant: what an operation id was used for is not looked up.
AnsweredNever(o) == FALSE

\* Replayed if it is the same request, refused if it is another.
Answered(o) == o \in DOMAIN done

\* An administrator's token is of a tenant that is still active.
BeginCreate(t, k, o, n) ==
    /\ change = NoChange /\ t \in sessions \cap Active
    /\ ~Answered(o)
    /\ projects[k] = NoProject
    /\ \A j \in Projects : projects[j].name # n
    /\ change' = [op |-> o, kind |-> "create", project |-> k,
                  next |-> [name |-> n, tenant |-> o, generation |-> 1]]
    /\ UNCHANGED <<projects, archive, done, sessions, job, writers, crashes>>

\* Mutant: operations that are still writing are not waited for.
NobodyMind(t) == TRUE

NobodyWrites(t) == writers[t] = 0

BeginReset(t, k, o, expected) ==
    /\ change = NoChange /\ t \in sessions \cap Active
    /\ projects[k].tenant = t
    /\ ~Answered(o)
    /\ projects[k].generation = expected
    /\ NobodyWrites(t)
    /\ change' = [op |-> o, kind |-> "reset", project |-> k,
                  next |-> [projects[k] EXCEPT !.tenant = o, !.generation = @ + 1]]
    /\ UNCHANGED <<projects, archive, done, sessions, job, writers, crashes>>

\* The transaction that saves compares with what the change began from.
SaveChange ==
    LET k == change.project
        o == change.op
    IN  /\ change # NoChange
        /\ projects' = [projects EXCEPT ![k] = change.next]
        /\ archive' = IF change.kind = "create" THEN archive
                      ELSE archive \cup {[project |-> k, tenant |-> projects[k].tenant,
                                          generation |-> projects[k].generation]}
        /\ done' = [p \in DOMAIN done \cup {o} |-> IF p = o THEN change ELSE done[p]]
        /\ sessions' = sessions \cup {change.next.tenant}
        /\ change' = NoChange
        /\ UNCHANGED <<job, writers, crashes>>

\* The tenant cannot be prepared, or the database does not answer.
FailChange ==
    /\ change # NoChange
    /\ change' = NoChange
    /\ UNCHANGED <<projects, archive, done, sessions, job, writers, crashes>>

-----------------------------------------------------------------------------
(* wrap_backend()                                                          *)

BeginJob(j, t, write) ==
    /\ change = NoChange
    /\ job[j].at = "none" /\ t \in sessions
    /\ IF t \in Active
       THEN /\ job' = [job EXCEPT ![j] = [at |-> "inside", tenant |-> t, write |-> write]]
            /\ writers' = [writers EXCEPT ![t] = IF write THEN @ + 1 ELSE @]
       ELSE /\ job' = [job EXCEPT ![j] = [at |-> "refused", tenant |-> t, write |-> write]]
            /\ UNCHANGED writers
    /\ UNCHANGED <<projects, archive, done, change, sessions, crashes>>

\* The result is withheld if the tenant was archived meanwhile.
EndJob(j) ==
    /\ change = NoChange
    /\ job[j].at = "inside"
    /\ job' = [job EXCEPT ![j].at = IF job[j].tenant \in Active THEN "answered" ELSE "refused"]
    /\ writers' = [writers EXCEPT ![job[j].tenant] = IF job[j].write THEN @ - 1 ELSE @]
    /\ UNCHANGED <<projects, archive, done, change, sessions, crashes>>

\* The counts, the lock and what ran are gone with the process.
Die ==
    /\ crashes < MaxCrashes
    /\ crashes' = crashes + 1
    /\ change' = NoChange
    /\ writers' = [t \in Tenants |-> 0]
    /\ job' = [j \in Jobs |-> IF job[j].at = "inside" THEN [job[j] EXCEPT !.at = "refused"]
                              ELSE job[j]]
    /\ UNCHANGED <<projects, archive, done, sessions>>

-----------------------------------------------------------------------------

WorkspaceNext ==
    \/ \E t \in Tenants, k \in Projects, o \in OpIds :
          \/ \E n \in Names : BeginCreate(t, k, o, n)
          \/ \E expected \in 1..(Cardinality(OpIds) + 1) : BeginReset(t, k, o, expected)
    \/ SaveChange \/ FailChange \/ Die
    \/ \E j \in Jobs : \/ EndJob(j)
                       \/ \E t \in Tenants, write \in BOOLEAN : BeginJob(j, t, write)

WorkspaceSpec == WorkspaceInit /\ [][WorkspaceNext]_workspaceVars

-----------------------------------------------------------------------------

(* "Reset switches to a new namespace; immutable evidence in previous      *)
(* generations stays archived": a tenant that was archived is nobody's     *)
(* again and nothing writes to it, also if an operation id is used twice,  *)
(* a client asks for a reset again after it lost the answer, or the        *)
(* process dies in between; and each generation is archived once.          *)
ArchivedIsClosed ==
    /\ WorkspaceTypeOK
    /\ \A a \in archive :
          /\ a.tenant \notin Active
          /\ \A j \in Jobs : ~(job[j].at = "inside" /\ job[j].write /\ job[j].tenant = a.tenant)
    /\ \A k \in Projects : projects[k] # NoProject =>
          {a.generation : a \in {a \in archive : a.project = k}} =
              1..(projects[k].generation - 1)
=============================================================================
