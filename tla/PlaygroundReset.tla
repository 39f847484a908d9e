--------------------------- MODULE PlaygroundReset ---------------------------
(***************************************************************************)
(* The reset of the local demo (playground/reset.py): the HTTP requests    *)
(* that are admitted and the backend operations that run for them are      *)
(* counted apart, because a request that timed out or was disconnected     *)
(* leaves its operation queued or running.                                 *)
(*                                                                         *)
(* A step is what happens under the controller's lock.  The pool in        *)
(* between is the runner's: an operation may start at any time after its   *)
(* request was admitted, or never.  A tab remembers the generation that    *)
(* it was loaded under; resets of one operation id may be sent twice.      *)
(***************************************************************************)
EXTENDS Naturals, FiniteSets, Functions

CONSTANTS
    Arrivals,   \* HTTP requests under /v1 and of readiness
    Resets,     \* operation ids of resets
    MaxAccepted \* _MAX_ACCEPTED_RESETS

ASSUME ResetAssumption == IsFiniteSet(Arrivals) /\ IsFiniteSet(Resets) /\ MaxAccepted \in Nat

VARIABLES
    generation, \* self._generation, drawn anew by every reset
    resetState, \* self._state
    resetting,  \* self._reset_id
    admitted,   \* self._requests: the generation of each admitted request
    operation,  \* the operation of each request and the generation it began under
    working,    \* self._workers
    accepted    \* self._accepted: the generation asked for and the state told

resetVars ==
    <<generation, resetState, resetting, admitted, operation, working, accepted>>

ResetGenerations == 0..MaxAccepted
NoReset == "none"
Unavailable == {"RUNNING", "FAILED"}

ResetTypeOK ==
    /\ generation \in ResetGenerations
    /\ resetState \in {"READY", "RUNNING", "FAILED", "SUCCEEDED"}
    /\ resetting \in Resets \cup {NoReset}
    /\ DOMAIN admitted \subseteq Arrivals
    /\ operation \in [Arrivals -> [at : {"none", "pending", "inside", "over"},
                                   under : ResetGenerations]]
    /\ working \in Nat
    /\ DOMAIN accepted \subseteq Resets

ResetInit ==
    /\ generation = 0 /\ resetState = "READY" /\ resetting = NoReset
    /\ admitted = [q \in {} |-> 0]
    /\ operation = [q \in Arrivals |-> [at |-> "none", under |-> 0]]
    /\ working = 0
    /\ accepted = [o \in {} |-> [asked |-> 0, told |-> "READY"]]

-----------------------------------------------------------------------------
(* Requests                                                                *)

\* A write must come from a tab of this generation, a read from any.
Admit(q, write, tab) ==
    /\ operation[q].at = "none"
    /\ resetState \notin Unavailable
    /\ write => tab = generation
    /\ admitted' = [r \in DOMAIN admitted \cup {q} |->
                       IF r = q THEN generation ELSE admitted[r]]
    /\ operation' = [operation EXCEPT ![q] = [at |-> "pending", under |-> generation]]
    /\ UNCHANGED <<generation, resetState, resetting, working, accepted>>

\* The response was sent, the deadline passed or the client is gone.
ReleaseRequest(q) ==
    /\ q \in DOMAIN admitted
    /\ admitted' = Restrict(admitted, DOMAIN admitted \ {q})
    /\ UNCHANGED <<generation, resetState, resetting, operation, working, accepted>>

\* Mutant: a pending operation enters although its request has ended.
MayEnterUnadmitted(q) == resetState \notin Unavailable

MayEnter(q) ==
    /\ resetState \notin Unavailable
    /\ q \in DOMAIN admitted /\ admitted[q] = generation

EnterBackend(q) ==
    /\ operation[q].at = "pending" /\ MayEnter(q)
    /\ operation' = [operation EXCEPT ![q].at = "inside"]
    /\ working' = working + 1
    /\ UNCHANGED <<generation, resetState, resetting, admitted, accepted>>

RefuseOperation(q) ==
    /\ operation[q].at = "pending" /\ ~MayEnter(q)
    /\ operation' = [operation EXCEPT ![q].at = "over"]
    /\ UNCHANGED <<generation, resetState, resetting, admitted, working, accepted>>

LeaveBackend(q) ==
    /\ operation[q].at = "inside"
    /\ operation' = [operation EXCEPT ![q].at = "over"]
    /\ working' = working - 1
    /\ UNCHANGED <<generation, resetState, resetting, admitted, accepted>>

-----------------------------------------------------------------------------
(* Resets                                                                  *)

\* Mutant: an answered request has no operation any more.
BusyRequests == DOMAIN admitted # {}

Busy == DOMAIN admitted # {} \/ working > 0

\* The generation moves on before the callback runs.
StartReset(o, tab) ==
    /\ o \notin DOMAIN accepted
    /\ tab = generation /\ resetState # "RUNNING" /\ ~Busy
    /\ Cardinality(DOMAIN accepted) < MaxAccepted
    /\ generation' = generation + 1
    /\ resetState' = "RUNNING" /\ resetting' = o
    /\ accepted' = [p \in DOMAIN accepted \cup {o} |->
                       IF p = o THEN [asked |-> tab, told |-> "RUNNING"] ELSE accepted[p]]
    /\ UNCHANGED <<admitted, operation, working>>

\* The callback returned or raised, or its thread did not start.
FinishReset ==
    /\ resetState = "RUNNING"
    /\ resetState' \in {"SUCCEEDED", "FAILED"}
    /\ accepted' = [accepted EXCEPT ![resetting].told = resetState']
    /\ UNCHANGED <<generation, resetting, admitted, operation, working>>

-----------------------------------------------------------------------------

ResetNext ==
    \/ \E q \in Arrivals :
          \/ \E write \in BOOLEAN, tab \in ResetGenerations : Admit(q, write, tab)
          \/ ReleaseRequest(q) \/ EnterBackend(q) \/ RefuseOperation(q) \/ LeaveBackend(q)
    \/ \E o \in Resets, tab \in ResetGenerations : StartReset(o, tab)
    \/ FinishReset

ResetSpec == ResetInit /\ [][ResetNext]_resetVars

-----------------------------------------------------------------------------

(* "A reset cannot begin until started workers finish, and a queued worker *)
(* whose HTTP admission has ended cannot enter the backend later and       *)
(* recreate old data": whatever works in the backend was admitted under    *)
(* the present generation, and nothing works while it is rebuilt.          *)
NoWorkAcrossReset ==
    /\ ResetTypeOK
    /\ \A q \in Arrivals : operation[q].at = "inside" =>
          operation[q].under = generation /\ resetState # "RUNNING"
=============================================================================
