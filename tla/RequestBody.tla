----------------------------- MODULE RequestBody -----------------------------
(***************************************************************************)
(* What a request with a body goes through before it is dispatched         *)
(* (EarlyAdmissionMiddleware and BoundedRequestBodyMiddleware of           *)
(* api/app.py): it is authenticated and counted against its rate, takes    *)
(* one of a few buffers, and is received message by message.               *)
(*                                                                         *)
(* A client sends what it likes, whatever length it declares; it may       *)
(* disconnect, and it may be too slow.  All requests share the event loop: *)
(* a step is what runs between two awaits.                                 *)
(***************************************************************************)
EXTENDS Naturals, FiniteSets

CONSTANTS
    Clients,   \* requests with a body, one per client
    Buffers,   \* max_concurrent_body_buffers
    Maximum,   \* max_request_body_bytes
    Pieces     \* sizes of the messages of a body

ASSUME BodyAssumption ==
    /\ IsFiniteSet(Clients) /\ Buffers \in Nat \ {0}
    /\ Maximum \in Nat /\ Pieces \subseteq Nat

VARIABLES
    at,        \* where each request is
    received,  \* the bytes buffered for it
    whole,     \* whether its last message was received
    credible,  \* whether it was authenticated and within its rate
    buffers,   \* the free buffers
    status     \* what it is answered, 0 before

bodyVars == <<at, received, whole, credible, buffers, status>>

BodyTypeOK ==
    /\ at \in [Clients -> {"early", "buffer", "receiving", "dispatched", "over"}]
    /\ received \in [Clients -> Nat]
    /\ whole \in [Clients -> BOOLEAN] /\ credible \in [Clients -> BOOLEAN]
    /\ buffers \in 0..Buffers
    /\ status \in [Clients -> {0, 200, 400, 401, 408, 413, 429, 503}]

BodyInit ==
    /\ at = [r \in Clients |-> "early"]
    /\ received = [r \in Clients |-> 0]
    /\ whole = [r \in Clients |-> FALSE] /\ credible = [r \in Clients |-> FALSE]
    /\ buffers = Buffers
    /\ status = [r \in Clients |-> 0]

-----------------------------------------------------------------------------

Refuse(r, code) ==
    /\ at' = [at EXCEPT ![r] = "over"]
    /\ status' = [status EXCEPT ![r] = code]

\* The token is not valid, or the principal is over its rate.
RefuseEarly(r) ==
    /\ at[r] = "early"
    /\ \E code \in {401, 429} : Refuse(r, code)
    /\ UNCHANGED <<received, whole, credible, buffers>>

AdmitEarly(r) ==
    /\ at[r] = "early"
    /\ credible' = [credible EXCEPT ![r] = TRUE]
    /\ at' = [at EXCEPT ![r] = "buffer"]
    /\ UNCHANGED <<received, whole, buffers, status>>

\* No length need be declared; several, no number or too much is refused,
\* and the buffer returned at once.
TakeBuffer(r, declared) ==
    /\ at[r] = "buffer"
    /\ IF buffers = 0
       THEN Refuse(r, 503) /\ UNCHANGED buffers
       ELSE IF declared = "several"
       THEN Refuse(r, 400) /\ UNCHANGED buffers
       ELSE IF declared = "excessive"
       THEN Refuse(r, 413) /\ UNCHANGED buffers
       ELSE /\ at' = [at EXCEPT ![r] = "receiving"]
            /\ buffers' = buffers - 1
            /\ UNCHANGED status
    /\ UNCHANGED <<received, whole, credible>>

\* Mutant: the bytes are counted before the message is added.
ExceedsBefore(r, piece) == received[r] > Maximum

Exceeds(r, piece) == received[r] + piece > Maximum

\* Mutant: a refused body keeps its buffer.
KeepBuffer == UNCHANGED buffers

ReturnBuffer == buffers' = buffers + 1

Receive(r, piece, last) ==
    /\ at[r] = "receiving"
    /\ received' = [received EXCEPT ![r] = @ + piece]
    /\ IF Exceeds(r, piece)
       THEN Refuse(r, 413) /\ ReturnBuffer /\ UNCHANGED whole
       ELSE /\ whole' = [whole EXCEPT ![r] = last]
            /\ at' = [at EXCEPT ![r] = IF last THEN "dispatched" ELSE @]
            /\ UNCHANGED <<buffers, status>>
    /\ UNCHANGED credible

\* What was buffered is dispatched with the disconnection at its end.
LoseClient(r) ==
    /\ at[r] = "receiving"
    /\ at' = [at EXCEPT ![r] = "dispatched"]
    /\ UNCHANGED <<received, whole, credible, buffers, status>>

ReceiveTooSlow(r) ==
    /\ at[r] = "receiving"
    /\ Refuse(r, 408) /\ ReturnBuffer
    /\ UNCHANGED <<received, whole, credible>>

\* The application answers, or fails.
Respond(r) ==
    /\ at[r] = "dispatched"
    /\ Refuse(r, 200) /\ ReturnBuffer
    /\ UNCHANGED <<received, whole, credible>>

BodyNext ==
    \E r \in Clients :
        \/ RefuseEarly(r) \/ AdmitEarly(r)
        \/ \E declared \in {"none", "fitting", "several", "excessive"} : TakeBuffer(r, declared)
        \/ \E piece \in Pieces, last \in BOOLEAN : Receive(r, piece, last)
        \/ LoseClient(r) \/ ReceiveTooSlow(r) \/ Respond(r)

BodySpec == BodyInit /\ [][BodyNext]_bodyVars

-----------------------------------------------------------------------------

BufferHolders == {r \in Clients : at[r] \in {"receiving", "dispatched"}}

(* "Authenticate and rate-limit API calls before buffering their bodies":  *)
(* a buffer is held by a credible request only, is free again whatever     *)
(* becomes of it, and what is dispatched fits, whatever was declared.      *)
BuffersAccounted ==
    /\ BodyTypeOK
    /\ buffers + Cardinality(BufferHolders) = Buffers
    /\ \A r \in BufferHolders : credible[r] /\ received[r] <= Maximum
=============================================================================
