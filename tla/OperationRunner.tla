-------------------------- MODULE OperationRunner --------------------------
(***************************************************************************)
(* BoundedOperationRunner (api/runtime.py): synchronous backend operations *)
(* on a thread pool, with one semaphore over the running and the waiting   *)
(* ones.                                                                   *)
(*                                                                         *)
(* Three kinds of threads act: the event loop that runs the coroutines of  *)
(* the calls, the pool's workers, and whoever calls close(), which aclose  *)
(* moves to a thread of its own.  The steps of a call are cut where one of *)
(* the others can come in between.  Time is abstract: a deadline may pass  *)
(* wherever the code looks at the clock or waits.  A call that ends        *)
(* returns its permit from the future's done callback, which is registered *)
(* before any that wakes the coroutine.                                    *)
(***************************************************************************)
EXTENDS Naturals, Sequences, FiniteSets

CONSTANTS
    Calls,       \* calls of run()
    RetrySafe,   \* those whose operation.is_retry_safe
    MaxWorkers,  \* policy.max_workers
    MaxQueue,    \* policy.max_queue_size
    MaxAttempts  \* policy.max_attempts

ASSUME RunnerAssumption ==
    /\ IsFiniteSet(Calls) /\ RetrySafe \subseteq Calls
    /\ MaxWorkers \in Nat \ {0} /\ MaxQueue \in Nat /\ MaxAttempts \in Nat \ {0}

VARIABLES
    permits,   \* self._capacity
    pc,        \* where each call is
    attempt,   \* the number of its current attempt, 0 before the first
    outcome,   \* what its client is told
    future,    \* the state of the future of each attempt
    queue,     \* the executor's work queue, cancelled items included
    closed,    \* self._closed
    executor   \* "open", "shut" or, once shutdown(wait=True) returned, "joined"

callVars == <<pc, attempt, outcome>>
poolVars == <<future, queue>>
closeVars == <<closed, executor>>
runnerVars == <<permits, callVars, poolVars, closeVars>>

Capacity == MaxWorkers + MaxQueue
Futures  == Calls \X (1..MaxAttempts)
Finished == {"returned", "retryable", "failed"}
Places   == {"idle", "ready", "acquired", "checked", "waiting", "backoff", "answered"}
Told     == {"none", "result", "error", "unavailable", "timeout",
             "overloaded", "closed", "internal", "disconnected"}
FutureStates == {"none", "queued", "running", "cancelled"} \cup Finished

Attempts(c) == IF c \in RetrySafe THEN MaxAttempts ELSE 1
Current(c)  == <<c, attempt[c]>>
Live(f)     == future[f] \in {"queued", "running"}

RunnerTypeOK ==
    /\ permits \in 0..Capacity
    /\ pc \in [Calls -> Places]
    /\ attempt \in [Calls -> 0..MaxAttempts]
    /\ outcome \in [Calls -> Told]
    /\ future \in [Futures -> FutureStates]
    /\ queue \in Seq(Futures)
    /\ closed \in BOOLEAN
    /\ executor \in {"open", "shut", "joined"}

RunnerInit ==
    /\ permits = Capacity
    /\ pc = [c \in Calls |-> "idle"]
    /\ attempt = [c \in Calls |-> 0]
    /\ outcome = [c \in Calls |-> "none"]
    /\ future = [f \in Futures |-> "none"]
    /\ queue = <<>>
    /\ closed = FALSE /\ executor = "open"

Goto(c, label) ==
    /\ pc' = [pc EXCEPT ![c] = label]
    /\ UNCHANGED outcome

Answer(c, told) ==
    /\ pc' = [pc EXCEPT ![c] = "answered"]
    /\ outcome' = [outcome EXCEPT ![c] = told]

-----------------------------------------------------------------------------
(* The event loop: run() and _execute_once()                               *)

Begin(c) ==
    /\ pc[c] = "idle"
    /\ IF closed
       THEN Answer(c, "closed") /\ UNCHANGED attempt
       ELSE Goto(c, "ready") /\ attempt' = [attempt EXCEPT ![c] = 1]
    /\ UNCHANGED <<permits, poolVars, closeVars>>

\* No time remains before an attempt.
Expire(c) ==
    /\ pc[c] = "ready"
    /\ Answer(c, "timeout")
    /\ UNCHANGED <<permits, attempt, poolVars, closeVars>>

Acquire(c) ==
    /\ pc[c] = "ready"
    /\ \/ closed /\ Answer(c, "closed") /\ UNCHANGED permits
       \/ ~closed /\ permits = 0 /\ Answer(c, "overloaded") /\ UNCHANGED permits
       \/ ~closed /\ permits > 0 /\ Goto(c, "acquired") /\ permits' = permits - 1
    /\ UNCHANGED <<attempt, poolVars, closeVars>>

\* The second look at closed, with the permit in hand.
Check(c) ==
    /\ pc[c] = "acquired"
    /\ IF closed
       THEN Answer(c, "closed") /\ permits' = permits + 1
       ELSE Goto(c, "checked") /\ UNCHANGED permits
    /\ UNCHANGED <<attempt, poolVars, closeVars>>

\* Mutant: closed is looked at again once the work is enqueued.
SubmitThenCheck(c) ==
    /\ pc[c] = "checked"
    /\ IF executor # "open"
       THEN Answer(c, "internal") /\ permits' = permits + 1 /\ UNCHANGED poolVars
       ELSE /\ IF closed THEN Answer(c, "closed") ELSE Goto(c, "waiting")
            /\ future' = [future EXCEPT ![Current(c)] = "queued"]
            /\ queue' = Append(queue, Current(c))
            /\ UNCHANGED permits
    /\ UNCHANGED <<attempt, closeVars>>

\* Mutant: only a closed runtime gives the permit back, not a failed submit.
SubmitLeaking(c) ==
    /\ pc[c] = "checked"
    /\ UNCHANGED permits
    /\ IF executor # "open"
       THEN Answer(c, "internal") /\ UNCHANGED poolVars
       ELSE /\ Goto(c, "waiting")
            /\ future' = [future EXCEPT ![Current(c)] = "queued"]
            /\ queue' = Append(queue, Current(c))
    /\ UNCHANGED <<attempt, closeVars>>

\* An executor that shut down between the look and the submission raises
\* RuntimeError, which the client sees as an internal error.
Submit(c) ==
    /\ pc[c] = "checked"
    /\ IF executor # "open"
       THEN Answer(c, "internal") /\ permits' = permits + 1 /\ UNCHANGED poolVars
       ELSE /\ Goto(c, "waiting")
            /\ future' = [future EXCEPT ![Current(c)] = "queued"]
            /\ queue' = Append(queue, Current(c))
            /\ UNCHANGED permits
    /\ UNCHANGED <<attempt, closeVars>>

\* The coroutine takes the result of its future.
Deliver(c) ==
    /\ pc[c] = "waiting"
    /\ \/ future[Current(c)] = "returned" /\ Answer(c, "result")
       \/ future[Current(c)] = "failed" /\ Answer(c, "error")
       \/ /\ future[Current(c)] = "retryable"
          /\ IF attempt[c] >= Attempts(c)
             THEN Answer(c, "unavailable")
             ELSE Goto(c, "backoff") \/ Answer(c, "timeout")
    /\ UNCHANGED <<permits, attempt, poolVars, closeVars>>

Resume(c) ==
    /\ pc[c] = "backoff"
    /\ Goto(c, "ready")
    /\ attempt' = [attempt EXCEPT ![c] = @ + 1]
    /\ UNCHANGED <<permits, poolVars, closeVars>>

\* concurrent_future.cancel(): refused once the work has started.
CancelUnstarted(f) ==
    IF future[f] = "queued"
    THEN future' = [future EXCEPT ![f] = "cancelled"] /\ permits' = permits + 1
    ELSE UNCHANGED <<future, permits>>

\* Mutant: the future is left to itself.
TimeoutUncancelled(c) ==
    /\ pc[c] = "waiting"
    /\ Answer(c, "timeout")
    /\ UNCHANGED <<permits, attempt, poolVars, closeVars>>

\* Mutant: the permit is given back although the thread goes on.
TimeoutReleasing(c) ==
    /\ pc[c] = "waiting"
    /\ permits' = IF permits < Capacity THEN permits + 1 ELSE permits
    /\ future' = [future EXCEPT ![Current(c)] = IF @ = "queued" THEN "cancelled" ELSE @]
    /\ Answer(c, "timeout")
    /\ UNCHANGED <<attempt, queue, closeVars>>

\* Mutant: only work that has not started is given up.
TimeoutUnstarted(c) ==
    /\ pc[c] = "waiting" /\ future[Current(c)] = "queued"
    /\ CancelUnstarted(Current(c))
    /\ Answer(c, "timeout")
    /\ UNCHANGED <<attempt, queue, closeVars>>

\* wait_for gives up; a result that is not delivered yet may be lost to it.
Timeout(c) ==
    /\ pc[c] = "waiting"
    /\ CancelUnstarted(Current(c))
    /\ Answer(c, "timeout")
    /\ UNCHANGED <<attempt, queue, closeVars>>

\* The coroutine is cancelled; the shielded future is not.
Disconnect(c) ==
    /\ pc[c] \in {"waiting", "backoff"}
    /\ Answer(c, "disconnected")
    /\ UNCHANGED <<permits, attempt, poolVars, closeVars>>

-----------------------------------------------------------------------------
(* The workers of the pool                                                 *)

Running == {f \in Futures : future[f] = "running"}

\* An idle worker takes the next item and drops it if it is cancelled.
Start ==
    /\ queue # <<>> /\ Cardinality(Running) < MaxWorkers
    /\ queue' = Tail(queue)
    /\ future' = [future EXCEPT ![Head(queue)] = IF @ = "queued" THEN "running" ELSE @]
    /\ UNCHANGED <<permits, callVars, closeVars>>

\* backend.execute() ends and the done callback runs in the worker.
Finish(f, ending) ==
    /\ future[f] = "running"
    /\ future' = [future EXCEPT ![f] = ending]
    /\ permits' = permits + 1
    /\ UNCHANGED <<callVars, queue, closeVars>>

-----------------------------------------------------------------------------
(* close()                                                                 *)

Close ==
    /\ ~closed
    /\ closed' = TRUE
    /\ UNCHANGED <<permits, callVars, poolVars, executor>>

Shutdown ==
    /\ closed /\ executor = "open"
    /\ executor' = "shut"
    /\ UNCHANGED <<permits, callVars, poolVars, closed>>

\* shutdown(wait=True) returns when the workers have emptied the queue.
Join ==
    /\ executor = "shut" /\ queue = <<>> /\ Running = {}
    /\ executor' = "joined"
    /\ UNCHANGED <<permits, callVars, poolVars, closed>>

-----------------------------------------------------------------------------

Step(c) == \/ Expire(c) \/ Acquire(c) \/ Check(c) \/ Submit(c)
           \/ Deliver(c) \/ Resume(c) \/ Timeout(c)

RunnerNext ==
    \/ \E c \in Calls : Begin(c) \/ Step(c) \/ Disconnect(c)
    \/ Start
    \/ \E f \in Futures, ending \in Finished : Finish(f, ending)
    \/ Close \/ Shutdown \/ Join

RunnerSpec == RunnerInit /\ [][RunnerNext]_runnerVars

(* The event loop runs what is ready and its timers fire.  Nothing is      *)
(* assumed of the backend, which may never return.                         *)
RunnerFairSpec == RunnerSpec /\ \A c \in Calls : WF_runnerVars(Step(c))

-----------------------------------------------------------------------------

\* What a permit stands for: work that has not ended, or a call about to
\* submit some.
Holds(f) ==
    \/ Live(f)
    \/ f[2] = attempt[f[1]] /\ pc[f[1]] \in {"acquired", "checked"}

Holders == {f \in Futures : Holds(f)}

(* A permit is returned exactly once: no timeout, cancellation, refused    *)
(* submission or shutdown loses one or returns one too many.               *)
CapacityAccounted == permits + Cardinality(Holders) = Capacity

(* A retry never runs beside an earlier attempt of its call.               *)
OneAttemptAtATime == \A f \in Futures : Live(f) => f = Current(f[1])

(* An operation that is not retry-safe reaches the backend once at most    *)
(* (OperationKind.is_retry_safe).                                          *)
UnsafeRunsOnce ==
    \A c \in Calls \ RetrySafe :
        \A f \in Futures : f[1] = c /\ f[2] > 1 => future[f] = "none"

(* Who is refused may send the request again: no attempt of an operation   *)
(* that is not retry-safe was or will be made.                             *)
RefusedHadNoEffect ==
    \A c \in Calls \ RetrySafe :
        outcome[c] \in {"overloaded", "closed", "internal"} =>
            \A f \in Futures : f[1] = c => future[f] = "none"

(* When close() has waited, nothing is left and nothing is accepted.       *)
JoinedIsQuiet == executor = "joined" => \A f \in Futures : ~Live(f)

\* Where an attempt is when its call is where it is.
AttemptFollows(f) ==
    LET c == f[1]
    IN  /\ f[2] > attempt[c] => future[f] = "none"
        /\ f[2] < attempt[c] => future[f] = "retryable"
        /\ f[2] = attempt[c] =>
             /\ pc[c] \in {"ready", "acquired", "checked"} => future[f] = "none"
             /\ pc[c] = "waiting" => future[f] \notin {"none", "cancelled"}
             /\ pc[c] = "backoff" => future[f] = "retryable"
             /\ outcome[c] \in {"overloaded", "closed", "internal"} => future[f] = "none"
             /\ outcome[c] = "timeout" => future[f] # "queued"

CallFollows(c) ==
    /\ attempt[c] <= Attempts(c)
    /\ pc[c] = "idle" => attempt[c] = 0
    /\ pc[c] \notin {"idle", "answered"} => attempt[c] > 0
    /\ pc[c] = "backoff" => attempt[c] < Attempts(c)
    /\ pc[c] # "answered" => outcome[c] = "none"

CallsFollow ==
    /\ \A c \in Calls : CallFollows(c)
    /\ \A f \in Futures : AttemptFollows(f)

\* The pool's queue, the futures and the executor agree.
PoolFollows ==
    /\ \A f \in Futures : future[f] = "queued" => \E i \in DOMAIN queue : queue[i] = f
    /\ JoinedIsQuiet

RunnerInv ==
    /\ RunnerTypeOK /\ CallsFollow /\ PoolFollows
    /\ CapacityAccounted

(* "A task which has not started can be cancelled without side effects":   *)
(* nothing starts for a call that was told of a timeout.                   *)
NothingStartsAfterTimeout ==
    [][\A f \in Futures : future[f] # "running" /\ future'[f] = "running" =>
                            outcome[f[1]] # "timeout"]_runnerVars

(* Every call is answered, also if the backend never returns.              *)
EveryCallAnswered == \A c \in Calls : pc[c] = "ready" ~> pc[c] = "answered"

=============================================================================
