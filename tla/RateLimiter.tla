---------------------------- MODULE RateLimiter ----------------------------
(***************************************************************************)
(* PrincipalRateLimiter (api/runtime.py): a token bucket or a fixed window *)
(* for each principal, in a table of bounded size.                         *)
(*                                                                         *)
(* check() reads the clock, then takes the lock and decides; with several  *)
(* threads the readings may be used out of order.  Amounts are scaled by   *)
(* Window, so that the refill of a tick is the integer Requests.           *)
(***************************************************************************)
EXTENDS Naturals, FiniteSets, Functions

CONSTANTS
    Threads,
    Principals,
    Requests,       \* policy.requests
    Window,         \* policy.window_seconds
    Burst,          \* policy.burst_capacity of a token bucket
    MaxPrincipals,  \* policy.max_principals
    Costs,          \* the costs that are asked for
    MaxTime         \* bound: the clock readings that are explored

ASSUME LimiterAssumption ==
    /\ Requests \in Nat \ {0} /\ Window \in Nat \ {0} /\ Burst \in Nat \ {0}
    /\ MaxPrincipals \in Nat \ {0} /\ MaxTime \in Nat
    /\ Costs \subseteq Nat \ {0}

VARIABLES
    algorithm,  \* policy.algorithm, which nothing changes
    known,   \* self._states: [amount, updated] of some principals
    clock,   \* the monotonic clock
    checking,    \* what each thread in check() carries
    limiterClosed,  \* self._closed
    granted  \* history: what was granted on a reading of the clock

limiterVars == <<algorithm, known, clock, checking, limiterClosed, granted>>

Outside == [in |-> FALSE]

\* policy.burst_capacity: the requests of a fixed window.
Allowance == IF algorithm = "fixed_window" THEN Requests ELSE Burst
Full     == Allowance * Window

LimiterTypeOK ==
    /\ algorithm \in {"fixed_window", "token_bucket"}
    /\ DOMAIN known \subseteq Principals
    /\ \A p \in DOMAIN known : known[p] \in [amount : 0..Full, updated : 0..MaxTime]
    /\ clock \in 0..MaxTime
    /\ checking \in [Threads -> {Outside} \cup
                    [in : {TRUE}, principal : Principals, cost : Costs, now : 0..MaxTime]]
    /\ limiterClosed \in BOOLEAN
    /\ granted \in [Principals -> [0..MaxTime -> Nat]]

LimiterInit ==
    /\ algorithm \in {"fixed_window", "token_bucket"}
    /\ known = [p \in {} |-> Outside] /\ clock = 0
    /\ checking = [t \in Threads |-> Outside]
    /\ limiterClosed = FALSE
    /\ granted = [p \in Principals |-> [i \in 0..MaxTime |-> 0]]

Elapsed(e, now) == IF now > e.updated THEN now - e.updated ELSE 0

\* The tokens of a bucket at a time.
Refilled(e, now) ==
    LET tokens == e.amount + Elapsed(e, now) * Requests
    IN  IF tokens > Full THEN Full ELSE tokens

Fresh(now) ==
    [amount |-> IF algorithm = "fixed_window" THEN 0 ELSE Full, updated |-> now]

\* An entry as it is at the time of a check.
Refreshed(e, now) ==
    IF algorithm = "token_bucket"
    THEN [amount |-> Refilled(e, now), updated |-> now]
    ELSE IF Elapsed(e, now) >= Window THEN Fresh(now) ELSE e

Allows(e, cost) ==
    IF algorithm = "token_bucket"
    THEN e.amount >= cost * Window
    ELSE e.amount + cost * Window <= Requests * Window

Charged(e, cost) ==
    [e EXCEPT !.amount = IF algorithm = "token_bucket" THEN @ - cost * Window
                                                       ELSE @ + cost * Window]

\* Mutant: an entry without a recent check is forgotten, full or not.
InactiveByAge(e, now) == Elapsed(e, now) >= Window

\* What is no different from a fresh entry may be forgotten.
Inactive(e, now) ==
    IF algorithm = "token_bucket"
    THEN e.amount + Elapsed(e, now) * Requests >= Full
    ELSE Elapsed(e, now) >= Window

Pruned(now) == {p \in DOMAIN known : ~Inactive(known[p], now)}

\* Mutant: pruning is taken to have made room.
AdmitsAlways(p, now) == TRUE

Admits(p, now) ==
    \/ p \in DOMAIN known \/ Cardinality(DOMAIN known) < MaxPrincipals
    \/ Cardinality(Pruned(now)) < MaxPrincipals

\* The principals that remain, the one that is checked included.
Remaining(p, now) ==
    {p} \cup IF p \in DOMAIN known \/ Cardinality(DOMAIN known) < MaxPrincipals
             THEN DOMAIN known ELSE Pruned(now)

-----------------------------------------------------------------------------

Tick ==
    /\ clock < MaxTime
    /\ clock' = clock + 1
    /\ UNCHANGED <<algorithm, known, checking, limiterClosed, granted>>

ReadClock(t, p, cost) ==
    /\ checking[t] = Outside /\ cost <= Allowance
    /\ checking' = [checking EXCEPT ![t] =
                   [in |-> TRUE, principal |-> p, cost |-> cost, now |-> clock]]
    /\ UNCHANGED <<algorithm, known, clock, limiterClosed, granted>>

\* Closed, or at the capacity for identities.
Reject(t) ==
    /\ checking[t] # Outside
    /\ limiterClosed \/ ~Admits(checking[t].principal, checking[t].now)
    /\ checking' = [checking EXCEPT ![t] = Outside]
    /\ UNCHANGED <<algorithm, known, clock, limiterClosed, granted>>

Decide(t) ==
    LET p     == checking[t].principal
        now   == checking[t].now
        cost  == checking[t].cost
        entry == Refreshed(IF p \in DOMAIN known THEN known[p] ELSE Fresh(now), now)
    IN  /\ checking[t] # Outside
        /\ ~limiterClosed /\ Admits(p, now)
        /\ known' = [q \in Remaining(p, now) |->
                        IF q # p THEN known[q]
                        ELSE IF Allows(entry, cost) THEN Charged(entry, cost) ELSE entry]
        /\ granted' = IF Allows(entry, cost)
                      THEN [granted EXCEPT ![p][now] = @ + cost] ELSE granted
        /\ checking' = [checking EXCEPT ![t] = Outside]
        /\ UNCHANGED <<algorithm, clock, limiterClosed>>

CloseLimiter ==
    /\ ~limiterClosed
    /\ limiterClosed' = TRUE
    /\ known' = [p \in {} |-> Outside]
    /\ UNCHANGED <<algorithm, clock, checking, granted>>

LimiterNext ==
    \/ Tick \/ CloseLimiter
    \/ \E t \in Threads :
          \/ \E p \in Principals, cost \in Costs : ReadClock(t, p, cost)
          \/ Reject(t) \/ Decide(t)

LimiterSpec == LimiterInit /\ [][LimiterNext]_limiterVars

-----------------------------------------------------------------------------

\* What a principal was granted from one reading of the clock to another.
GrantedIn(p, first, last) == SumFunctionOnSet(granted[p], first..last)

(* Whoever was evicted in between, and however requests gather around the  *)
(* edge of a window: in any interval a bucket grants its burst and what is *)
(* refilled, and a fixed window at most two windows' worth in an interval  *)
(* of that length.                                                         *)
GrantsWithinBudget ==
    \A p \in Principals : \A first, last \in 0..MaxTime :
        first <= last =>
            \/ /\ algorithm = "token_bucket"
               /\ GrantedIn(p, first, last) * Window <= Full + (last - first) * Requests
            \/ /\ algorithm = "fixed_window"
               /\ last - first < Window => GrantedIn(p, first, last) <= 2 * Requests

(* The table of principals is bounded (policy.max_principals).             *)
TableBounded == LimiterTypeOK /\ Cardinality(DOMAIN known) <= MaxPrincipals

=============================================================================
