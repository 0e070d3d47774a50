--------------------------- MODULE CommentRateLimit ---------------------------
(***************************************************************************)
(* CommentsService.enforceRateLimit for one key, that is one user and one   *)
(* document of a tenant: INCR, and for the first request of a window        *)
(* PEXPIRE, two calls of Redis with an await between them.  Keys do not     *)
(* interact.                                                                *)
(***************************************************************************)
EXTENDS Integers, FiniteSets

CONSTANTS
    Requests,   \* POST /docs/:id/comments requests
    Limit,      \* COMMENT_RATE_LIMIT
    MaxFaults   \* bound on failed Redis calls and crashes

ASSUME LimitAssumption == Limit \in Nat /\ MaxFaults \in Nat

VARIABLES
    count,    \* the counter in Redis, 0 when there is no key
    armed,    \* the key has a time to live
    at,       \* [Requests -> where the request is]
    got,      \* [Requests -> what INCR answered]
    admitted, \* history: requests let through since the key was made
    faults

vars == <<count, armed, at, got, admitted, faults>>

Init ==
    /\ count = 0
    /\ armed = FALSE
    /\ at = [r \in Requests |-> "idle"]
    /\ got = [r \in Requests |-> 0]
    /\ admitted = {}
    /\ faults = 0

\* INCR
Incremented(n) == n + 1

\* The request that made the key gives it its time to live.
First(n) == n = 1

LimitOffByOne(n) == n > Limit + 1
\* 429
OverLimit(n) == n > Limit

\* The answer, once the counter is known and nothing is left to await.
Decide(r, n) ==
    /\ at' = [at EXCEPT ![r] = IF OverLimit(n) THEN "refused" ELSE "admitted"]
    /\ admitted' = IF OverLimit(n) THEN admitted ELSE admitted \cup {r}

Incr(r) ==
    LET n == Incremented(count) IN
    /\ at[r] = "idle"
    /\ count' = n
    /\ got' = [got EXCEPT ![r] = n]
    /\ IF First(n)
       THEN at' = [at EXCEPT ![r] = "expire"] /\ UNCHANGED admitted
       ELSE Decide(r, n)
    /\ UNCHANGED <<armed, faults>>

PExpire(r) ==
    /\ at[r] = "expire"
    /\ armed' = (count > 0)
    /\ Decide(r, got[r])
    /\ UNCHANGED <<count, got, faults>>

\* The window is over.
Expire ==
    /\ armed
    /\ count' = 0
    /\ armed' = FALSE
    /\ admitted' = {}
    /\ UNCHANGED <<at, got, faults>>

\* Redis does not answer the PEXPIRE, done or not: the request ends with an
\* error.
PExpireFails(r) ==
    /\ faults < MaxFaults
    /\ faults' = faults + 1
    /\ at[r] = "expire"
    /\ at' = [at EXCEPT ![r] = "error"]
    /\ armed' \in {armed, count > 0}
    /\ UNCHANGED <<count, got, admitted>>

\* The server dies with the requests in flight; Redis goes on.
Crash ==
    /\ faults < MaxFaults
    /\ faults' = faults + 1
    /\ at' = [r \in Requests |-> IF at[r] = "expire" THEN "cut" ELSE at[r]]
    /\ UNCHANGED <<count, armed, got, admitted>>

Next ==
    \/ \E r \in Requests : Incr(r) \/ PExpire(r) \/ PExpireFails(r)
    \/ Expire
    \/ Crash

Spec == Init /\ [][Next]_vars

\* Redis answers what it is asked, and its clock runs.
FairSpec == Spec /\ WF_vars(Expire) /\ \A r \in Requests : WF_vars(PExpire(r))

-----------------------------------------------------------------------------
\* The type of every variable.
TypeOK ==
    /\ count \in Nat
    /\ armed \in BOOLEAN
    /\ at \in [Requests -> {"idle", "expire", "admitted", "refused", "error",
                            "cut"}]
    /\ got \in [Requests -> Nat]
    /\ admitted \subseteq Requests
    /\ faults \in 0 .. MaxFaults

\* No window lets more than Limit comments through, whatever the order of the
\* INCRs and PEXPIREs of overlapping requests: the decision uses the answer of
\* the request's own INCR and never a value read earlier.
WindowLimit == Cardinality(admitted) <= Limit

\* A request between its two calls has made the key it is about to arm, alone:
\* the key is not armed, and the counter has counted the request.
Arming ==
    /\ armed => count > 0
    /\ \A r \in Requests : at[r] = "expire" =>
           /\ got[r] = 1 /\ count > 0 /\ ~armed
           /\ \A s \in Requests : at[s] = "expire" => s = r

\* The counter counts everyone let through and the request still to decide;
\* that one keeps a place under the limit.
Counted ==
    LET open == \E r \in Requests : at[r] = "expire"
        n == Cardinality(admitted) IN
    /\ IsFiniteSet(admitted)
    /\ n <= count /\ n <= Limit
    /\ open => n < count
    /\ open /\ Limit > 0 => n < Limit

\* The inductive invariant of the rate limit: what holds of the counter and of
\* the requests on their way, from which WindowLimit follows.
LimitInv == TypeOK /\ Arming /\ Counted

\* A counter goes back to zero: the user is not locked out for good (comment:
\* the key is cleared after windowMs).
CounterExpires == (count > 0) ~> (count = 0)
=============================================================================
