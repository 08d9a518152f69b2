----------------------------- MODULE LoginLimits -----------------------------
(***************************************************************************)
(* The two limits on signing in, both in Redis and shared by the           *)
(* instances: requests per address (RedisThrottlerStorage behind           *)
(* IdentityThrottlerGuard) and failures per account (LoginAttemptLimiter   *)
(* around AuthService.login).  Each Lua script is one step; what a request *)
(* does between two of them is not, and an address may have many requests  *)
(* in flight.  One account.  A key with n = 0 does not exist.              *)
(***************************************************************************)
EXTENDS Naturals, FiniteSets, Absent

CONSTANTS
    Addresses,
    SignIns,                     \* requests to POST /auth/login in flight
    Limit, Ttl, BlockDuration,   \* the login rule
    MaxFailures, Window,         \* MAX_FAILURES, WINDOW_SECONDS
    Latency,                     \* the longest a sign-in takes
    MaxOutages

ASSUME LoginAssumption ==
    /\ IsFiniteSet(Addresses) /\ IsFiniteSet(SignIns)
    /\ {Limit, Ttl, BlockDuration, MaxFailures, Window} \subseteq Nat \ {0}
    \* an argon2 hash and a query are short next to fifteen minutes
    /\ Latency \in Nat /\ Latency < Ttl

VARIABLES
    hits,     \* per address: [n, left], the throttle key and the time it has left
    failures, \* of the account: [n, left]
    signIns,  \* per request: None, or [phase, address, hit, counted, left]: its
              \* totalHits, whether the key that counted it still exists, and the
              \* time within which it ends
    up,       \* Redis answers
    outages

limitVars == <<hits, failures, signIns, up, outages>>

NoKey == [n |-> 0, left |-> 0]
Later(key) == IF key.left <= 1 THEN NoKey ELSE [n |-> key.n, left |-> key.left - 1]

Arrived == {q \in SignIns : signIns[q] # None}
Verifying == {q \in Arrived : signIns[q].phase = "verifying"}

-----------------------------------------------------------------------------
\* Past the limit one count is like another.
Saturated(n) == IF n > Limit THEN Limit + 1 ELSE n

\* INCREMENT_SCRIPT.
counted(key) ==
    LET left == IF key.n = 0 THEN Ttl ELSE key.left
    IN [n |-> Saturated(key.n + 1),
        left |-> IF key.n + 1 > Limit /\ left < BlockDuration THEN BlockDuration ELSE left]

\* The guard: past the limit the request is refused; without Redis this route is too,
\* and nothing is counted.
increment(q, a) ==
    /\ signIns[q] = None /\ up
    /\ hits' = [hits EXCEPT ![a] = counted(hits[a])]
    /\ signIns' = [signIns EXCEPT ![q] =
          IF counted(hits[a]).n > Limit THEN None
          ELSE [phase |-> "admitted", address |-> a, hit |-> counted(hits[a]).n,
                counted |-> TRUE, left |-> Latency]]
    /\ UNCHANGED <<failures, up, outages>>

Passed(s) ==
    [phase |-> "verifying", address |-> s.address, hit |-> s.hit,
     counted |-> s.counted, left |-> s.left]

\* MUTANT of assertNotLockedOut: off by one.
assertNotLockedOutLate(q) ==
    /\ signIns[q] # None /\ signIns[q].phase = "admitted" /\ up
    /\ signIns' = [signIns EXCEPT ![q] =
          IF failures.n <= MaxFailures THEN Passed(signIns[q]) ELSE None]
    /\ UNCHANGED <<hits, failures, up, outages>>

assertNotLockedOut(q) ==
    /\ signIns[q] # None /\ signIns[q].phase = "admitted" /\ up
    /\ signIns' = [signIns EXCEPT ![q] =
          IF failures.n < MaxFailures THEN Passed(signIns[q]) ELSE None]
    /\ UNCHANGED <<hits, failures, up, outages>>

recordFailure(q) ==
    /\ q \in Verifying /\ up
    /\ failures' = [n |-> failures.n + 1, left |-> IF failures.n = 0 THEN Window ELSE failures.left]
    /\ signIns' = [signIns EXCEPT ![q] = None]
    /\ UNCHANGED <<hits, up, outages>>

clear(q) ==
    /\ q \in Verifying /\ up
    /\ failures' = NoKey
    /\ signIns' = [signIns EXCEPT ![q] = None]
    /\ UNCHANGED <<hits, up, outages>>

\* A command that cannot reach Redis throws and the request fails.
BackendFails(q) ==
    /\ q \in Arrived /\ ~up
    /\ signIns' = [signIns EXCEPT ![q] = None]
    /\ UNCHANGED <<hits, failures, up, outages>>

Outage ==
    /\ up' = ~up
    /\ outages' = IF up THEN outages + 1 ELSE outages
    /\ outages' <= MaxOutages
    /\ UNCHANGED <<hits, failures, signIns>>

\* Keys age in Redis, requests in the process; no request outlives its latency.
SecondPasses ==
    /\ \A q \in Arrived : signIns[q].left > 0
    /\ hits' = [a \in Addresses |-> Later(hits[a])]
    /\ failures' = Later(failures)
    /\ signIns' = [q \in SignIns |->
          IF signIns[q] = None THEN None
          ELSE [phase |-> signIns[q].phase, address |-> signIns[q].address, hit |-> signIns[q].hit,
                counted |-> signIns[q].counted /\ hits[signIns[q].address].left > 1,
                left |-> signIns[q].left - 1]]
    /\ UNCHANGED <<up, outages>>

-----------------------------------------------------------------------------
LimitsInit ==
    /\ hits = [a \in Addresses |-> NoKey]
    /\ failures = NoKey
    /\ signIns = [q \in SignIns |-> None]
    /\ up = TRUE
    /\ outages = 0

LimitsNext ==
    \/ \E q \in SignIns : \/ \E a \in Addresses : increment(q, a)
                          \/ assertNotLockedOut(q) \/ recordFailure(q)
                          \/ clear(q) \/ BackendFails(q)
    \/ Outage \/ SecondPasses

LimitsSpec == LimitsInit /\ [][LimitsNext]_limitVars

-----------------------------------------------------------------------------
\* Requests that passed the check together may exceed the limit of failures, since
\* the check and the count are two scripts.  By how much is up to the other limit:
\* an address has at most Limit requests in flight of those its throttle key has
\* counted and, the one that made the key being over, Limit - 1 of those the key
\* before it had.
FailuresBounded ==
    failures.n + Cardinality(Verifying)
        <= MaxFailures - 1 + (2 * Limit - 1) * Cardinality(Addresses)

=============================================================================
