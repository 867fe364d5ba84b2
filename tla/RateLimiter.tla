----------------------------- MODULE RateLimiter -----------------------------
(***************************************************************************)
(* The gateway's per-organization rate limiter                             *)
(* (services/gateway/app/core/rate_limiter.py).                            *)
(*                                                                         *)
(* Every protected request runs the dependency rate_limit: it sends Redis  *)
(* one MULTI/EXEC pipeline, INCR key followed by EXPIRE key                *)
(* WINDOW_SECONDS, waits for the reply, and compares the counter it got    *)
(* with RATE_LIMIT.  Requests of all gateway workers interleave: between   *)
(* the pipeline and the comparison any other request may run.  Any Redis   *)
(* error lets the request through ("fail-open").                           *)
(*                                                                         *)
(* A request is handled once; its pc goes                                  *)
(*                                                                         *)
(*     new -> sent -> counted -> allowed | rejected                        *)
(*                \-> open <-/        (Redis error: let through unchecked) *)
(***************************************************************************)
EXTENDS Naturals, FiniteSets

CONSTANTS
    Reqs,            \* the requests, each handled once
    Orgs,            \* the values of org_id, one Redis key each
    RATE_LIMIT,
    WINDOW_SECONDS,
    MaxClock,        \* bound: the clock stops here
    MaxOutages       \* bound: Redis goes down at most this often

ASSUME RateLimiterAssumption ==
    /\ RATE_LIMIT \in Nat \ {0}
    /\ WINDOW_SECONDS \in Nat \ {0}
    /\ MaxClock \in Nat
    /\ MaxOutages \in Nat

VARIABLES
    now,        \* wall clock, in seconds
    redis,      \* "up", or "down" when it cannot be reached
    outages,    \* how often Redis has gone down
    counter,    \* counter[o]: value stored at key ratelimit:o, 0 if there is none
    expireAt,   \* expireAt[o]: time at which that key disappears
    era,        \* era[o]: how often Redis has lost the key (history)
    org,        \* org[r]: org_id in the token of request r
    pc,         \* pc[r]: where the handler of r is
    count,      \* count[r]: results[0], the counter value r was told
    at,         \* at[r]: when Redis counted r (history)
    keyEra      \* keyEra[r]: era of the key when it was counted (history)

redisVars == <<redis, outages, counter, expireAt, era>>
reqVars   == <<org, pc, count, at, keyEra>>
vars      == <<now, redisVars, reqVars>>

States == {"new", "sent", "counted", "allowed", "rejected", "open"}

TypeOK ==
    /\ now \in 0..MaxClock
    /\ redis \in {"up", "down"}
    /\ outages \in 0..MaxOutages
    /\ counter \in [Orgs -> Nat]
    /\ expireAt \in [Orgs -> Nat]
    /\ era \in [Orgs -> Nat]
    /\ org \in [Reqs -> Orgs]
    /\ pc \in [Reqs -> States]
    /\ count \in [Reqs -> Nat]
    /\ at \in [Reqs -> Nat]
    /\ keyEra \in [Reqs -> Nat]

Init ==
    /\ now = 0
    /\ redis = "up"
    /\ outages = 0
    /\ counter = [o \in Orgs |-> 0]
    /\ expireAt = [o \in Orgs |-> 0]
    /\ era = [o \in Orgs |-> 0]
    /\ org \in [Reqs -> Orgs]
    /\ pc = [r \in Reqs |-> "new"]
    /\ count = [r \in Reqs |-> 0]
    /\ at = [r \in Reqs |-> 0]
    /\ keyEra = [r \in Reqs |-> 0]

-----------------------------------------------------------------------------
(* The handler *)

\* The key is there: it was set and its time to live has not run out.
Live(o) == counter[o] > 0 /\ now < expireAt[o]

\* Mutants of NextCount, for the runs' sanity: DECR for INCR, and INCR on a
\* counter that never expires.
NextCountDecr(o)  == counter[o] - 1
NextCountNoTTL(o) == counter[o] + 1

\* What INCR returns: a missing key counts as 0.
NextCount(o) == IF Live(o) THEN counter[o] + 1 ELSE 1

\* Mutant of NextExpiry: the TTL is set only when the key is created.
NextExpiryKept(o) == IF Live(o) THEN expireAt[o] ELSE now + WINDOW_SECONDS

\* The time to live EXPIRE leaves on the key: a full window, every time.
NextExpiry(o) == now + WINDOW_SECONDS

\* The request's token was valid; pipe.execute() is awaited.
Send(r) ==
    /\ pc[r] = "new"
    /\ pc' = [pc EXCEPT ![r] = "sent"]
    /\ UNCHANGED <<now, redisVars, org, count, at, keyEra>>

\* Redis runs the pipeline atomically.
Execute(r) ==
    /\ pc[r] = "sent"
    /\ redis = "up"
    /\ LET o == org[r] IN
         /\ counter' = [counter EXCEPT ![o] = NextCount(o)]
         /\ expireAt' = [expireAt EXCEPT ![o] = NextExpiry(o)]
         /\ count' = [count EXCEPT ![r] = NextCount(o)]
         /\ keyEra' = [keyEra EXCEPT ![r] = era[o]]
    /\ at' = [at EXCEPT ![r] = now]
    /\ pc' = [pc EXCEPT ![r] = "counted"]
    /\ UNCHANGED <<now, redis, outages, era, org>>

\* The test the handler makes on the counter it was told.
OverLimit(n) == n > RATE_LIMIT

\* The reply arrives: 429, or the request goes on to the downstream service.
Decide(r) ==
    /\ pc[r] = "counted"
    /\ pc' = [pc EXCEPT ![r] = IF OverLimit(count[r]) THEN "rejected" ELSE "allowed"]
    /\ UNCHANGED <<now, redisVars, org, count, at, keyEra>>

\* execute() raises: Redis was not reached, or went away before its reply.
FailOpen(r) ==
    /\ pc[r] \in {"sent", "counted"}
    /\ redis = "down"
    /\ pc' = [pc EXCEPT ![r] = "open"]
    /\ UNCHANGED <<now, redisVars, org, count, at, keyEra>>

-----------------------------------------------------------------------------
(* The environment *)

Tick ==
    /\ now < MaxClock
    /\ now' = now + 1
    /\ UNCHANGED <<redisVars, reqVars>>

RedisDown ==
    /\ redis = "up"
    /\ outages < MaxOutages
    /\ redis' = "down"
    /\ outages' = outages + 1
    /\ UNCHANGED <<now, counter, expireAt, era, reqVars>>

\* Redis is back, and still has the keys of the organizations in kept.
RedisBack(kept) ==
    /\ redis = "down"
    /\ redis' = "up"
    /\ counter' = [o \in Orgs |-> IF o \in kept THEN counter[o] ELSE 0]
    /\ era' = [o \in Orgs |-> IF o \in kept THEN era[o] ELSE era[o] + 1]
    /\ UNCHANGED <<now, outages, expireAt, reqVars>>

Next ==
    \/ \E r \in Reqs : Send(r) \/ Execute(r) \/ Decide(r) \/ FailOpen(r)
    \/ Tick
    \/ RedisDown
    \/ \E kept \in SUBSET Orgs : RedisBack(kept)

Spec == Init /\ [][Next]_vars

-----------------------------------------------------------------------------
(* Properties *)

Counted(r) == pc[r] \in {"counted", "allowed", "rejected"}

\* The requests of org o that the limiter allowed, counted by Redis in the
\* WINDOW_SECONDS that start at t, under the same incarnation e of the key.
AllowedInWindow(o, e, t) ==
    {r \in Reqs : /\ pc[r] = "allowed"
                  /\ org[r] = o
                  /\ keyEra[r] = e
                  /\ at[r] >= t
                  /\ at[r] < t + WINDOW_SECONDS}

\* In whatever window of WINDOW_SECONDS one looks, and however the requests of
\* the gateway's workers interleave, no organization gets more than RATE_LIMIT
\* requests through the check, unless Redis lost the key meanwhile.
WindowBound ==
    \A o \in Orgs, e \in 0..MaxOutages, t \in 0..MaxClock :
        Cardinality(AllowedInWindow(o, e, t)) <= RATE_LIMIT

\* A counter value n > 1 is always explained by a request of the same
\* organization that was given n - 1 less than WINDOW_SECONDS earlier: nobody is
\* refused for the traffic of others, or for traffic before a quiet window.
CountsAreChained ==
    \A r \in Reqs : Counted(r) /\ count[r] > 1 =>
        \E q \in Reqs \ {r} :
            /\ org[q] = org[r]
            /\ count[q] + 1 = count[r]
            /\ at[q] <= at[r]
            /\ at[r] < at[q] + WINDOW_SECONDS

\* The requests of the latest period of o: those Redis has counted under the
\* key's present incarnation, since it last began at 1.
Period(o) ==
    LET counted == {r \in Reqs : org[r] = o /\ keyEra[r] = era[o] /\ count[r] > 0}
    IN  {r \in counted : \A q \in counted : count[q] = 1 => at[q] <= at[r]}

\* What is known of r: nothing until Redis has counted it, then what the
\* comparison will find, then what was done with it.
Verdict(r) ==
    CASE pc[r] \in {"new", "sent"} -> "none"
      [] pc[r] = "counted"  -> IF OverLimit(count[r]) THEN "refused" ELSE "granted"
      [] pc[r] = "allowed"  -> "passed"
      [] pc[r] = "rejected" -> "stopped"
      [] pc[r] = "open"     -> "waived"

\* The counter with its time to live is a quota per period, whatever requests
\* of other workers run between the pipeline and the comparison.  An outage
\* forgets whole periods, and lets pass the requests it strikes, counted or not.
Quotas == INSTANCE Quota WITH
    clock <- now,
    outage <- (redis = "down"),
    period <- [o \in Orgs |-> Period(o)],
    ends <- expireAt,
    verdict <- [r \in Reqs |-> Verdict(r)]

ImplementsQuota == Quotas!Spec
=============================================================================
