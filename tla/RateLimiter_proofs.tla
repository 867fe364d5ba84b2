-------------------------- MODULE RateLimiter_proofs --------------------------
(***************************************************************************)
(* Proofs about RateLimiter, for any number of requests, organizations and *)
(* outages, any limit and any window length.                               *)
(***************************************************************************)
EXTENDS RateLimiter, FiniteSetTheorems, TLAPS

LEMMA TypeInit == Init => TypeOK
  BY RateLimiterAssumption DEF Init, TypeOK, States

LEMMA TypeStep == TypeOK /\ [Next]_vars => TypeOK'
<1> SUFFICES ASSUME TypeOK, [Next]_vars PROVE TypeOK'
  OBVIOUS
<1> USE RateLimiterAssumption DEF TypeOK, States
<1>1. ASSUME NEW r \in Reqs, Send(r) PROVE TypeOK'
  BY <1>1 DEF Send, redisVars
<1>2. ASSUME NEW r \in Reqs, Execute(r) PROVE TypeOK'
  BY <1>2 DEF Execute, NextCount, NextExpiry
<1>3. ASSUME NEW r \in Reqs, Decide(r) PROVE TypeOK'
  BY <1>3 DEF Decide, redisVars
<1>4. ASSUME NEW r \in Reqs, FailOpen(r) PROVE TypeOK'
  BY <1>4 DEF FailOpen, redisVars
<1>5. CASE Tick
  BY <1>5 DEF Tick, redisVars, reqVars
<1>6. CASE RedisDown
  BY <1>6 DEF RedisDown, reqVars
<1>7. ASSUME NEW kept \in SUBSET Orgs, RedisBack(kept) PROVE TypeOK'
  BY <1>7 DEF RedisBack, reqVars
<1>8. CASE UNCHANGED vars
  BY <1>8 DEF vars, redisVars, reqVars
<1> QED
  BY <1>1, <1>2, <1>3, <1>4, <1>5, <1>6, <1>7, <1>8 DEF Next

\* The limiter's variables keep their types: the counters and clocks stay
\* natural numbers and every handler is in one of its six states.
THEOREM TypeCorrect == Spec => []TypeOK
  BY TypeInit, TypeStep, PTL DEF Spec

-----------------------------------------------------------------------------
(***************************************************************************)
(* The inductive invariant.  A request r has been counted when count[r] is *)
(* positive.  What carries the window bound is RecentBelowCounter: as long *)
(* as a request was counted less than a window ago the key cannot have     *)
(* expired since, so the counter has only grown, and the next request gets *)
(* a value no recent one has.                                              *)
(***************************************************************************)

\* The count of a request says how far its handler is.
CountMatchesState ==
    \A r \in Reqs :
        /\ pc[r] \in {"new", "sent"} => count[r] = 0
        /\ pc[r] \in {"counted", "allowed", "rejected"} => count[r] > 0
        /\ pc[r] = "allowed" => count[r] <= RATE_LIMIT

CountedInThePast ==
    \A r \in Reqs : at[r] <= now /\ keyEra[r] <= era[org[r]]

RecentBelowCounter ==
    \A r \in Reqs :
        (count[r] > 0 /\ keyEra[r] = era[org[r]] /\ now < at[r] + WINDOW_SECONDS)
        => /\ count[r] <= counter[org[r]]
           /\ at[r] + WINDOW_SECONDS <= expireAt[org[r]]

CountsDifferInWindow ==
    \A q, r \in Reqs :
        /\ q # r
        /\ count[q] > 0 /\ count[r] > 0
        /\ org[q] = org[r] /\ keyEra[q] = keyEra[r]
        /\ at[q] <= at[r] /\ at[r] < at[q] + WINDOW_SECONDS
        => count[q] # count[r]

IInv ==
    /\ TypeOK
    /\ CountMatchesState
    /\ CountedInThePast
    /\ RecentBelowCounter
    /\ CountsDifferInWindow

LEMMA IInvInit == Init => IInv
  BY TypeInit DEF Init, IInv, CountMatchesState, CountedInThePast,
     RecentBelowCounter, CountsDifferInWindow

\* Steps of a handler that leave Redis, the clock and every count alone.
LEMMA IInvLocal ==
  ASSUME IInv, TypeOK', NEW r \in Reqs,
         UNCHANGED <<now, redisVars, org, count, at, keyEra>>,
         \/ pc[r] = "new" /\ pc' = [pc EXCEPT ![r] = "sent"]
         \/ /\ pc[r] = "counted"
            /\ pc' = [pc EXCEPT ![r] = IF OverLimit(count[r]) THEN "rejected"
                                                                ELSE "allowed"]
         \/ pc[r] \in {"sent", "counted"} /\ pc' = [pc EXCEPT ![r] = "open"]
  PROVE  IInv'
<1> USE RateLimiterAssumption DEF IInv, TypeOK, redisVars
<1>1. CountMatchesState'
  BY DEF CountMatchesState, OverLimit
<1>2. CountedInThePast' /\ RecentBelowCounter' /\ CountsDifferInWindow'
  BY DEF CountedInThePast, RecentBelowCounter, CountsDifferInWindow
<1> QED
  BY <1>1, <1>2

LEMMA IInvExecute ==
  ASSUME IInv, TypeOK', NEW r \in Reqs, Execute(r)
  PROVE  IInv'
<1> DEFINE o == org[r]
<1> USE RateLimiterAssumption DEF IInv, TypeOK
<1>1. /\ count[r] = 0
      /\ count' = [count EXCEPT ![r] = NextCount(o)]
      /\ counter' = [counter EXCEPT ![o] = NextCount(o)]
      /\ expireAt' = [expireAt EXCEPT ![o] = now + WINDOW_SECONDS]
      /\ at' = [at EXCEPT ![r] = now]
      /\ keyEra' = [keyEra EXCEPT ![r] = era[o]]
      /\ pc' = [pc EXCEPT ![r] = "counted"]
      /\ UNCHANGED <<now, era, org>>
  BY DEF Execute, NextExpiry, CountMatchesState
<1>2. NextCount(o) \in Nat /\ NextCount(o) > 0
  BY DEF NextCount
<1>3. CountMatchesState'
  BY <1>1, <1>2 DEF CountMatchesState
<1>4. CountedInThePast'
  BY <1>1 DEF CountedInThePast
<1>5. ASSUME NEW q \in Reqs, q # r, org[q] = o, count[q] > 0,
             keyEra[q] = era[o], now < at[q] + WINDOW_SECONDS
      PROVE  count[q] < NextCount(o) /\ at[q] <= now
  <2>1. count[q] <= counter[o] /\ at[q] + WINDOW_SECONDS <= expireAt[o]
    BY <1>5 DEF RecentBelowCounter
  <2>2. Live(o)
    BY <1>5, <2>1 DEF Live
  <2> QED
    BY <1>5, <2>1, <2>2 DEF NextCount, CountedInThePast
<1>6. RecentBelowCounter'
  <2> SUFFICES ASSUME NEW q \in Reqs, count'[q] > 0, keyEra'[q] = era[org[q]],
                      now < at'[q] + WINDOW_SECONDS
               PROVE  /\ count'[q] <= counter'[org[q]]
                      /\ at'[q] + WINDOW_SECONDS <= expireAt'[org[q]]
    BY <1>1 DEF RecentBelowCounter
  <2>1. CASE q = r
    BY <2>1, <1>1, <1>2
  <2>2. CASE q # r /\ org[q] = o
    BY <2>2, <1>1, <1>2, <1>5
  <2>3. CASE q # r /\ org[q] # o
    BY <2>3, <1>1 DEF RecentBelowCounter
  <2> QED
    BY <2>1, <2>2, <2>3
<1>7. CountsDifferInWindow'
  <2> SUFFICES ASSUME NEW p \in Reqs, NEW q \in Reqs, p # q,
                      count'[p] > 0, count'[q] > 0, org[p] = org[q],
                      keyEra'[p] = keyEra'[q],
                      at'[p] <= at'[q], at'[q] < at'[p] + WINDOW_SECONDS
               PROVE  count'[p] # count'[q]
    BY <1>1 DEF CountsDifferInWindow
  <2>1. CASE q = r
    BY <2>1, <1>1, <1>2, <1>5
  <2>2. CASE p = r
    <3>1. at[q] <= now
      BY DEF CountedInThePast
    <3> QED
      BY <2>2, <3>1, <1>1, <1>2, <1>5
  <2>3. CASE p # r /\ q # r
    BY <2>3, <1>1 DEF CountsDifferInWindow
  <2> QED
    BY <2>1, <2>2, <2>3
<1> QED
  BY <1>3, <1>4, <1>6, <1>7

LEMMA IInvBack ==
  ASSUME IInv, TypeOK', NEW kept \in SUBSET Orgs, RedisBack(kept)
  PROVE  IInv'
<1> USE RateLimiterAssumption DEF IInv, TypeOK, reqVars
<1>1. /\ counter' = [o \in Orgs |-> IF o \in kept THEN counter[o] ELSE 0]
      /\ era' = [o \in Orgs |-> IF o \in kept THEN era[o] ELSE era[o] + 1]
      /\ UNCHANGED <<now, expireAt, org, pc, count, at, keyEra>>
  BY DEF RedisBack
<1>2. CountMatchesState' /\ CountedInThePast' /\ CountsDifferInWindow'
  BY <1>1 DEF CountMatchesState, CountedInThePast, CountsDifferInWindow
<1>3. RecentBelowCounter'
  <2> SUFFICES ASSUME NEW q \in Reqs, count[q] > 0, keyEra[q] = era'[org[q]],
                      now < at[q] + WINDOW_SECONDS
               PROVE  /\ count[q] <= counter'[org[q]]
                      /\ at[q] + WINDOW_SECONDS <= expireAt[org[q]]
    BY <1>1 DEF RecentBelowCounter
  <2>1. org[q] \in kept
    BY <1>1 DEF CountedInThePast
  <2> QED
    BY <2>1, <1>1 DEF RecentBelowCounter
<1> QED
  BY <1>2, <1>3

LEMMA IInvStep == IInv /\ [Next]_vars => IInv'
<1> SUFFICES ASSUME IInv, [Next]_vars PROVE IInv'
  OBVIOUS
<1>0. TypeOK /\ TypeOK'
  BY TypeStep DEF IInv
<1>1. ASSUME NEW r \in Reqs, Send(r) \/ Decide(r) \/ FailOpen(r) PROVE IInv'
  BY <1>0, <1>1, IInvLocal DEF Send, Decide, FailOpen
<1>2. ASSUME NEW r \in Reqs, Execute(r) PROVE IInv'
  BY <1>0, <1>2, IInvExecute
<1>3. CASE Tick
  BY <1>0, <1>3, RateLimiterAssumption
     DEF Tick, redisVars, reqVars, IInv, TypeOK, CountMatchesState, CountedInThePast,
         RecentBelowCounter, CountsDifferInWindow
<1>4. CASE RedisDown
  BY <1>0, <1>4
     DEF RedisDown, reqVars, IInv, CountMatchesState, CountedInThePast,
         RecentBelowCounter, CountsDifferInWindow
<1>5. ASSUME NEW kept \in SUBSET Orgs, RedisBack(kept) PROVE IInv'
  BY <1>0, <1>5, IInvBack
<1>6. CASE UNCHANGED vars
  BY <1>0, <1>6
     DEF vars, redisVars, reqVars, IInv, CountMatchesState, CountedInThePast,
         RecentBelowCounter, CountsDifferInWindow
<1> QED
  BY <1>1, <1>2, <1>3, <1>4, <1>5, <1>6 DEF Next

LEMMA IInvAlways == Spec => []IInv
  BY IInvInit, IInvStep, PTL DEF Spec

\* Counting is an injection of the allowed requests of a window into the
\* numbers from 1 to RATE_LIMIT.
LEMMA IInvBoundsWindow == IInv => WindowBound
<1> SUFFICES ASSUME IInv, NEW o \in Orgs, NEW e \in 0..MaxOutages, NEW t \in 0..MaxClock
             PROVE  Cardinality(AllowedInWindow(o, e, t)) <= RATE_LIMIT
  BY DEF WindowBound
<1> DEFINE A == AllowedInWindow(o, e, t)
           f == [r \in A |-> count[r]]
<1> USE RateLimiterAssumption DEF IInv, TypeOK
<1>1. f \in [A -> 1..RATE_LIMIT]
  BY DEF AllowedInWindow, CountMatchesState
<1>2. ASSUME NEW q \in A, NEW r \in A, q # r PROVE f[q] # f[r]
  BY <1>2 DEF AllowedInWindow, CountMatchesState, CountsDifferInWindow
<1>3. f \in Injection(A, 1..RATE_LIMIT)
  BY <1>1, <1>2 DEF Injection, IsInjective
<1>4. IsFiniteSet(1..RATE_LIMIT) /\ Cardinality(1..RATE_LIMIT) = RATE_LIMIT
  <2>1. 1 \in Int /\ RATE_LIMIT \in Int /\ ~(1 > RATE_LIMIT)
    OBVIOUS
  <2>2. /\ IsFiniteSet(1..RATE_LIMIT)
        /\ Cardinality(1..RATE_LIMIT) = RATE_LIMIT - 1 + 1
    BY <2>1, FS_Interval, Zenon
  <2> QED
    BY <2>2
<1> HIDE DEF A, f
<1>5. Cardinality(A) <= Cardinality(1..RATE_LIMIT)
  BY <1>3, <1>4, FS_Injection
<1> QED
  BY <1>4, <1>5 DEF A

\* In any window of WINDOW_SECONDS, at most RATE_LIMIT requests of an
\* organization pass the check while Redis keeps the organization's key.
THEOREM WindowBoundHolds == Spec => []WindowBound
  BY IInvAlways, IInvBoundsWindow, PTL

-----------------------------------------------------------------------------
(***************************************************************************)
(* Why a request is refused.  The value at a key was given to some request *)
(* of its organization, exactly one window before the key expires; so the  *)
(* request that next gets n > 1 came within a window of the one with n - 1.*)
(***************************************************************************)
CounterWasGiven ==
    \A o \in Orgs : counter[o] > 0 =>
        \E q \in Reqs : /\ org[q] = o
                        /\ count[q] = counter[o]
                        /\ at[q] + WINDOW_SECONDS = expireAt[o]

Follows(q, r) ==
    /\ org[q] = org[r]
    /\ count[q] + 1 = count[r]
    /\ at[q] <= at[r]
    /\ at[r] < at[q] + WINDOW_SECONDS

Chained == \A r \in Reqs : count[r] > 1 => \E q \in Reqs : Follows(q, r)

CInv == IInv /\ CounterWasGiven /\ Chained

LEMMA CInvInit == Init => CInv
  BY IInvInit DEF Init, CInv, CounterWasGiven, Chained

LEMMA CInvExecute ==
  ASSUME CInv, NEW r \in Reqs, Execute(r)
  PROVE  CounterWasGiven' /\ Chained'
<1> DEFINE o == org[r]
<1> USE RateLimiterAssumption DEF IInv, TypeOK
<1>1. /\ count[r] = 0
      /\ count' = [count EXCEPT ![r] = NextCount(o)]
      /\ counter' = [counter EXCEPT ![o] = NextCount(o)]
      /\ expireAt' = [expireAt EXCEPT ![o] = now + WINDOW_SECONDS]
      /\ at' = [at EXCEPT ![r] = now]
      /\ org' = org
  BY DEF Execute, NextExpiry, CInv, CountMatchesState
<1>2. IInv /\ CounterWasGiven /\ Chained
  BY DEF CInv
<1>3. CounterWasGiven'
  <2> SUFFICES ASSUME NEW p \in Orgs, counter'[p] > 0
               PROVE  \E q \in Reqs : /\ org'[q] = p
                                      /\ count'[q] = counter'[p]
                                      /\ at'[q] + WINDOW_SECONDS = expireAt'[p]
    BY DEF CounterWasGiven
  <2>1. CASE p = o
    BY <2>1, <1>1, <1>2
  <2>2. CASE p # o
    <3>1. PICK q \in Reqs : /\ org[q] = p
                            /\ count[q] = counter[p]
                            /\ at[q] + WINDOW_SECONDS = expireAt[p]
      BY <2>2, <1>1, <1>2 DEF CounterWasGiven
    <3> QED
      BY <3>1, <2>2, <1>1, <1>2
  <2> QED
    BY <2>1, <2>2
<1>4. Chained'
  <2> SUFFICES ASSUME NEW p \in Reqs, count'[p] > 1
               PROVE  \E q \in Reqs : Follows(q, p)'
    BY DEF Chained
  <2>1. CASE p = r
    <3>1. Live(o) /\ NextCount(o) = counter[o] + 1
      BY <2>1, <1>1, <1>2 DEF NextCount
    <3>2. PICK q \in Reqs : /\ org[q] = o
                            /\ count[q] = counter[o]
                            /\ at[q] + WINDOW_SECONDS = expireAt[o]
      BY <3>1, <1>2 DEF CounterWasGiven, Live
    <3>3. q # r /\ at[q] <= now /\ now < at[q] + WINDOW_SECONDS
      BY <3>1, <3>2, <1>1, <1>2 DEF Live, CountedInThePast
    <3> QED
      BY <2>1, <3>1, <3>2, <3>3, <1>1, <1>2 DEF Follows
  <2>2. CASE p # r
    <3>1. PICK q \in Reqs : Follows(q, p)
      BY <2>2, <1>1, <1>2 DEF Chained
    <3>2. CASE q = r
      BY <3>1, <3>2, <2>2, <1>1, <1>2 DEF Follows
    <3>3. CASE q # r
      BY <3>1, <3>3, <2>2, <1>1, <1>2 DEF Follows
    <3> QED
      BY <3>2, <3>3
  <2> QED
    BY <2>1, <2>2
<1> QED
  BY <1>3, <1>4

LEMMA CInvBack ==
  ASSUME CInv, NEW kept \in SUBSET Orgs, RedisBack(kept)
  PROVE  CounterWasGiven' /\ Chained'
<1>1. /\ counter' = [o \in Orgs |-> IF o \in kept THEN counter[o] ELSE 0]
      /\ UNCHANGED <<expireAt, org, count, at>>
  BY DEF RedisBack, reqVars
<1>2. Chained'
  BY <1>1 DEF CInv, Chained, Follows
<1>3. CounterWasGiven'
  <2> SUFFICES ASSUME NEW o \in Orgs, counter'[o] > 0
               PROVE  \E q \in Reqs : /\ org[q] = o
                                      /\ count[q] = counter'[o]
                                      /\ at[q] + WINDOW_SECONDS = expireAt[o]
    BY <1>1 DEF CounterWasGiven
  <2>1. counter'[o] = counter[o]
    BY <1>1
  <2> QED
    BY <2>1 DEF CInv, CounterWasGiven
<1> QED
  BY <1>2, <1>3

LEMMA CInvStep == CInv /\ [Next]_vars => CInv'
<1> SUFFICES ASSUME CInv, [Next]_vars PROVE CInv'
  OBVIOUS
<1>1. IInv'
  BY IInvStep DEF CInv
<1>2. ASSUME UNCHANGED <<counter, expireAt, org, count, at>>
      PROVE  CounterWasGiven' /\ Chained'
  BY <1>2 DEF CInv, CounterWasGiven, Chained, Follows
<1>3. ASSUME NEW r \in Reqs, Send(r) \/ Decide(r) \/ FailOpen(r)
      PROVE  CounterWasGiven' /\ Chained'
  BY <1>3, <1>2 DEF Send, Decide, FailOpen, redisVars
<1>4. ASSUME NEW r \in Reqs, Execute(r) PROVE CounterWasGiven' /\ Chained'
  BY <1>4, CInvExecute
<1>5. ASSUME Tick \/ RedisDown \/ UNCHANGED vars PROVE CounterWasGiven' /\ Chained'
  BY <1>5, <1>2 DEF Tick, RedisDown, vars, redisVars, reqVars
<1>6. ASSUME NEW kept \in SUBSET Orgs, RedisBack(kept)
      PROVE  CounterWasGiven' /\ Chained'
  BY <1>6, CInvBack
<1> QED
  BY <1>1, <1>3, <1>4, <1>5, <1>6 DEF Next, CInv

LEMMA CInvExplainsCounts == CInv => CountsAreChained
  BY DEF CInv, IInv, TypeOK, Chained, Follows, Counted, CountsAreChained

\* A counter value above 1 is always accounted for by an earlier request of the
\* same organization, less than a window before: the chain that ends in a 429.
THEOREM CountsAreChainedHolds == Spec => []CountsAreChained
  BY CInvInit, CInvStep, CInvExplainsCounts, PTL DEF Spec
-----------------------------------------------------------------------------
(***************************************************************************)
(* The refinement.  A counter tells how many requests its period has, and  *)
(* no request that counts can outlast the key: EXPIRE moves its end a full *)
(* window past the latest of them.  So when INCR finds no key all earlier  *)
(* requests are older than a window, and the new one begins a period.      *)
(***************************************************************************)
CounterIsPeriod ==
    \A o \in Orgs : IsFiniteSet(Period(o)) /\ Cardinality(Period(o)) = counter[o]

\* Redis has counted q under the present incarnation of its key.
Counts(q) == count[q] > 0 /\ keyEra[q] = era[org[q]]

CountedBeforeExpiry ==
    \A q \in Reqs : Counts(q) => /\ counter[org[q]] > 0
                                 /\ at[q] + WINDOW_SECONDS <= expireAt[org[q]]

QInv == IInv /\ CounterIsPeriod /\ CountedBeforeExpiry

LEMMA PeriodIs ==
  ASSUME NEW o \in Orgs, NEW q
  PROVE  q \in Period(o) <=>
           /\ q \in Reqs /\ org[q] = o /\ Counts(q)
           /\ \A p \in Reqs : org[p] = o /\ Counts(p) /\ count[p] = 1 => at[p] <= at[q]
  BY DEF Period, Counts

LEMMA PeriodOfExecute ==
  ASSUME QInv, NEW r \in Reqs, Execute(r)
  PROVE  /\ \A o \in Orgs : Period(o)' = IF o = org[r] THEN Quotas!Current(o) \union {r}
                                                       ELSE Period(o)
         /\ IsFiniteSet(Quotas!Current(org[r]))
         /\ NextCount(org[r]) = Cardinality(Quotas!Current(org[r])) + 1
         /\ r \notin Quotas!Current(org[r])
<1> DEFINE mine == org[r]
<1> USE RateLimiterAssumption DEF QInv, IInv, TypeOK
<1>1. /\ count[r] = 0
      /\ count' = [count EXCEPT ![r] = NextCount(mine)]
      /\ at' = [at EXCEPT ![r] = now]
      /\ keyEra' = [keyEra EXCEPT ![r] = era[mine]]
      /\ UNCHANGED <<now, era, org>>
  BY DEF Execute, QInv, CountMatchesState
<1>2. IInv /\ CounterIsPeriod /\ CountedBeforeExpiry /\ mine \in Orgs
  OBVIOUS
<1>3. Quotas!Current(mine) = IF now < expireAt[mine] THEN Period(mine) ELSE {}
  BY DEF Quotas!Current
<1>4. /\ r \notin Quotas!Current(mine)
      /\ IsFiniteSet(Quotas!Current(mine))
      /\ NextCount(mine) = Cardinality(Quotas!Current(mine)) + 1
  <2>1. r \notin Period(mine)
    BY <1>1, <1>2, PeriodIs DEF Counts
  <2>2. CASE now < expireAt[mine]
    BY <2>1, <2>2, <1>2, <1>3 DEF CounterIsPeriod, NextCount, Live
  <2>3. CASE ~(now < expireAt[mine])
    BY <2>3, <1>3, FS_EmptySet DEF NextCount, Live
  <2> QED
    BY <2>2, <2>3
<1>5. /\ Counts(r)' /\ at'[r] = now /\ count'[r] = NextCount(mine)
      /\ \A q \in Reqs : q # r => /\ Counts(q)' = Counts(q)
                                  /\ at'[q] = at[q] /\ count'[q] = count[q]
      /\ ~Counts(r)
      /\ NextCount(mine) \in Nat
  BY <1>1 DEF Counts, NextCount
<1>6. ASSUME NEW o \in Orgs, NEW q
      PROVE  q \in Period(o)' <=>
               /\ q \in Reqs /\ org[q] = o /\ Counts(q)'
               /\ \A p \in Reqs : org[p] = o /\ Counts(p)' /\ count'[p] = 1 => at'[p] <= at'[q]
  BY <1>1 DEF Period, Counts
<1>7. ASSUME NEW o \in Orgs, o # mine PROVE Period(o)' = Period(o)
  <2>1. \A q \in Reqs : org[q] = o => /\ Counts(q)' = Counts(q)
                                      /\ at'[q] = at[q] /\ count'[q] = count[q]
    BY <1>5, <1>7
  <2>2. \A q : q \in Period(o)' <=> q \in Period(o)
    BY <2>1, <1>6, PeriodIs, Zenon
  <2> QED
    BY <2>2 DEF Period
<1>8. Period(mine)' = Quotas!Current(mine) \union {r}
  <2>1. r \in Period(mine)'
    BY <1>1, <1>2, <1>5, <1>6 DEF CountedInThePast
  <2>2. CASE Live(mine)
    <3>1. NextCount(mine) # 1
      BY <2>2 DEF NextCount, Live
    <3>2. ASSUME NEW q, q # r PROVE q \in Period(mine)' <=> q \in Period(mine)
      BY <3>1, <3>2, <1>1, <1>2, <1>5, <1>6, PeriodIs
    <3>3. Quotas!Current(mine) = Period(mine)
      BY <2>2, <1>3 DEF Live
    <3> QED
      BY <3>2, <3>3, <2>1
  <2>3. CASE ~Live(mine)
    <3>1. NextCount(mine) = 1
      BY <2>3 DEF NextCount
    <3>2. ASSUME NEW q \in Reqs, org[q] = mine, Counts(q) PROVE at[q] < now
      BY <3>2, <2>3, <1>2 DEF CountedBeforeExpiry, Live
    <3>3. ASSUME NEW q, q # r PROVE q \notin Period(mine)'
      BY <3>1, <3>2, <3>3, <1>1, <1>2, <1>5, <1>6
    <3>4. Quotas!Current(mine) = {}
      <4>1. CASE now < expireAt[mine]
        <5>1. counter[mine] = 0
          BY <4>1, <2>3, <1>2 DEF Live
        <5> QED
          BY <5>1, <1>2, FS_EmptySet, <1>3, <4>1 DEF CounterIsPeriod
      <4> QED
        BY <4>1, <1>3
    <3> QED
      BY <3>3, <3>4, <2>1
  <2> QED
    BY <2>2, <2>3
<1> QED
  BY <1>1, <1>2, <1>4, <1>7, <1>8

\* Whatever leaves Redis and the requests' places in it alone keeps the periods.
LEMMA PeriodKept ==
  ASSUME UNCHANGED <<era, org, count, at, keyEra>>
  PROVE  \A o \in Orgs : Period(o)' = Period(o)
  BY DEF Period

LEMMA PeriodOfBack ==
  ASSUME QInv, NEW kept \in SUBSET Orgs, RedisBack(kept)
  PROVE  \A o \in Orgs : Period(o)' = IF o \in kept THEN Period(o) ELSE {}
<1> USE DEF QInv, IInv, TypeOK
<1>1. /\ era' = [o \in Orgs |-> IF o \in kept THEN era[o] ELSE era[o] + 1]
      /\ UNCHANGED <<org, count, at, keyEra>>
  BY DEF RedisBack, reqVars
<1>2. ASSUME NEW o \in kept PROVE Period(o)' = Period(o)
  BY <1>1 DEF Period
<1>3. ASSUME NEW o \in Orgs \ kept PROVE Period(o)' = {}
  BY <1>1 DEF Period, CountedInThePast
<1> QED
  BY <1>2, <1>3

LEMMA QInvInit == Init => QInv
<1> SUFFICES ASSUME Init PROVE QInv
  OBVIOUS
<1>1. \A o \in Orgs : Period(o) = {}
  BY DEF Init, Period
<1>2. CounterIsPeriod
  BY <1>1, FS_EmptySet DEF Init, CounterIsPeriod
<1> QED
  BY <1>2, IInvInit DEF Init, QInv, CountedBeforeExpiry, Counts

LEMMA QInvStep == QInv /\ [Next]_vars => QInv'
<1> SUFFICES ASSUME QInv, [Next]_vars PROVE QInv'
  OBVIOUS
<1> USE RateLimiterAssumption
<1>0. /\ IInv /\ IInv' /\ TypeOK /\ TypeOK'
      /\ CounterIsPeriod /\ CountedBeforeExpiry
  BY IInvStep DEF QInv, IInv
<1>1. ASSUME UNCHANGED <<counter, expireAt, era, org, count, at, keyEra>> PROVE QInv'
  <2>1. CounterIsPeriod'
    BY <1>0, <1>1, PeriodKept DEF CounterIsPeriod
  <2> QED
    BY <2>1, <1>0, <1>1 DEF QInv, CountedBeforeExpiry, Counts
<1>2. ASSUME NEW r \in Reqs, Send(r) \/ Decide(r) \/ FailOpen(r) PROVE QInv'
  BY <1>1, <1>2 DEF Send, Decide, FailOpen, redisVars
<1>3. ASSUME Tick \/ RedisDown \/ UNCHANGED vars PROVE QInv'
  BY <1>1, <1>3 DEF Tick, RedisDown, vars, redisVars, reqVars
<1>4. ASSUME NEW r \in Reqs, Execute(r) PROVE QInv'
  <2> DEFINE mine == org[r]
  <2>1. /\ counter' = [counter EXCEPT ![mine] = NextCount(mine)]
        /\ expireAt' = [expireAt EXCEPT ![mine] = now + WINDOW_SECONDS]
        /\ count' = [count EXCEPT ![r] = NextCount(mine)]
        /\ at' = [at EXCEPT ![r] = now]
        /\ keyEra' = [keyEra EXCEPT ![r] = era[mine]]
        /\ UNCHANGED <<now, era, org>>
    BY <1>4 DEF Execute, NextExpiry
  <2>2. CounterIsPeriod'
    <3> SUFFICES ASSUME NEW o \in Orgs
                 PROVE  IsFiniteSet(Period(o)') /\ Cardinality(Period(o)') = counter'[o]
      BY DEF CounterIsPeriod
    <3>1. CASE o = mine
      <4> DEFINE C == Quotas!Current(mine)
      <4>1. /\ Period(o)' = C \union {r}
            /\ IsFiniteSet(C) /\ r \notin C /\ NextCount(mine) = Cardinality(C) + 1
        BY <3>1, <1>4, PeriodOfExecute
      <4>2. counter'[o] = NextCount(mine)
        BY <3>1, <2>1, <1>0 DEF TypeOK
      <4> HIDE DEF C
      <4> QED
        BY <4>1, <4>2, FS_AddElement
    <3>2. CASE o # mine
      <4>1. Period(o)' = Period(o) /\ counter'[o] = counter[o]
        BY <3>2, <2>1, <1>0, <1>4, PeriodOfExecute DEF TypeOK
      <4> QED
        BY <4>1, <1>0 DEF CounterIsPeriod
    <3> QED
      BY <3>1, <3>2
  <2>3. CountedBeforeExpiry'
    <3>1. NextCount(mine) > 0
      BY <1>0 DEF NextCount, TypeOK
    <3> QED
      BY <2>1, <3>1, <1>0 DEF CountedBeforeExpiry, Counts, IInv, TypeOK, CountedInThePast
  <2> QED
    BY <2>2, <2>3, <1>0 DEF QInv
<1>5. ASSUME NEW kept \in SUBSET Orgs, RedisBack(kept) PROVE QInv'
  <2>1. /\ counter' = [o \in Orgs |-> IF o \in kept THEN counter[o] ELSE 0]
        /\ era' = [o \in Orgs |-> IF o \in kept THEN era[o] ELSE era[o] + 1]
        /\ UNCHANGED <<expireAt, org, count, at, keyEra>>
    BY <1>5 DEF RedisBack, reqVars
  <2>2. CounterIsPeriod'
    BY <2>1, <1>0, <1>5, PeriodOfBack, FS_EmptySet DEF CounterIsPeriod
  <2>3. CountedBeforeExpiry'
    BY <2>1, <1>0 DEF CountedBeforeExpiry, Counts, IInv, TypeOK, CountedInThePast
  <2> QED
    BY <2>2, <2>3, <1>0 DEF QInv
<1> QED
  BY <1>2, <1>3, <1>4, <1>5 DEF Next

LEMMA QInvAlways == Spec => []QInv
  BY QInvInit, QInvStep, PTL DEF Spec

LEMMA QuotaInit == Init => Quotas!Init
  BY DEF Init, Quotas!Init, Period, Verdict

\* Only Execute settles what Redis counts, so the handlers' other steps leave the
\* periods alone.
LEMMA HandlersKeepPeriods ==
  ASSUME NEW r \in Reqs, Send(r) \/ Decide(r) \/ FailOpen(r)
  PROVE  UNCHANGED <<now, redis = "down", [o \in Orgs |-> Period(o)], expireAt>>
<1>1. UNCHANGED <<now, redis, expireAt, era, org, count, at, keyEra>>
  BY DEF Send, Decide, FailOpen, redisVars
<1> QED
  BY <1>1, PeriodKept

LEMMA QuotaSend ==
  ASSUME IInv, NEW r \in Reqs, Send(r)
  PROVE  UNCHANGED Quotas!vars
<1>1. \A q \in Reqs : Verdict(q)' = Verdict(q)
  BY DEF IInv, TypeOK, Send, Verdict
<1> QED
  BY <1>1, HandlersKeepPeriods DEF Quotas!vars

\* The comparison answers as was decided by the pipeline.
LEMMA QuotaAnswer ==
  ASSUME IInv, NEW r \in Reqs, Decide(r)
  PROVE  Quotas!Answer(r)
<1> DEFINE verdicts == [q \in Reqs |-> Verdict(q)]
<1>1. /\ pc[r] = "counted"
      /\ pc' = [pc EXCEPT ![r] = IF OverLimit(count[r]) THEN "rejected" ELSE "allowed"]
      /\ count' = count
  BY DEF Decide
<1>2. \A q \in Reqs : q # r => Verdict(q)' = Verdict(q)
  BY <1>1 DEF IInv, TypeOK, Verdict, OverLimit
<1>3. CASE OverLimit(count[r])
  <2>1. Verdict(r) = "refused" /\ Verdict(r)' = "stopped"
    BY <1>1, <1>3 DEF IInv, TypeOK, Verdict
  <2>2. verdicts' = [verdicts EXCEPT ![r] = "stopped"]
    BY <1>2, <2>1
  <2> QED
    BY <2>1, <2>2, HandlersKeepPeriods DEF Quotas!Answer
<1>4. CASE ~OverLimit(count[r])
  <2>1. Verdict(r) = "granted" /\ Verdict(r)' = "passed"
    BY <1>1, <1>4 DEF IInv, TypeOK, Verdict
  <2>2. verdicts' = [verdicts EXCEPT ![r] = "passed"]
    BY <1>2, <2>1
  <2> QED
    BY <2>1, <2>2, HandlersKeepPeriods DEF Quotas!Answer
<1> QED
  BY <1>3, <1>4

\* A Redis error lets the request pass, whether Redis had counted it or not.
LEMMA QuotaWaive ==
  ASSUME IInv, NEW r \in Reqs, FailOpen(r)
  PROVE  Quotas!Waive(r)
<1> DEFINE verdicts == [q \in Reqs |-> Verdict(q)]
<1>1. /\ pc[r] \in {"sent", "counted"} /\ redis = "down"
      /\ pc' = [pc EXCEPT ![r] = "open"]
      /\ count' = count
  BY DEF FailOpen
<1>2. Verdict(r) \in {"none", "granted", "refused"} /\ Verdict(r)' = "waived"
  BY <1>1 DEF IInv, TypeOK, Verdict
<1>3. \A q \in Reqs : q # r => Verdict(q)' = Verdict(q)
  BY <1>1 DEF IInv, TypeOK, Verdict, OverLimit
<1>4. verdicts' = [verdicts EXCEPT ![r] = "waived"]
  BY <1>2, <1>3
<1> QED
  BY <1>1, <1>2, <1>4, HandlersKeepPeriods DEF Quotas!Waive

LEMMA QuotaAsk ==
  ASSUME QInv, NEW r \in Reqs, Execute(r)
  PROVE  Quotas!Ask(r, org[r])
<1> DEFINE mine == org[r]
           C == Quotas!Current(mine)
           verdicts == [q \in Reqs |-> Verdict(q)]
           periods == [o \in Orgs |-> Period(o)]
<1> USE RateLimiterAssumption DEF QInv, IInv, TypeOK
<1>1. /\ pc[r] = "sent" /\ redis = "up" /\ redis' = redis /\ mine \in Orgs
      /\ count' = [count EXCEPT ![r] = NextCount(mine)]
      /\ pc' = [pc EXCEPT ![r] = "counted"]
      /\ expireAt' = [expireAt EXCEPT ![mine] = now + WINDOW_SECONDS]
      /\ now' = now
  BY DEF Execute, NextExpiry
<1>2. NextCount(mine) = Cardinality(C) + 1 /\ Cardinality(C) \in Nat
  BY PeriodOfExecute, FS_CardinalityType
<1> HIDE DEF C
<1>3. verdicts' = [verdicts EXCEPT ![r] = IF Cardinality(C) < RATE_LIMIT THEN "granted"
                                                                       ELSE "refused"]
  <2>1. Verdict(r)' = IF Cardinality(C) < RATE_LIMIT THEN "granted" ELSE "refused"
    BY <1>1, <1>2 DEF Verdict, OverLimit
  <2>2. \A q \in Reqs : q # r => Verdict(q)' = Verdict(q)
    BY <1>1 DEF Verdict, OverLimit
  <2> QED
    BY <2>1, <2>2
<1>4. verdicts[r] = "none"
  BY <1>1 DEF Verdict
<1>5. periods' = [periods EXCEPT ![mine] = C \union {r}]
  BY <1>1, PeriodOfExecute DEF C
<1> QED
  BY <1>1, <1>3, <1>4, <1>5 DEF Quotas!Ask, C, Quotas!Cardinality, Cardinality

LEMMA QuotaStep == QInv /\ [Next]_vars => [Quotas!Next]_(Quotas!vars)
<1> SUFFICES ASSUME QInv, [Next]_vars PROVE [Quotas!Next]_(Quotas!vars)
  OBVIOUS
<1>1. ASSUME NEW r \in Reqs, Send(r) PROVE UNCHANGED Quotas!vars
  BY <1>1, QuotaSend DEF QInv
<1>2. ASSUME NEW r \in Reqs, Execute(r) \/ Decide(r) \/ FailOpen(r) PROVE Quotas!Next
  BY <1>2, QuotaAsk, QuotaAnswer, QuotaWaive DEF Quotas!Next, QInv, IInv, TypeOK
<1>3. ASSUME UNCHANGED <<expireAt, era, reqVars>>
      PROVE  /\ \A o \in Orgs : Period(o)' = Period(o)
             /\ \A q \in Reqs : Verdict(q)' = Verdict(q)
             /\ UNCHANGED expireAt
  BY <1>3, PeriodKept DEF reqVars, Verdict
<1>4. CASE Tick
  <2>1. Quotas!Tick
    BY <1>3, <1>4 DEF Tick, redisVars, Quotas!Tick
  <2> QED
    BY <2>1 DEF Quotas!Next
<1>5. CASE RedisDown
  <2>1. Quotas!OutageBegins
    BY <1>3, <1>5 DEF RedisDown, Quotas!OutageBegins
  <2> QED
    BY <2>1 DEF Quotas!Next
<1>7. CASE UNCHANGED vars
  BY <1>3, <1>7 DEF vars, redisVars, Quotas!vars
<1>6. ASSUME NEW kept \in SUBSET Orgs, RedisBack(kept) PROVE Quotas!Next
  <2> DEFINE periods == [o \in Orgs |-> Period(o)]
             lost == Orgs \ kept
  <2>1. periods' = [o \in Orgs |-> IF o \in lost THEN {} ELSE periods[o]]
    BY <1>6, PeriodOfBack
  <2>2. \A q \in Reqs : Verdict(q)' = Verdict(q)
    BY <1>6 DEF RedisBack, reqVars, Verdict
  <2>3. Quotas!OutageEnds(lost)
    BY <1>6, <2>1, <2>2 DEF RedisBack, Quotas!OutageEnds
  <2> QED
    BY <2>3 DEF Quotas!Next
<1> QED
  BY <1>1, <1>2, <1>4, <1>5, <1>6, <1>7 DEF Next

\* The INCR and EXPIRE of every worker's requests, in whatever order they and
\* the comparisons run, make one quota per organization and period of traffic,
\* which only a Redis error lets a request past.
THEOREM QuotaRefinement == Spec => ImplementsQuota
  BY QuotaInit, QuotaStep, QInvAlways, PTL DEF Spec, ImplementsQuota, Quotas!Spec
=============================================================================
