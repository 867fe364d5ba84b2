----------------------------- MODULE PolicyCache -----------------------------
(***************************************************************************)
(* The user-service's permission resolution and its Redis cache            *)
(* (services/user-service/app: core/cache.py, api/routes.py,               *)
(* services/user_service.py, services/group_service.py).                   *)
(*                                                                         *)
(* Reading a user's policies and changing a user's groups are coroutines   *)
(* of one event loop.  Their database work is synchronous, so it never     *)
(* interleaves with that of another coroutine; they interleave where they  *)
(* await Redis, each on a connection of its own.  Assigning policies to    *)
(* groups runs in threads, between any two statements of anything else.    *)
(*                                                                         *)
(*   read:           idle -> miss -> storing -> ok       (a hit: idle->ok) *)
(*   join, leave:    idle -> dropping -> ok                                *)
(*   assign, remove: idle -> checked -> ok                                 *)
(*                                                                         *)
(* "okUncached" is a 200 whose SET or DEL Redis did not take: such errors  *)
(* are logged and swallowed.  "lost" is a request the process died under.  *)
(* Policies are abstracted to their names, without their statements.       *)
(***************************************************************************)
EXTENDS Naturals

CONSTANTS
    Users, Groups, Policies, Orgs,
    OrgOf,          \* the org_id of each user, group and policy
    Reqs,           \* the requests, each handled once
    NoReq, NoKey,
    POLICY_TTL,
    MaxClock,       \* bound: the clock stops here
    MaxFaults       \* bound: Redis goes down, or the service dies, this often

Memberships == Users \X Groups       \* the table user_groups may hold
Links       == Groups \X Policies    \* the table group_policies may hold

ASSUME PolicyCacheAssumption ==
    /\ OrgOf \in [Users \union Groups \union Policies -> Orgs]
    /\ NoReq \notin Reqs
    /\ POLICY_TTL \in Nat \ {0}
    /\ MaxClock \in Nat
    /\ MaxFaults \in Nat

VARIABLES
    now, redis, faults,
    member,     \* rows of user_groups
    link,       \* rows of group_policies
    cachedBy,   \* cachedBy[u]: the read that stored the key policy:u, or NoReq
    expireAt,   \* expireAt[u]: when that key disappears
    op, pc,     \* route and state of each request
    org,        \* org[r]: x-org-id, the organization of r's caller
    key,        \* key[r]: the user, membership or link that r is about
    answer,     \* answer[r]: the policies a read resolved, or found cached
    resolvedBy, \* resolvedBy[r]: the read that resolved what read r answers (history)
    after,      \* after[r]: what was done when r did its database work (history)
    at,         \* at[r]: when it did (history)
    storedAt    \* storedAt[r]: when read r stored its list (history)

tables  == <<member, link>>
cache   == <<cachedBy, expireAt>>
history == <<resolvedBy, after, at, storedAt>>
locals  == <<op, pc, org, key, answer, history>>
vars    == <<now, redis, faults, tables, cache, locals>>

Working == {"miss", "storing", "dropping", "checked"}
Answers == {"ok", "okUncached", "404", "409", "500", "lost"}

TypeOK ==
    /\ now \in 0..MaxClock
    /\ redis \in {"up", "down"}
    /\ faults \in 0..MaxFaults
    /\ member \subseteq Memberships
    /\ link \subseteq Links
    /\ cachedBy \in [Users -> Reqs \union {NoReq}]
    /\ expireAt \in [Users -> Nat]
    /\ op \in [Reqs -> {"none", "read", "join", "leave", "assign", "remove"}]
    /\ pc \in [Reqs -> {"idle"} \union Working \union Answers]
    /\ org \in [Reqs -> Orgs]
    /\ key \in [Reqs -> Users \union Memberships \union Links \union {NoKey}]
    /\ answer \in [Reqs -> SUBSET Policies]
    /\ resolvedBy \in [Reqs -> Reqs \union {NoReq}]
    /\ after \in [Reqs -> SUBSET Reqs]
    /\ at \in [Reqs -> Nat]
    /\ storedAt \in [Reqs -> Nat]

Init ==
    /\ now = 0
    /\ redis = "up"
    /\ faults = 0
    /\ member \in SUBSET {m \in Memberships : OrgOf[m[1]] = OrgOf[m[2]]}
    /\ link \in SUBSET {l \in Links : OrgOf[l[1]] = OrgOf[l[2]]}
    /\ cachedBy = [u \in Users |-> NoReq]
    /\ expireAt = [u \in Users |-> 0]
    /\ op = [r \in Reqs |-> "none"]
    /\ pc = [r \in Reqs |-> "idle"]
    /\ org \in [Reqs -> Orgs]
    /\ key = [r \in Reqs |-> NoKey]
    /\ answer = [r \in Reqs |-> {}]
    /\ resolvedBy = [r \in Reqs |-> NoReq]
    /\ after = [r \in Reqs |-> {}]
    /\ at = [r \in Reqs |-> 0]
    /\ storedAt = [r \in Reqs |-> 0]

-----------------------------------------------------------------------------
Goto(r, state) == pc' = [pc EXCEPT ![r] = state]

\* Request r reaches the service as a call of route o about k.
Begin(r, o, k) ==
    /\ pc[r] = "idle"
    /\ op' = [op EXCEPT ![r] = o]
    /\ key' = [key EXCEPT ![r] = k]
    /\ UNCHANGED <<now, redis, faults, org>>

\* The key policy:u exists and has not expired.
Live(u) == cachedBy[u] # NoReq /\ now < expireAt[u]

ChangesMembership(r) == op[r] \in {"join", "leave"}
ChangesLink(r)       == op[r] \in {"assign", "remove"}

\* r has changed a table.  (A change of membership that was lost had committed.)
Committed(r) ==
    \/ ChangesMembership(r) /\ pc[r] \in {"dropping", "ok", "okUncached", "lost"}
    \/ ChangesLink(r) /\ pc[r] = "ok"

\* The reads that have been answered and the changes that have been committed.
Answered(r) == op[r] = "read" /\ pc[r] \in {"ok", "okUncached"}
Done == {r \in Reqs : Answered(r) \/ Committed(r)}

\* r does its database work now.
Stamp(r) ==
    /\ after' = [after EXCEPT ![r] = Done]
    /\ at' = [at EXCEPT ![r] = now]
    /\ UNCHANGED storedAt

-----------------------------------------------------------------------------
(* GET /users/{user_id}/policies *)

\* Mutants of Effective: a join is forgotten, and the filter on the organization.
EffectiveGroups(u, o) == {g \in Groups : OrgOf[g] = o /\ <<u, g>> \in member}
EffectiveAnyOrg(u, o) ==
    {p \in Policies : \E g \in Groups : <<u, g>> \in member /\ <<g, p>> \in link}

\* The rule engine, for a caller of organization o: user -> groups -> policies.
\* Memberships cannot change under it, and of the links it makes one query.
Effective(u, o) ==
    {p \in Policies : /\ OrgOf[p] = o
                      /\ \E g \in Groups : <<u, g>> \in member /\ <<g, p>> \in link}

\* get_policy_cache: a hit is the answer, to a caller of any organization.  A
\* miss, or an error, is None.
Get(r, u) ==
    /\ Begin(r, "read", u)
    /\ IF redis = "up" /\ Live(u)
         THEN /\ answer' = [answer EXCEPT ![r] = answer[cachedBy[u]]]
              /\ resolvedBy' = [resolvedBy EXCEPT ![r] = cachedBy[u]]
              /\ Goto(r, "ok")
         ELSE /\ Goto(r, "miss")
              /\ UNCHANGED <<answer, resolvedBy>>
    /\ UNCHANGED <<tables, cache, after, at, storedAt>>

\* Mutant of Resolve: the list the result is built in is shared between calls.
ResolveAccumulating(r) ==
    /\ pc[r] = "miss"
    /\ IF OrgOf[key[r]] # org[r]
         THEN Goto(r, "404") /\ UNCHANGED <<answer, history>>
         ELSE /\ answer' = [answer EXCEPT ![r] = Effective(key[r], org[r])
                                                 \union UNION {answer[q] : q \in Reqs}]
              /\ resolvedBy' = [resolvedBy EXCEPT ![r] = r]
              /\ Stamp(r)
              /\ Goto(r, "storing")
    /\ UNCHANGED <<now, redis, faults, tables, cache, op, org, key>>

\* get_user_policies: the caller's organization must be the user's.
Resolve(r) ==
    /\ pc[r] = "miss"
    /\ IF OrgOf[key[r]] # org[r]
         THEN Goto(r, "404") /\ UNCHANGED <<answer, history>>
         ELSE /\ answer' = [answer EXCEPT ![r] = Effective(key[r], org[r])]
              /\ resolvedBy' = [resolvedBy EXCEPT ![r] = r]
              /\ Stamp(r)
              /\ Goto(r, "storing")
    /\ UNCHANGED <<now, redis, faults, tables, cache, op, org, key>>

\* Mutant of Expiry: SET without EX.
ExpiryNever == MaxClock + 1

\* When an entry stored now expires.
Expiry == now + POLICY_TTL

\* set_policy_cache: Redis executes SET policy:u ... EX POLICY_TTL.
Store(r) ==
    /\ pc[r] = "storing"
    /\ redis = "up"
    /\ cachedBy' = [cachedBy EXCEPT ![key[r]] = r]
    /\ expireAt' = [expireAt EXCEPT ![key[r]] = Expiry]
    /\ storedAt' = [storedAt EXCEPT ![r] = now]
    /\ Goto(r, "ok")
    /\ UNCHANGED <<now, redis, faults, tables, op, org, key, answer, resolvedBy, after, at>>

-----------------------------------------------------------------------------
(* POST and DELETE /users/{user_id}/groups: add_user_to_group,              *)
(* remove_user_from_group.  The user's organization is not looked at.       *)

ChangeMembership(r, o, m) ==
    /\ o \in {"join", "leave"}
    /\ Begin(r, o, m)
    /\ IF OrgOf[m[2]] # org[r] \/ (o = "leave" /\ m \notin member)
         THEN Goto(r, "404") /\ UNCHANGED <<member, history>>
       ELSE IF o = "join" /\ m \in member
         THEN Goto(r, "409") /\ UNCHANGED <<member, history>>
       ELSE /\ member' = IF o = "join" THEN member \union {m} ELSE member \ {m}
            /\ Stamp(r)
            /\ UNCHANGED resolvedBy
            /\ Goto(r, "dropping")
    /\ UNCHANGED <<link, cache, answer>>

\* Mutant of Drop: the key deleted is another one.
DropOther(r) ==
    /\ pc[r] = "dropping"
    /\ redis = "up"
    /\ Goto(r, "ok")
    /\ UNCHANGED <<now, redis, faults, tables, cache, op, org, key, answer, history>>

\* invalidate_policy_cache: Redis executes DEL policy:u.
Drop(r) ==
    /\ pc[r] = "dropping"
    /\ redis = "up"
    /\ cachedBy' = [cachedBy EXCEPT ![key[r][1]] = NoReq]
    /\ Goto(r, "ok")
    /\ UNCHANGED <<now, redis, faults, tables, expireAt, op, org, key, answer, history>>

\* SET or DEL raises: Redis is not there.
CacheError(r) ==
    /\ pc[r] \in {"storing", "dropping"}
    /\ redis = "down"
    /\ Goto(r, "okUncached")
    /\ UNCHANGED <<now, redis, faults, tables, cache, op, org, key, answer, history>>

-----------------------------------------------------------------------------
(* POST and DELETE /groups/{group_id}/policies: assign_policy,              *)
(* remove_policy.  The policy's organization is not looked at, and the      *)
(* cache is left alone.                                                     *)

CheckLink(r, o, l) ==
    /\ o \in {"assign", "remove"}
    /\ Begin(r, o, l)
    /\ Goto(r, IF OrgOf[l[1]] # org[r] \/ (o = "remove" /\ l \notin link) THEN "404"
               ELSE IF o = "assign" /\ l \in link THEN "409"
               ELSE "checked")
    /\ UNCHANGED <<tables, cache, answer, history>>

\* A row that was inserted meanwhile violates the primary key, which no route
\* catches; the DELETE of a row that is gone matches nothing.
ChangeLink(r) ==
    /\ pc[r] = "checked"
    /\ IF op[r] = "assign" /\ key[r] \in link
         THEN Goto(r, "500") /\ UNCHANGED <<link, history>>
         ELSE /\ link' = IF op[r] = "assign" THEN link \union {key[r]} ELSE link \ {key[r]}
              /\ Stamp(r)
              /\ UNCHANGED resolvedBy
              /\ Goto(r, "ok")
    /\ UNCHANGED <<now, redis, faults, member, cache, op, org, key, answer>>

-----------------------------------------------------------------------------
(* The environment *)

Tick ==
    /\ now < MaxClock
    /\ now' = now + 1
    /\ UNCHANGED <<redis, faults, tables, cache, locals>>

RedisDown ==
    /\ redis = "up"
    /\ faults < MaxFaults
    /\ redis' = "down"
    /\ faults' = faults + 1
    /\ UNCHANGED <<now, tables, cache, locals>>

\* Redis is back, and still has the keys of the users in kept.
RedisBack(kept) ==
    /\ redis = "down"
    /\ redis' = "up"
    /\ cachedBy' = [u \in Users |-> IF u \in kept THEN cachedBy[u] ELSE NoReq]
    /\ UNCHANGED <<now, faults, tables, expireAt, locals>>

\* The user-service, a single process, dies.
Crash ==
    /\ faults < MaxFaults
    /\ faults' = faults + 1
    /\ pc' = [r \in Reqs |-> IF pc[r] \in Working THEN "lost" ELSE pc[r]]
    /\ UNCHANGED <<now, redis, tables, cache, op, org, key, answer, history>>

Arrive(r) ==
    \/ \E u \in Users : Get(r, u)
    \/ \E o \in {"join", "leave"}, m \in Memberships : ChangeMembership(r, o, m)
    \/ \E o \in {"assign", "remove"}, l \in Links : CheckLink(r, o, l)

Proceed(r) == Resolve(r) \/ Store(r) \/ Drop(r) \/ CacheError(r) \/ ChangeLink(r)

Next ==
    \/ \E r \in Reqs : Arrive(r) \/ Proceed(r)
    \/ Tick
    \/ RedisDown
    \/ \E kept \in SUBSET Users : RedisBack(kept)
    \/ Crash

Spec == Init /\ [][Next]_vars

-----------------------------------------------------------------------------
(* Properties *)

\* Whoever asks for the policies of a user is answered what a read for a caller
\* of the user's own organization resolved, policies of that organization only,
\* although memberships and links may cross organizations.  (A caller of another
\* organization is answered too, if the list is cached.)
ResolvedAtHome ==
    \A r \in Reqs : Answered(r) =>
        \E q \in Reqs :
            /\ q = resolvedBy[r]
            /\ op[q] = "read" /\ key[q] = key[r] /\ org[q] = OrgOf[key[r]]
            /\ answer[r] = answer[q]
            /\ \A p \in answer[r] : OrgOf[p] = OrgOf[key[r]]

\* What was cached before a change of the user's groups is not served once the
\* change has been acknowledged, provided Redis took the DEL.
EvictedOnceAcknowledged ==
    \A u \in Users : Live(u) =>
        \A w \in Reqs : ChangesMembership(w) /\ key[w][1] = u /\ pc[w] = "ok"
                        => cachedBy[u] \notin after[w]

\* How long after its database work read q stored its list.
Delay(q) == storedAt[q] - at[q]

\* Whatever fails, a list that does not know of a change of memberships or links
\* is no longer served POLICY_TTL after the change, if it was stored before it;
\* if it was resolved before and stored after the change, it may be for as much
\* longer as it took the read to store it.  (cache.py: "Max staleness is 5
\* minutes", which holds of the former only.)
MaxStaleness ==
    \A u \in Users : Live(u) =>
        LET q == cachedBy[u] IN
        \A w \in Reqs : Committed(w) =>
            /\ q \in after[w] => now < at[w] + POLICY_TTL
            /\ w \notin after[q] => now < at[w] + POLICY_TTL + Delay(q)

\* A cached list that was resolved after every change so far is the list a
\* database query would give now.
CoherentWhenQuiet ==
    \A u \in Users : Live(u) =>
        LET q == cachedBy[u] IN
        (\A w \in Reqs : Committed(w) => w \in after[q])
        => answer[q] = Effective(u, OrgOf[u])

\* "A policy created in org A cannot be assigned to a group in org B."
LinksStayInOrg == \A l \in link : OrgOf[l[1]] = OrgOf[l[2]]
=============================================================================
