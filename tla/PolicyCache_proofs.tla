------------------------- MODULE PolicyCache_proofs -------------------------
(***************************************************************************)
(* Proofs about PolicyCache, for any users, groups, policies and           *)
(* organizations, any number of requests, any time to live and any number  *)
(* of failures.                                                            *)
(***************************************************************************)
EXTENDS PolicyCache, TLAPS

-----------------------------------------------------------------------------
(* The inductive invariant *)

\* Each route is about a key of its kind and goes through states of its own, and
\* only reads have lists.
Routes ==
    \A r \in Reqs :
        /\ op[r] = "none" => pc[r] = "idle"
        /\ op[r] # "read" => answer[r] = {}
        /\ op[r] = "read" =>
             key[r] \in Users /\ pc[r] \in {"miss", "storing", "404", "ok", "okUncached", "lost"}
        /\ ChangesMembership(r) =>
             key[r] \in Memberships /\ pc[r] \in {"dropping", "404", "409", "ok", "okUncached", "lost"}
        /\ ChangesLink(r) =>
             key[r] \in Links /\ pc[r] \in {"checked", "404", "409", "500", "ok", "lost"}

\* What is cached for u was resolved and stored by an answered read for u, at
\* most POLICY_TTL ago.
CacheOwned ==
    \A u \in Users : cachedBy[u] # NoReq =>
        /\ cachedBy[u] \in Done
        /\ op[cachedBy[u]] = "read"
        /\ key[cachedBy[u]] = u
        /\ resolvedBy[cachedBy[u]] = cachedBy[u]
        /\ expireAt[u] = storedAt[cachedBy[u]] + POLICY_TTL
        /\ expireAt[u] <= now + POLICY_TTL

\* Whoever did its database work after others did, did so after they were done.
AfterIsDone == \A r \in Reqs : after[r] \subseteq Done

\* A read goes on to store only what it resolved itself.
StoresItsOwn == \A r \in Reqs : pc[r] = "storing" => resolvedBy[r] = r

\* ResolvedAtHome, of reads that are about to store their list too; the list an
\* answer repeats is final.
AtHome(r) ==
    \E q \in Reqs :
        /\ q = resolvedBy[r]
        /\ q = r \/ q \in Done
        /\ op[q] = "read" /\ key[q] = key[r] /\ org[q] = OrgOf[key[r]]
        /\ answer[r] = answer[q]
        /\ \A p \in answer[r] : OrgOf[p] = OrgOf[key[r]]

Sourced ==
    \A r \in Reqs : op[r] = "read" /\ pc[r] \in {"storing", "ok", "okUncached"} => AtHome(r)

\* Database work was done in the past.
AtPast == \A r \in Reqs : at[r] <= now

\* EvictedOnceAcknowledged, of expired entries too.
Evicted ==
    \A u \in Users, w \in Reqs :
        ChangesMembership(w) /\ key[w][1] = u /\ pc[w] = "ok" => cachedBy[u] \notin after[w]

\* Read q has resolved a list that is cached, or about to be.
Resolved(q) == pc[q] = "storing" \/ \E u \in Users : cachedBy[u] = q

\* MaxStaleness, of expired entries too: of lists stored before a change, and of
\* lists resolved, and perhaps not yet stored, that do not know of it.
Aging ==
    \A u \in Users, w \in Reqs :
        Committed(w) /\ cachedBy[u] \in after[w] => expireAt[u] <= at[w] + POLICY_TTL

Unaware ==
    \A q, w \in Reqs : Resolved(q) /\ Committed(w) /\ w \notin after[q] => at[q] <= at[w]

\* CoherentWhenQuiet, of expired entries and of lists about to be stored too.
Coherent ==
    \A q \in Reqs :
        Resolved(q) /\ (\A w \in Reqs : Committed(w) => w \in after[q])
        => answer[q] = Effective(key[q], OrgOf[key[q]])

IInv ==
    /\ TypeOK
    /\ Routes
    /\ CacheOwned
    /\ AfterIsDone
    /\ StoresItsOwn
    /\ Sourced
    /\ AtPast
    /\ Evicted
    /\ Aging
    /\ Unaware
    /\ Coherent

-----------------------------------------------------------------------------
(* Types *)

LEMMA EffectiveType ==
  ASSUME NEW u, NEW o PROVE Effective(u, o) \in SUBSET Policies
  BY DEF Effective

LEMMA DoneType == Done \in SUBSET Reqs
  BY DEF Done

LEMMA TypeInit == Init => TypeOK
  BY PolicyCacheAssumption DEF Init, TypeOK

LEMMA TypeStep == TypeOK /\ Routes /\ [Next]_vars => TypeOK'
<1> SUFFICES ASSUME TypeOK, Routes, [Next]_vars PROVE TypeOK'
  OBVIOUS
<1> USE PolicyCacheAssumption DEF Goto, Working, Answers, tables, cache, history, locals
<1>1. ASSUME NEW r \in Reqs, NEW u \in Users, Get(r, u) PROVE TypeOK'
  <2>1. answer' \in [Reqs -> SUBSET Policies] /\ resolvedBy' \in [Reqs -> Reqs \union {NoReq}]
    BY <1>1 DEF TypeOK, Get, Live
  <2> QED
    BY <1>1, <2>1 DEF TypeOK, Get, Begin
<1>2. ASSUME NEW r \in Reqs, NEW o \in {"join", "leave"}, NEW m \in Memberships,
             ChangeMembership(r, o, m)
      PROVE  TypeOK'
  BY <1>2, DoneType DEF TypeOK, ChangeMembership, Begin, Stamp
<1>3. ASSUME NEW r \in Reqs, NEW o \in {"assign", "remove"}, NEW l \in Links,
             CheckLink(r, o, l)
      PROVE  TypeOK'
  BY <1>3 DEF TypeOK, CheckLink, Begin
<1>4. ASSUME NEW r \in Reqs, Resolve(r) PROVE TypeOK'
  BY <1>4, DoneType, EffectiveType DEF TypeOK, Resolve, Stamp
<1>5. ASSUME NEW r \in Reqs, Store(r) PROVE TypeOK'
  <2>1. Expiry \in Nat
    BY DEF TypeOK, Expiry
  <2>2. expireAt' \in [Users -> Nat]
    BY <1>5, <2>1 DEF TypeOK, Store
  <2> QED
    BY <1>5, <2>2 DEF TypeOK, Store
<1>6. ASSUME NEW r \in Reqs, Drop(r) \/ CacheError(r) PROVE TypeOK'
  BY <1>6 DEF TypeOK, Drop, CacheError
<1>7. ASSUME NEW r \in Reqs, ChangeLink(r) PROVE TypeOK'
  <2>1. key[r] \in Links
    BY <1>7 DEF ChangeLink, Routes, ChangesMembership, ChangesLink, TypeOK
  <2> QED
    BY <1>7, <2>1, DoneType DEF TypeOK, ChangeLink, Stamp
<1>8. CASE Tick \/ RedisDown \/ Crash
  BY <1>8 DEF TypeOK, Tick, RedisDown, Crash
<1>9. ASSUME NEW kept \in SUBSET Users, RedisBack(kept) PROVE TypeOK'
  BY <1>9 DEF TypeOK, RedisBack
<1>10. CASE UNCHANGED vars
  BY <1>10 DEF TypeOK, vars
<1> QED
  BY <1>1, <1>2, <1>3, <1>4, <1>5, <1>6, <1>7, <1>8, <1>9, <1>10
     DEF Next, Arrive, Proceed

-----------------------------------------------------------------------------
(* The other parts, one lemma for each action *)

\* A list and where it comes from stay as they are while what is done does.
LEMMA AtHomeKept ==
  ASSUME NEW r \in Reqs, AtHome(r), Done \subseteq Done', org' = org,
         resolvedBy'[r] = resolvedBy[r],
         \A x \in Reqs : x = r \/ x \in Done =>
                         op'[x] = op[x] /\ key'[x] = key[x] /\ answer'[x] = answer[x]
  PROVE  AtHome(r)'
  BY DEF AtHome

LEMMA IInvInit == Init => IInv
<1> SUFFICES ASSUME Init PROVE IInv
  OBVIOUS
<1> USE PolicyCacheAssumption
<1>1. TypeOK
  BY TypeInit
<1>2. \A r \in Reqs : /\ ~Committed(r) /\ after[r] = {} /\ answer[r] = {}
                      /\ pc[r] = "idle" /\ op[r] = "none"
  BY DEF Init, Committed, ChangesMembership, ChangesLink
<1>3. \A u \in Users : cachedBy[u] = NoReq
  BY DEF Init
<1>4. Routes /\ CacheOwned /\ AfterIsDone /\ StoresItsOwn /\ Sourced
  BY <1>2, <1>3 DEF Routes, CacheOwned, AfterIsDone, StoresItsOwn, Sourced,
                    ChangesMembership, ChangesLink
<1>5. AtPast /\ Evicted /\ Aging /\ Unaware /\ Coherent
  BY <1>2, <1>3 DEF Init, AtPast, Evicted, Aging, Unaware, Coherent, Resolved
<1> QED
  BY <1>1, <1>4, <1>5 DEF IInv

LEMMA IInvGet ==
  ASSUME IInv, TypeOK', NEW r \in Reqs, NEW u \in Users, Get(r, u) PROVE IInv'
<1> USE PolicyCacheAssumption
<1>1. /\ pc[r] = "idle" /\ op' = [op EXCEPT ![r] = "read"] /\ key' = [key EXCEPT ![r] = u]
      /\ UNCHANGED <<now, org, member, link, cachedBy, expireAt, after, at, storedAt>>
  BY DEF Get, Begin, tables, cache
<1>2. \/ pc' = [pc EXCEPT ![r] = "ok"] /\ Live(u)
         /\ answer' = [answer EXCEPT ![r] = answer[cachedBy[u]]]
         /\ resolvedBy' = [resolvedBy EXCEPT ![r] = cachedBy[u]]
      \/ pc' = [pc EXCEPT ![r] = "miss"] /\ UNCHANGED <<answer, resolvedBy>>
  BY DEF Get, Goto
<1>3. op[r] = "none"
  BY <1>1 DEF IInv, Routes, TypeOK, ChangesMembership, ChangesLink
<1>4. r \notin Done /\ ~Committed(r) /\ ~Committed(r)'
  BY <1>1, <1>3 DEF Done, Answered, Committed, ChangesMembership, ChangesLink, IInv, TypeOK
<1>5. Done \subseteq Done'
  BY <1>1, <1>2, <1>4 DEF Done, Answered, Committed, ChangesMembership, ChangesLink, IInv, TypeOK
<1>6. \A x \in Reqs \ {r} : Committed(x)' = Committed(x) /\ key'[x] = key[x] /\ answer'[x] = answer[x]
                            /\ op'[x] = op[x] /\ pc'[x] = pc[x]
                            /\ resolvedBy'[x] = resolvedBy[x]
  BY <1>1, <1>2 DEF Committed, ChangesMembership, ChangesLink, IInv, TypeOK
<1>7. \A v \in Users : cachedBy[v] # r
  BY <1>4 DEF IInv, CacheOwned
<1>8. Routes'
  BY <1>1, <1>2 DEF Routes, ChangesMembership, ChangesLink, IInv, TypeOK
<1>9. CacheOwned'
  BY <1>1, <1>5, <1>6, <1>7 DEF CacheOwned, IInv, TypeOK
<1>10. AfterIsDone'
  BY <1>1, <1>5 DEF AfterIsDone, IInv
<1>11. StoresItsOwn' /\ AtPast'
  BY <1>1, <1>2, <1>6 DEF StoresItsOwn, AtPast, IInv, TypeOK
<1>12. Sourced'
  <2> SUFFICES ASSUME NEW x \in Reqs, op'[x] = "read", pc'[x] \in {"storing", "ok", "okUncached"}
               PROVE  AtHome(x)'
    BY DEF Sourced
  <2>1. CASE x # r
    <3>1. AtHome(x)
      BY <1>6, <2>1 DEF Sourced, IInv
    <3> QED
      BY <1>1, <1>4, <1>5, <1>6, <2>1, <3>1, AtHomeKept
  <2>2. CASE x = r
    <3> DEFINE q == cachedBy[u]
    <3>1. /\ answer' = [answer EXCEPT ![r] = answer[q]] /\ Live(u)
          /\ resolvedBy' = [resolvedBy EXCEPT ![r] = q]
      BY <1>1, <1>2, <2>2 DEF IInv, TypeOK
    <3>2. /\ q \in Reqs /\ q \in Done /\ op[q] = "read" /\ key[q] = u /\ resolvedBy[q] = q
          /\ pc[q] \in {"ok", "okUncached"}
      BY <3>1 DEF Live, CacheOwned, Done, Answered, Committed, ChangesMembership,
                  ChangesLink, IInv
    <3>3. AtHome(q)
      BY <3>2 DEF Sourced, IInv
    <3>4. org[q] = OrgOf[u] /\ \A p \in answer[q] : OrgOf[p] = OrgOf[u]
      BY <3>2, <3>3 DEF AtHome
    <3>5. q # r /\ q \in Done'
      BY <1>4, <1>5, <3>2
    <3>6. /\ resolvedBy'[r] = q /\ key'[r] = u /\ answer'[r] = answer[q]
          /\ op'[q] = "read" /\ key'[q] = u /\ answer'[q] = answer[q] /\ org'[q] = org[q]
      BY <1>1, <1>6, <3>1, <3>2, <3>5 DEF IInv, TypeOK
    <3> QED
      BY <2>2, <3>2, <3>4, <3>5, <3>6 DEF AtHome
  <2> QED
    BY <2>1, <2>2
<1>13. Evicted'
  BY <1>1, <1>2, <1>6 DEF Evicted, ChangesMembership, IInv, TypeOK
<1>14. Aging'
  BY <1>1, <1>4, <1>6 DEF Aging, IInv
<1>16. Unaware'
  <2>1. \A q \in Reqs : Resolved(q)' => q # r /\ Resolved(q)
    BY <1>1, <1>2, <1>6, <1>7 DEF Resolved, IInv, TypeOK
  <2> QED
    BY <1>1, <1>4, <1>6, <2>1 DEF Unaware, IInv
<1>15. Coherent'
  <2> SUFFICES ASSUME NEW q \in Reqs, Resolved(q)',
                      \A w \in Reqs : Committed(w)' => w \in after'[q]
               PROVE  (answer[q] = Effective(key[q], OrgOf[key[q]]))'
    BY DEF Coherent
  <2>1. q # r
    BY <1>1, <1>2, <1>7 DEF Resolved, IInv, TypeOK
  <2>2. Resolved(q)
    BY <1>1, <1>6, <2>1 DEF Resolved
  <2>3. \A w \in Reqs : Committed(w) => w \in after[q]
    BY <1>1, <1>4, <1>6
  <2>4. answer[q] = Effective(key[q], OrgOf[key[q]])
    BY <2>2, <2>3 DEF Coherent, IInv
  <2> QED
    BY <1>1, <1>6, <2>1, <2>4 DEF Effective
<1> QED
  BY <1>8, <1>9, <1>10, <1>11, <1>12, <1>13, <1>14, <1>15, <1>16 DEF IInv

LEMMA IInvResolve ==
  ASSUME IInv, TypeOK', NEW r \in Reqs, Resolve(r) PROVE IInv'
<1> USE PolicyCacheAssumption
<1>1. /\ pc[r] = "miss" /\ op[r] = "read" /\ key[r] \in Users
      /\ UNCHANGED <<now, org, member, link, cachedBy, expireAt, op, key, storedAt>>
  BY DEF Resolve, Stamp, history, tables, cache, IInv, Routes, TypeOK, ChangesMembership, ChangesLink
<1>2. \/ pc' = [pc EXCEPT ![r] = "404"] /\ UNCHANGED <<answer, resolvedBy, after, at>>
      \/ /\ OrgOf[key[r]] = org[r]
         /\ pc' = [pc EXCEPT ![r] = "storing"]
         /\ answer' = [answer EXCEPT ![r] = Effective(key[r], org[r])]
         /\ resolvedBy' = [resolvedBy EXCEPT ![r] = r]
         /\ after' = [after EXCEPT ![r] = Done]
         /\ at' = [at EXCEPT ![r] = now]
  BY DEF Resolve, Goto, Stamp, history
<1>3. r \notin Done /\ ~Committed(r) /\ ~Committed(r)'
  BY <1>1 DEF Done, Answered, Committed, ChangesMembership, ChangesLink
<1>4. \A x \in Reqs \ {r} : /\ Committed(x)' = Committed(x) /\ pc'[x] = pc[x]
                            /\ answer'[x] = answer[x] /\ after'[x] = after[x] /\ at'[x] = at[x]
                            /\ resolvedBy'[x] = resolvedBy[x]
  BY <1>1, <1>2 DEF Committed, ChangesMembership, ChangesLink, IInv, TypeOK
<1>5. Done' = Done
  BY <1>1, <1>2, <1>3, <1>4 DEF Done, Answered, IInv, TypeOK
<1>6. \A v \in Users : cachedBy[v] # r
  BY <1>3 DEF IInv, CacheOwned
<1>7. Routes'
  BY <1>1, <1>2 DEF Routes, ChangesMembership, ChangesLink, IInv, TypeOK
<1>8. CacheOwned'
  BY <1>1, <1>4, <1>5, <1>6 DEF CacheOwned, IInv, TypeOK
<1>9. AfterIsDone'
  BY <1>2, <1>5 DEF AfterIsDone, IInv, TypeOK
<1>10. StoresItsOwn' /\ AtPast'
  BY <1>1, <1>2, <1>4 DEF StoresItsOwn, AtPast, IInv, TypeOK
<1>11. Sourced'
  <2> SUFFICES ASSUME NEW x \in Reqs, op'[x] = "read", pc'[x] \in {"storing", "ok", "okUncached"}
               PROVE  AtHome(x)'
    BY DEF Sourced
  <2>1. CASE x # r
    <3>1. AtHome(x)
      BY <1>1, <1>4, <2>1 DEF Sourced, IInv
    <3>2. org' = org /\ op' = op /\ key' = key
      BY <1>1
    <3> QED
      BY <1>3, <1>4, <1>5, <2>1, <3>1, <3>2, AtHomeKept
  <2>2. CASE x = r
    <3>1. /\ OrgOf[key[r]] = org[r] /\ resolvedBy'[r] = r
          /\ answer'[r] = Effective(key[r], org[r])
      BY <1>1, <1>2, <2>2 DEF IInv, TypeOK
    <3> QED
      BY <1>1, <2>2, <3>1 DEF AtHome, Effective
  <2> QED
    BY <2>1, <2>2
<1>12. Evicted'
  BY <1>1, <1>4 DEF Evicted, ChangesMembership, IInv
<1>13. Aging'
  BY <1>1, <1>3, <1>4 DEF Aging, IInv
<1>14. Effective(key[r], org[r])' = Effective(key[r], org[r])
  BY <1>1 DEF Effective
<1>16. Unaware'
  <2> SUFFICES ASSUME NEW q \in Reqs, NEW w \in Reqs, Resolved(q)', Committed(w)', w \notin after'[q]
               PROVE  at'[q] <= at'[w]
    BY DEF Unaware
  <2>1. w # r /\ Committed(w) /\ w \in Done
    BY <1>3, <1>4 DEF Done
  <2>2. CASE q = r
    BY <1>1, <1>2, <1>6, <2>1, <2>2 DEF Resolved, IInv, TypeOK
  <2>3. CASE q # r
    BY <1>1, <1>4, <2>1, <2>3 DEF Unaware, Resolved, IInv
  <2> QED
    BY <2>2, <2>3
<1>15. Coherent'
  <2> SUFFICES ASSUME NEW q \in Reqs, Resolved(q)', \A w \in Reqs : Committed(w)' => w \in after'[q]
               PROVE  answer'[q] = Effective(key[q], OrgOf[key[q]])'
    BY <1>1 DEF Coherent
  <2>1. CASE q = r
    BY <1>1, <1>2, <1>6, <1>14, <2>1 DEF Resolved, IInv, TypeOK
  <2>2. CASE q # r
    <3>1. Resolved(q) /\ \A w \in Reqs : Committed(w) => w \in after[q]
      BY <1>1, <1>3, <1>4, <2>2 DEF Resolved
    <3> QED
      BY <1>1, <1>4, <2>2, <3>1 DEF Coherent, Effective, IInv
  <2> QED
    BY <2>1, <2>2
<1> QED
  BY <1>7, <1>8, <1>9, <1>10, <1>11, <1>12, <1>13, <1>15, <1>16 DEF IInv

LEMMA IInvStore ==
  ASSUME IInv, TypeOK', NEW r \in Reqs, Store(r) PROVE IInv'
<1> USE PolicyCacheAssumption
<1>1. /\ pc[r] = "storing" /\ op[r] = "read" /\ key[r] \in Users
      /\ pc' = [pc EXCEPT ![r] = "ok"]
      /\ cachedBy' = [cachedBy EXCEPT ![key[r]] = r]
      /\ expireAt' = [expireAt EXCEPT ![key[r]] = now + POLICY_TTL]
      /\ storedAt' = [storedAt EXCEPT ![r] = now]
      /\ UNCHANGED <<now, org, member, link, op, key, answer, resolvedBy, after, at>>
  BY DEF Store, Goto, Expiry, tables, IInv, Routes, TypeOK, ChangesMembership, ChangesLink
<1>2. r \notin Done /\ ~Committed(r) /\ ~Committed(r)'
  BY <1>1 DEF Done, Answered, Committed, ChangesMembership, ChangesLink
<1>3. \A x \in Reqs \ {r} : Committed(x)' = Committed(x) /\ pc'[x] = pc[x]
  BY <1>1 DEF Committed, ChangesMembership, ChangesLink, IInv, TypeOK
<1>4. Done' = Done \union {r}
  BY <1>1, <1>2, <1>3 DEF Done, Answered, IInv, TypeOK
<1>5. \A x \in Reqs : r \notin after[x]
  BY <1>2 DEF AfterIsDone, IInv
<1>6. Routes'
  BY <1>1 DEF Routes, ChangesMembership, ChangesLink, IInv, TypeOK
<1>7. CacheOwned'
  <2> SUFFICES ASSUME NEW u \in Users, cachedBy'[u] # NoReq
               PROVE  /\ cachedBy'[u] \in Done'
                      /\ op'[cachedBy'[u]] = "read" /\ key'[cachedBy'[u]] = u
                      /\ resolvedBy'[cachedBy'[u]] = cachedBy'[u]
                      /\ expireAt'[u] = storedAt'[cachedBy'[u]] + POLICY_TTL
                      /\ expireAt'[u] <= now' + POLICY_TTL
    BY DEF CacheOwned
  <2>1. CASE u = key[r]
    BY <1>1, <1>4, <2>1 DEF StoresItsOwn, IInv, TypeOK
  <2>2. CASE u # key[r]
    BY <1>1, <1>2, <1>4, <2>2 DEF CacheOwned, IInv, TypeOK
  <2> QED
    BY <2>1, <2>2
<1>8. AfterIsDone'
  BY <1>1, <1>4 DEF AfterIsDone, IInv
<1>9. StoresItsOwn' /\ AtPast' /\ Sourced'
  <2>1. \A x \in Reqs : op'[x] = "read" /\ pc'[x] \in {"storing", "ok", "okUncached"} => AtHome(x)
    BY <1>1 DEF Sourced, IInv, TypeOK
  <2> QED
    BY <1>1, <1>4, <2>1, AtHomeKept DEF StoresItsOwn, AtPast, Sourced, IInv, TypeOK
<1>10. Evicted'
  BY <1>1, <1>3, <1>5 DEF Evicted, ChangesMembership, IInv, TypeOK
<1>11. Aging'
  BY <1>1, <1>2, <1>3, <1>5 DEF Aging, IInv, TypeOK
<1>12. Unaware' /\ Coherent'
  <2>1. \A q \in Reqs : Resolved(q)' => Resolved(q)
    BY <1>1 DEF Resolved, IInv, TypeOK
  <2> QED
    BY <1>1, <1>2, <1>3, <2>1 DEF Unaware, Coherent, Effective, IInv
<1> QED
  BY <1>6, <1>7, <1>8, <1>9, <1>10, <1>11, <1>12 DEF IInv

LEMMA IInvChangeMembership ==
  ASSUME IInv, TypeOK', NEW r \in Reqs, NEW o \in {"join", "leave"}, NEW m \in Memberships,
         ChangeMembership(r, o, m)
  PROVE  IInv'
<1> USE PolicyCacheAssumption
<1>1. /\ pc[r] = "idle" /\ op' = [op EXCEPT ![r] = o] /\ key' = [key EXCEPT ![r] = m]
      /\ UNCHANGED <<now, org, link, cachedBy, expireAt, answer, resolvedBy, storedAt>>
  BY DEF ChangeMembership, Begin, Stamp, history, cache
<1>2. \/ /\ pc' = [pc EXCEPT ![r] = "404"] \/ pc' = [pc EXCEPT ![r] = "409"]
         /\ UNCHANGED <<member, after, at>>
      \/ /\ pc' = [pc EXCEPT ![r] = "dropping"]
         /\ after' = [after EXCEPT ![r] = Done]
         /\ at' = [at EXCEPT ![r] = now]
  BY DEF ChangeMembership, Goto, Stamp, history
<1>3. op[r] = "none"
  BY <1>1 DEF IInv, Routes, TypeOK, ChangesMembership, ChangesLink
<1>4. r \notin Done /\ ~Committed(r) /\ answer[r] = {}
  BY <1>1, <1>3 DEF Done, Answered, Committed, ChangesMembership, ChangesLink, IInv, Routes
<1>5. \A x \in Reqs \ {r} : /\ Committed(x)' = Committed(x) /\ pc'[x] = pc[x] /\ op'[x] = op[x]
                            /\ key'[x] = key[x] /\ after'[x] = after[x] /\ at'[x] = at[x]
  BY <1>1, <1>2 DEF Committed, ChangesMembership, ChangesLink, IInv, TypeOK
<1>6. Done \subseteq Done'
  BY <1>4, <1>5 DEF Done, Answered
<1>7. \A v \in Users : cachedBy[v] # r
  BY <1>4 DEF IInv, CacheOwned
<1>8. Routes'
  BY <1>1, <1>2, <1>4 DEF Routes, ChangesMembership, ChangesLink, IInv, TypeOK
<1>9. CacheOwned'
  BY <1>1, <1>5, <1>6, <1>7 DEF CacheOwned, IInv, TypeOK
<1>10. AfterIsDone'
  BY <1>2, <1>5, <1>6 DEF AfterIsDone, IInv, TypeOK
<1>11. StoresItsOwn' /\ AtPast' /\ Sourced'
  <2>1. \A x \in Reqs : op'[x] = "read" /\ pc'[x] \in {"storing", "ok", "okUncached"}
                       => x # r /\ AtHome(x)
    BY <1>1, <1>2, <1>5 DEF Sourced, IInv, TypeOK
  <2>2. \A x \in Reqs : x # r /\ AtHome(x) => AtHome(x)'
    BY <1>1, <1>4, <1>5, <1>6, AtHomeKept
  <2> QED
    BY <1>1, <1>2, <1>5, <2>1, <2>2 DEF StoresItsOwn, AtPast, Sourced, IInv, TypeOK
<1>12. Evicted'
  BY <1>1, <1>2, <1>5 DEF Evicted, ChangesMembership, IInv, TypeOK
<1>13. Aging'
  <2> SUFFICES ASSUME NEW u \in Users, NEW w \in Reqs, Committed(w)', cachedBy'[u] \in after'[w]
               PROVE  expireAt'[u] <= at'[w] + POLICY_TTL
    BY DEF Aging
  <2>1. CASE w = r
    <3>1. after'[r] = Done /\ at'[r] = now
      BY <1>1, <1>2, <2>1 DEF Committed, ChangesMembership, ChangesLink, IInv, TypeOK
    <3>2. cachedBy[u] # NoReq
      BY <1>1, <2>1, <3>1, DoneType
    <3> QED
      BY <1>1, <2>1, <3>1, <3>2 DEF CacheOwned, IInv
  <2>2. CASE w # r
    BY <1>1, <1>5, <2>2 DEF Aging, IInv
  <2> QED
    BY <2>1, <2>2
<1>15. Unaware'
  <2> SUFFICES ASSUME NEW q \in Reqs, NEW w \in Reqs, Resolved(q)', Committed(w)', w \notin after'[q]
               PROVE  at'[q] <= at'[w]
    BY DEF Unaware
  <2>1. q # r /\ Resolved(q)
    BY <1>1, <1>2, <1>5, <1>7 DEF Resolved, IInv, TypeOK
  <2>2. CASE w = r
    <3>1. at'[r] = now
      BY <1>1, <1>2, <2>2 DEF Committed, ChangesMembership, ChangesLink, IInv, TypeOK
    <3> QED
      BY <1>5, <2>1, <2>2, <3>1 DEF AtPast, IInv
  <2>3. CASE w # r
    BY <1>5, <2>1, <2>3 DEF Unaware, IInv
  <2> QED
    BY <2>2, <2>3
<1>14. Coherent'
  <2> SUFFICES ASSUME NEW q \in Reqs, Resolved(q)', \A w \in Reqs : Committed(w)' => w \in after'[q]
               PROVE  answer'[q] = Effective(key[q], OrgOf[key[q]])'
    BY DEF Coherent
  <2>1. q # r /\ Resolved(q)
    BY <1>1, <1>2, <1>5, <1>7 DEF Resolved, IInv, TypeOK
  <2>2. r \notin after[q]
    BY <1>4 DEF AfterIsDone, IInv
  <2>3. ~Committed(r)'
    BY <1>5, <2>1, <2>2
  <2>4. UNCHANGED member
    BY <1>1, <1>2, <2>3 DEF Committed, ChangesMembership, IInv, TypeOK
  <2>5. \A w \in Reqs : Committed(w) => w \in after[q]
    BY <1>4, <1>5, <2>1
  <2>6. answer[q] = Effective(key[q], OrgOf[key[q]])
    BY <2>1, <2>5 DEF Coherent, IInv
  <2>7. Effective(key[q], OrgOf[key[q]])' = Effective(key[q], OrgOf[key[q]])
    BY <1>1, <1>5, <2>1, <2>4 DEF Effective
  <2> QED
    BY <1>1, <2>6, <2>7
<1> QED
  BY <1>8, <1>9, <1>10, <1>11, <1>12, <1>13, <1>14, <1>15 DEF IInv

LEMMA IInvDrop ==
  ASSUME IInv, TypeOK', NEW r \in Reqs, Drop(r) PROVE IInv'
<1> USE PolicyCacheAssumption
<1>1. /\ pc[r] = "dropping" /\ ChangesMembership(r) /\ key[r] \in Memberships
      /\ pc' = [pc EXCEPT ![r] = "ok"]
      /\ cachedBy' = [cachedBy EXCEPT ![key[r][1]] = NoReq]
      /\ UNCHANGED <<now, org, member, link, expireAt, op, key, answer, resolvedBy, after, at, storedAt>>
  BY DEF history, Drop, Goto, tables, IInv, Routes, TypeOK, ChangesMembership, ChangesLink
<1>2. key[r][1] \in Users
  BY <1>1 DEF Memberships
<1>3. \A x \in Reqs : Committed(x)' = Committed(x) /\ Answered(x)' = Answered(x)
  BY <1>1 DEF Committed, Answered, ChangesMembership, ChangesLink, IInv, TypeOK
<1>4. Done' = Done
  BY <1>3 DEF Done
<1>5. \A u \in Users : cachedBy'[u] \in {cachedBy[u], NoReq}
  BY <1>1, <1>2 DEF IInv, TypeOK
<1>6. \A x \in Reqs : NoReq \notin after[x]
  BY DEF IInv, TypeOK
<1>7. Routes'
  BY <1>1 DEF Routes, ChangesMembership, ChangesLink, IInv, TypeOK
<1>8. CacheOwned'
  BY <1>1, <1>4, <1>5 DEF CacheOwned, IInv
<1>9. AfterIsDone' /\ StoresItsOwn' /\ AtPast' /\ Sourced'
  <2>1. \A x \in Reqs : op'[x] = "read" /\ pc'[x] \in {"storing", "ok", "okUncached"} => AtHome(x)
    BY <1>1 DEF ChangesMembership, Sourced, IInv, TypeOK
  <2> QED
    BY <1>1, <1>4, <2>1, AtHomeKept DEF AfterIsDone, StoresItsOwn, AtPast, Sourced, IInv, TypeOK
<1>10. Evicted'
  <2> SUFFICES ASSUME NEW u \in Users, NEW w \in Reqs, ChangesMembership(w), key[w][1] = u,
                      pc'[w] = "ok"
               PROVE  cachedBy'[u] \notin after[w]
    BY <1>1 DEF Evicted, ChangesMembership
  <2>1. CASE w = r
    BY <1>1, <1>2, <1>6, <2>1 DEF IInv, TypeOK
  <2>2. CASE w # r
    BY <1>1, <1>5, <1>6, <2>2 DEF Evicted, IInv, TypeOK
  <2> QED
    BY <2>1, <2>2
<1>11. Aging'
  BY <1>1, <1>3, <1>5, <1>6 DEF Aging, IInv
<1>12. Unaware' /\ Coherent'
  <2>1. \A q \in Reqs : Resolved(q)' => Resolved(q)
    BY <1>1, <1>5 DEF Resolved, IInv, TypeOK
  <2> QED
    BY <1>1, <1>3, <2>1 DEF Unaware, Coherent, Effective, IInv
<1> QED
  BY <1>7, <1>8, <1>9, <1>10, <1>11, <1>12 DEF IInv

LEMMA IInvCacheError ==
  ASSUME IInv, TypeOK', NEW r \in Reqs, CacheError(r) PROVE IInv'
<1> USE PolicyCacheAssumption
<1>1. /\ \/ pc[r] = "dropping" /\ ChangesMembership(r) /\ key[r] \in Memberships
         \/ pc[r] = "storing" /\ op[r] = "read" /\ key[r] \in Users
      /\ pc' = [pc EXCEPT ![r] = "okUncached"]
      /\ UNCHANGED <<now, org, member, link, cachedBy, expireAt, op, key, answer, resolvedBy, after, at, storedAt>>
  BY DEF history, CacheError, Goto, tables, cache, IInv, Routes, TypeOK, ChangesMembership, ChangesLink
<1>2. \A x \in Reqs : Committed(x)' = Committed(x)
  BY <1>1 DEF Committed, ChangesMembership, ChangesLink, IInv, TypeOK
<1>3. Done \subseteq Done'
  BY <1>1, <1>2 DEF Done, Answered, IInv, TypeOK
<1>4. Routes'
  BY <1>1 DEF Routes, ChangesMembership, ChangesLink, IInv, TypeOK
<1>5. CacheOwned' /\ AfterIsDone'
  BY <1>1, <1>3 DEF CacheOwned, AfterIsDone, IInv
<1>6. StoresItsOwn' /\ AtPast' /\ Sourced'
  <2>1. \A x \in Reqs : op'[x] = "read" /\ pc'[x] \in {"storing", "ok", "okUncached"} => AtHome(x)
    BY <1>1 DEF ChangesMembership, Sourced, IInv, TypeOK
  <2> QED
    BY <1>1, <1>3, <2>1, AtHomeKept DEF StoresItsOwn, AtPast, Sourced, IInv, TypeOK
<1>7. Evicted' /\ Aging'
  BY <1>1, <1>2 DEF Evicted, Aging, ChangesMembership, IInv, TypeOK
<1>8. Unaware' /\ Coherent'
  <2>1. \A q \in Reqs : Resolved(q)' => Resolved(q)
    BY <1>1 DEF Resolved, IInv, TypeOK
  <2> QED
    BY <1>1, <1>2, <2>1 DEF Unaware, Coherent, Effective, IInv
<1> QED
  BY <1>4, <1>5, <1>6, <1>7, <1>8 DEF IInv

LEMMA IInvCheckLink ==
  ASSUME IInv, TypeOK', NEW r \in Reqs, NEW o \in {"assign", "remove"}, NEW l \in Links,
         CheckLink(r, o, l)
  PROVE  IInv'
<1> USE PolicyCacheAssumption
<1>1. /\ pc[r] = "idle" /\ op' = [op EXCEPT ![r] = o] /\ key' = [key EXCEPT ![r] = l]
      /\ \E state \in {"404", "409", "checked"} : pc' = [pc EXCEPT ![r] = state]
      /\ UNCHANGED <<now, org, member, link, cachedBy, expireAt, answer, resolvedBy, after, at, storedAt>>
  BY DEF history, CheckLink, Begin, Goto, tables, cache
<1>2. op[r] = "none"
  BY <1>1 DEF IInv, Routes, TypeOK, ChangesMembership, ChangesLink
<1>3. r \notin Done /\ ~Committed(r) /\ ~Committed(r)' /\ answer[r] = {}
  BY <1>1, <1>2 DEF Done, Answered, Committed, ChangesMembership, ChangesLink, IInv, Routes, TypeOK
<1>4. \A x \in Reqs \ {r} : /\ Committed(x)' = Committed(x) /\ pc'[x] = pc[x] /\ op'[x] = op[x]
                            /\ key'[x] = key[x]
  BY <1>1 DEF Committed, ChangesMembership, ChangesLink, IInv, TypeOK
<1>5. Done \subseteq Done'
  BY <1>3, <1>4 DEF Done, Answered
<1>6. \A v \in Users : cachedBy[v] # r
  BY <1>3 DEF IInv, CacheOwned
<1>7. Routes'
  BY <1>1, <1>3 DEF Routes, ChangesMembership, ChangesLink, IInv, TypeOK
<1>8. CacheOwned' /\ AfterIsDone'
  BY <1>1, <1>4, <1>5, <1>6 DEF CacheOwned, AfterIsDone, IInv, TypeOK
<1>9. StoresItsOwn' /\ AtPast' /\ Sourced'
  <2>1. \A x \in Reqs : op'[x] = "read" /\ pc'[x] \in {"storing", "ok", "okUncached"}
                       => x # r /\ AtHome(x)
    BY <1>1, <1>4 DEF Sourced, IInv, TypeOK
  <2>2. \A x \in Reqs : x # r /\ AtHome(x) => AtHome(x)'
    BY <1>1, <1>3, <1>4, <1>5, AtHomeKept
  <2> QED
    BY <1>1, <1>4, <2>1, <2>2 DEF StoresItsOwn, AtPast, Sourced, IInv, TypeOK
<1>10. Evicted'
  BY <1>1, <1>4 DEF Evicted, ChangesMembership, IInv, TypeOK
<1>11. Aging'
  BY <1>1, <1>3, <1>4 DEF Aging, IInv
<1>13. Unaware'
  <2>1. \A q \in Reqs : Resolved(q)' => Resolved(q)
    BY <1>1, <1>4, <1>6 DEF Resolved, IInv, TypeOK
  <2> QED
    BY <1>1, <1>3, <1>4, <2>1 DEF Unaware, IInv
<1>12. Coherent'
  <2> SUFFICES ASSUME NEW q \in Reqs, Resolved(q)', \A w \in Reqs : Committed(w)' => w \in after'[q]
               PROVE  answer'[q] = Effective(key[q], OrgOf[key[q]])'
    BY DEF Coherent
  <2>1. q # r /\ Resolved(q) /\ \A w \in Reqs : Committed(w) => w \in after[q]
    BY <1>1, <1>3, <1>4, <1>6 DEF Resolved, IInv, TypeOK
  <2>2. answer[q] = Effective(key[q], OrgOf[key[q]])
    BY <2>1 DEF Coherent, IInv
  <2> QED
    BY <1>1, <1>4, <2>1, <2>2 DEF Effective
<1> QED
  BY <1>7, <1>8, <1>9, <1>10, <1>11, <1>12, <1>13 DEF IInv

LEMMA IInvChangeLink ==
  ASSUME IInv, TypeOK', NEW r \in Reqs, ChangeLink(r) PROVE IInv'
<1> USE PolicyCacheAssumption
<1>1. /\ pc[r] = "checked" /\ ChangesLink(r) /\ key[r] \in Links
      /\ UNCHANGED <<now, org, member, cachedBy, expireAt, op, key, answer, resolvedBy, storedAt>>
  BY DEF ChangeLink, Stamp, history, cache, IInv, Routes, TypeOK, ChangesMembership, ChangesLink
<1>2. \/ pc' = [pc EXCEPT ![r] = "500"] /\ UNCHANGED <<link, after, at>>
      \/ /\ pc' = [pc EXCEPT ![r] = "ok"]
         /\ after' = [after EXCEPT ![r] = Done]
         /\ at' = [at EXCEPT ![r] = now]
  BY DEF ChangeLink, Goto, Stamp, history
<1>3. r \notin Done /\ ~Committed(r)
  BY <1>1 DEF Done, Answered, Committed, ChangesMembership, ChangesLink
<1>4. \A x \in Reqs \ {r} : /\ Committed(x)' = Committed(x) /\ pc'[x] = pc[x]
                            /\ after'[x] = after[x] /\ at'[x] = at[x]
  BY <1>1, <1>2 DEF Committed, ChangesMembership, ChangesLink, IInv, TypeOK
<1>5. Done \subseteq Done'
  BY <1>1, <1>3, <1>4 DEF Done, Answered
<1>6. \A v \in Users : cachedBy[v] # r
  BY <1>3 DEF IInv, CacheOwned
<1>7. Routes'
  BY <1>1, <1>2 DEF Routes, ChangesMembership, ChangesLink, IInv, TypeOK
<1>8. CacheOwned'
  BY <1>1, <1>5 DEF CacheOwned, IInv
<1>9. AfterIsDone'
  BY <1>2, <1>5 DEF AfterIsDone, IInv, TypeOK
<1>10. StoresItsOwn' /\ AtPast' /\ Sourced'
  <2>1. \A x \in Reqs : op'[x] = "read" /\ pc'[x] \in {"storing", "ok", "okUncached"}
                       => x # r /\ AtHome(x)
    BY <1>1, <1>2, <1>4 DEF ChangesLink, Sourced, IInv, TypeOK
  <2>2. \A x \in Reqs : x # r /\ AtHome(x) => AtHome(x)'
    BY <1>1, <1>3, <1>5, AtHomeKept
  <2> QED
    BY <1>1, <1>2, <1>4, <2>1, <2>2 DEF StoresItsOwn, AtPast, Sourced, IInv, TypeOK
<1>11. Evicted'
  BY <1>1, <1>4 DEF Evicted, ChangesMembership, ChangesLink, IInv
<1>12. Aging'
  <2> SUFFICES ASSUME NEW u \in Users, NEW w \in Reqs, Committed(w)', cachedBy'[u] \in after'[w]
               PROVE  expireAt'[u] <= at'[w] + POLICY_TTL
    BY DEF Aging
  <2>1. CASE w = r
    <3>1. after'[r] = Done /\ at'[r] = now
      BY <1>1, <1>2, <2>1 DEF Committed, ChangesMembership, ChangesLink, IInv, TypeOK
    <3>2. cachedBy[u] # NoReq
      BY <1>1, <2>1, <3>1, DoneType
    <3> QED
      BY <1>1, <2>1, <3>1, <3>2 DEF CacheOwned, IInv
  <2>2. CASE w # r
    BY <1>1, <1>4, <2>2 DEF Aging, IInv
  <2> QED
    BY <2>1, <2>2
<1>15. Unaware'
  <2> SUFFICES ASSUME NEW q \in Reqs, NEW w \in Reqs, Resolved(q)', Committed(w)', w \notin after'[q]
               PROVE  at'[q] <= at'[w]
    BY DEF Unaware
  <2>1. q # r /\ Resolved(q)
    BY <1>1, <1>2, <1>4, <1>6 DEF Resolved, IInv, TypeOK
  <2>2. CASE w = r
    <3>1. at'[r] = now
      BY <1>1, <1>2, <2>2 DEF Committed, ChangesMembership, ChangesLink, IInv, TypeOK
    <3> QED
      BY <1>4, <2>1, <2>2, <3>1 DEF AtPast, IInv
  <2>3. CASE w # r
    BY <1>4, <2>1, <2>3 DEF Unaware, IInv
  <2> QED
    BY <2>2, <2>3
<1>13. Coherent'
  <2> SUFFICES ASSUME NEW q \in Reqs, Resolved(q)', \A w \in Reqs : Committed(w)' => w \in after'[q]
               PROVE  answer'[q] = Effective(key[q], OrgOf[key[q]])'
    BY DEF Coherent
  <2>1. q # r /\ Resolved(q)
    BY <1>1, <1>2, <1>4, <1>6 DEF Resolved, IInv, TypeOK
  <2>2. r \notin after[q]
    BY <1>3 DEF AfterIsDone, IInv
  <2>3. ~Committed(r)'
    BY <1>4, <2>1, <2>2
  <2>4. UNCHANGED link
    BY <1>1, <1>2, <2>3 DEF Committed, ChangesLink, IInv, TypeOK
  <2>5. \A w \in Reqs : Committed(w) => w \in after[q]
    BY <1>3, <1>4, <2>1
  <2>6. answer[q] = Effective(key[q], OrgOf[key[q]])
    BY <2>1, <2>5 DEF Coherent, IInv
  <2>7. Effective(key[q], OrgOf[key[q]])' = Effective(key[q], OrgOf[key[q]])
    BY <1>1, <2>4 DEF Effective
  <2> QED
    BY <1>1, <2>6, <2>7
<1> QED
  BY <1>7, <1>8, <1>9, <1>10, <1>11, <1>12, <1>13, <1>15 DEF IInv

LEMMA IInvCrash == ASSUME IInv, TypeOK', Crash PROVE IInv'
<1> USE PolicyCacheAssumption
<1>1. /\ pc' = [r \in Reqs |-> IF pc[r] \in Working THEN "lost" ELSE pc[r]]
      /\ UNCHANGED <<now, org, member, link, cachedBy, expireAt, op, key, answer, resolvedBy, after, at, storedAt>>
  BY DEF history, Crash, tables, cache
<1>2. \A x \in Reqs : Committed(x)' = Committed(x) /\ Answered(x)' = Answered(x)
  BY <1>1 DEF Committed, Answered, ChangesMembership, ChangesLink, Working, IInv, Routes, TypeOK
<1>3. Done' = Done
  BY <1>2 DEF Done
<1>4. Routes'
  BY <1>1 DEF Routes, ChangesMembership, ChangesLink, Working, IInv, TypeOK
<1>5. CacheOwned' /\ AfterIsDone'
  BY <1>1, <1>3 DEF CacheOwned, AfterIsDone, IInv
<1>6. StoresItsOwn' /\ AtPast' /\ Sourced'
  <2>1. \A x \in Reqs : op'[x] = "read" /\ pc'[x] \in {"storing", "ok", "okUncached"} => AtHome(x)
    BY <1>1 DEF Sourced, IInv, TypeOK
  <2> QED
    BY <1>1, <1>3, <2>1, AtHomeKept DEF StoresItsOwn, AtPast, Sourced, Working, IInv, TypeOK
<1>7. Evicted' /\ Aging'
  BY <1>1, <1>2 DEF Evicted, Aging, ChangesMembership, Working, IInv, TypeOK
<1>8. Unaware' /\ Coherent'
  <2>1. \A q \in Reqs : Resolved(q)' => Resolved(q)
    BY <1>1 DEF Resolved, Working, IInv, TypeOK
  <2> QED
    BY <1>1, <1>2, <2>1 DEF Unaware, Coherent, Effective, IInv
<1> QED
  BY <1>4, <1>5, <1>6, <1>7, <1>8 DEF IInv

\* Time passes, Redis goes and comes back, or nothing happens.
LEMMA IInvIdle ==
  ASSUME IInv, TypeOK', UNCHANGED <<tables, expireAt, locals>>,
         now' \in {now, now + 1},
         \A u \in Users : cachedBy'[u] \in {cachedBy[u], NoReq}
  PROVE  IInv'
<1> USE PolicyCacheAssumption DEF tables, history, locals
<1>1. \A x \in Reqs : Committed(x)' = Committed(x) /\ Answered(x)' = Answered(x)
  BY DEF Committed, Answered, ChangesMembership, ChangesLink
<1>2. Done' = Done
  BY <1>1 DEF Done
<1>3. \A x \in Reqs : NoReq \notin after[x]
  BY DEF IInv, TypeOK
<1>4. Routes' /\ AfterIsDone' /\ StoresItsOwn' /\ AtPast'
  BY <1>2 DEF Routes, AfterIsDone, StoresItsOwn, AtPast, ChangesMembership, ChangesLink,
              IInv, TypeOK
<1>8. Sourced'
  BY <1>2, AtHomeKept DEF Sourced, IInv
<1>5. CacheOwned'
  <2> SUFFICES ASSUME NEW u \in Users, cachedBy'[u] # NoReq
               PROVE  /\ cachedBy[u] \in Done /\ cachedBy'[u] = cachedBy[u]
                      /\ op[cachedBy[u]] = "read" /\ key[cachedBy[u]] = u
                      /\ resolvedBy[cachedBy[u]] = cachedBy[u]
                      /\ expireAt[u] = storedAt[cachedBy[u]] + POLICY_TTL
                      /\ expireAt[u] <= now' + POLICY_TTL
    BY <1>2 DEF CacheOwned
  <2>1. cachedBy'[u] = cachedBy[u] /\ expireAt[u] <= now + POLICY_TTL
    BY DEF CacheOwned, IInv
  <2>2. now \in Nat /\ POLICY_TTL \in Nat /\ expireAt[u] \in Nat
    BY DEF IInv, TypeOK
  <2>3. expireAt[u] <= now' + POLICY_TTL
    BY <2>1, <2>2
  <2> QED
    BY <2>1, <2>3 DEF CacheOwned, IInv
<1>6. Evicted' /\ Aging'
  BY <1>1, <1>3 DEF Evicted, Aging, ChangesMembership, IInv
<1>7. Unaware' /\ Coherent'
  <2>1. \A q \in Reqs : Resolved(q)' => Resolved(q)
    BY DEF Resolved
  <2> QED
    BY <1>1, <2>1 DEF Unaware, Coherent, Effective, IInv
<1> QED
  BY <1>4, <1>5, <1>6, <1>7, <1>8 DEF IInv

LEMMA IInvStep == IInv /\ [Next]_vars => IInv'
<1> SUFFICES ASSUME IInv, [Next]_vars PROVE IInv'
  OBVIOUS
<1>0. TypeOK'
  BY TypeStep DEF IInv
<1>1. ASSUME NEW r \in Reqs, Arrive(r) PROVE IInv'
  BY <1>0, <1>1, IInvGet, IInvChangeMembership, IInvCheckLink DEF Arrive
<1>2. ASSUME NEW r \in Reqs, Proceed(r) PROVE IInv'
  BY <1>0, <1>2, IInvResolve, IInvStore, IInvDrop, IInvCacheError, IInvChangeLink DEF Proceed
<1>3. CASE Crash
  BY <1>0, <1>3, IInvCrash
<1>4. CASE Tick
  BY <1>0, <1>4, IInvIdle DEF Tick, cache
<1>5. CASE RedisDown
  BY <1>0, <1>5, IInvIdle DEF RedisDown, cache
<1>6. ASSUME NEW kept \in SUBSET Users, RedisBack(kept) PROVE IInv'
  BY <1>0, <1>6, IInvIdle DEF RedisBack
<1>7. CASE UNCHANGED vars
  BY <1>0, <1>7, IInvIdle DEF vars, cache
<1> QED
  BY <1>1, <1>2, <1>3, <1>4, <1>5, <1>6, <1>7 DEF Next

LEMMA IInvAlways == Spec => []IInv
  BY IInvInit, IInvStep, PTL DEF Spec

-----------------------------------------------------------------------------
(* Theorems *)

\* The variables keep their types, whatever is cached, by whom.
THEOREM TypeCorrect == Spec => []TypeOK
<1>1. IInv => TypeOK
  BY DEF IInv
<1> QED
  BY <1>1, IInvAlways, PTL

\* Whoever asks is answered a list that was resolved for a caller of the user's
\* own organization and holds policies of that organization only.
THEOREM ResolvedAtHomeHolds == Spec => []ResolvedAtHome
<1>1. IInv => ResolvedAtHome
  BY DEF IInv, Sourced, AtHome, Answered, ResolvedAtHome
<1> QED
  BY <1>1, IInvAlways, PTL

\* A list cached before a change of the user's groups is not served once that
\* change was acknowledged, if Redis took the DEL.
THEOREM EvictedOnceAcknowledgedHolds == Spec => []EvictedOnceAcknowledged
<1>1. IInv => EvictedOnceAcknowledged
  BY DEF IInv, Evicted, EvictedOnceAcknowledged
<1> QED
  BY <1>1, IInvAlways, PTL

\* Even when the DEL is lost, or there is none, a list stored before a change is
\* not served POLICY_TTL after it, and one stored after it not for longer than the
\* read was late in storing it.
THEOREM MaxStalenessHolds == Spec => []MaxStaleness
<1>1. IInv => MaxStaleness
  <2> SUFFICES ASSUME IInv, NEW u \in Users, Live(u), NEW w \in Reqs, Committed(w)
               PROVE  /\ cachedBy[u] \in after[w] => now < at[w] + POLICY_TTL
                      /\ w \notin after[cachedBy[u]]
                           => now < at[w] + POLICY_TTL + Delay(cachedBy[u])
    BY DEF MaxStaleness
  <2>1. /\ cachedBy[u] \in Reqs /\ Resolved(cachedBy[u]) /\ now < expireAt[u]
        /\ expireAt[u] = storedAt[cachedBy[u]] + POLICY_TTL
    BY DEF Live, Resolved, CacheOwned, Done, IInv
  <2>2. /\ now \in Nat /\ expireAt[u] \in Nat /\ at[w] \in Nat /\ POLICY_TTL \in Nat
        /\ at[cachedBy[u]] \in Nat /\ storedAt[cachedBy[u]] \in Nat
    BY <2>1, PolicyCacheAssumption DEF IInv, TypeOK
  <2>3. cachedBy[u] \in after[w] => expireAt[u] <= at[w] + POLICY_TTL
    BY DEF Aging, IInv
  <2>4. w \notin after[cachedBy[u]] => at[cachedBy[u]] <= at[w]
    BY <2>1 DEF Unaware, IInv
  <2> QED
    BY <2>1, <2>2, <2>3, <2>4 DEF Delay
<1> QED
  BY <1>1, IInvAlways, PTL

\* A cached list that was resolved after all changes is the current one.
THEOREM CoherentWhenQuietHolds == Spec => []CoherentWhenQuiet
<1>1. IInv => CoherentWhenQuiet
  <2> SUFFICES ASSUME IInv, NEW u \in Users, Live(u),
                      \A w \in Reqs : Committed(w) => w \in after[cachedBy[u]]
               PROVE  answer[cachedBy[u]] = Effective(u, OrgOf[u])
    BY DEF CoherentWhenQuiet
  <2>1. cachedBy[u] \in Reqs /\ key[cachedBy[u]] = u
    BY DEF Live, CacheOwned, Done, IInv
  <2>2. Resolved(cachedBy[u])
    BY DEF Resolved
  <2> QED
    BY <2>1, <2>2 DEF Coherent, IInv
<1> QED
  BY <1>1, IInvAlways, PTL
=============================================================================
