----------------------------- MODULE Onboarding -----------------------------
(***************************************************************************)
(* How accounts come into being: create_user and accept_invite of the      *)
(* auth-service, create_invite of the user-service, and the uniqueness     *)
(* constraints of the shared database.                                     *)
(*                                                                         *)
(* Handlers run concurrently, each in a transaction at READ COMMITTED.  A  *)
(* flush sends the INSERT without committing it: other transactions cannot *)
(* see the row, but one that inserts the same unique key waits until the   *)
(* first commits (and then fails with an IntegrityError, which no route    *)
(* catches: 500) or rolls back.                                            *)
(*                                                                         *)
(*   signup: idle -> checked -> orgAdded -> userAdded -> created -> ok     *)
(*   accept: idle -> inviteRead ----------> userAdded -> created -> ok     *)
(*   invite: idle -> ok                                                    *)
(*                                                                         *)
(* "created" is a request that has committed and is not answered yet: the  *)
(* process may die there as well, and the client is left not knowing.      *)
(*                                                                         *)
(* Rows are named by the request that inserted them.  An organization is   *)
(* its slug, and every organization has one group, its "admin" group,      *)
(* named by the organization that owns it.                                 *)
(***************************************************************************)
EXTENDS Naturals, FiniteSets

CONSTANTS
    Emails,
    Slugs,
    Reqs,               \* the requests, each handled once
    NoReq, NoArg, NoOrg,
    INVITE_TTL,         \* timedelta(days=7), in ticks of the clock
    MaxClock,           \* bound: the clock stops here
    MaxCrashes          \* bound: the auth-service dies at most this often

\* What a request is about: an account, its organization, and the group it enters.
Args == [email : Emails, org : Slugs, group : Slugs]

ASSUME OnboardingAssumption ==
    /\ NoReq \notin Reqs
    /\ NoArg \notin Args
    /\ NoOrg \notin Slugs
    /\ INVITE_TTL \in Nat
    /\ MaxClock \in Nat
    /\ MaxCrashes \in Nat

VARIABLES
    now, crashes,
    orgBy,       \* orgBy[s]: request that inserted the organization, or NoReq
    accountBy,   \* accountBy[e]: request that inserted the user, or NoReq
    member,      \* rows of user_groups: pairs <<email, owner of the group>>
    open,        \* the invitations in the table
    op, pc,      \* route and state of each request
    arg,         \* arg[r]: what r is about
    source,      \* source[r]: the invitation r is accepting
    expires      \* expires[i]: expires_at of invitation i

tables == <<orgBy, accountBy, member, open>>
locals == <<op, pc, arg, source, expires>>
vars   == <<now, crashes, tables, locals>>

Working == {"checked", "orgAdded", "inviteRead", "userAdded", "created"}
Answers == {"ok", "400", "404", "409", "500", "lost"}

TypeOK ==
    /\ now \in 0..MaxClock
    /\ crashes \in 0..MaxCrashes
    /\ orgBy \in [Slugs -> Reqs \union {NoReq}]
    /\ accountBy \in [Emails -> Reqs \union {NoReq}]
    /\ member \subseteq Emails \X Slugs
    /\ open \subseteq Reqs
    /\ op \in [Reqs -> {"none", "signup", "accept", "invite"}]
    /\ pc \in [Reqs -> {"idle"} \union Working \union Answers]
    /\ arg \in [Reqs -> Args \union {NoArg}]
    /\ source \in [Reqs -> Reqs \union {NoReq}]
    /\ expires \in [Reqs -> Nat]

Init ==
    /\ now = 0
    /\ crashes = 0
    /\ orgBy = [s \in Slugs |-> NoReq]
    /\ accountBy = [e \in Emails |-> NoReq]
    /\ member = {}
    /\ open = {}
    /\ op = [r \in Reqs |-> "none"]
    /\ pc = [r \in Reqs |-> "idle"]
    /\ arg = [r \in Reqs |-> NoArg]
    /\ source = [r \in Reqs |-> NoReq]
    /\ expires = [r \in Reqs |-> 0]

-----------------------------------------------------------------------------
Goto(r, state) == pc' = [pc EXCEPT ![r] = state]

\* Request r arrives as a call of route o about a.
Begin(r, o, a, i) ==
    /\ pc[r] = "idle"
    /\ op' = [op EXCEPT ![r] = o]
    /\ arg' = [arg EXCEPT ![r] = a]
    /\ source' = [source EXCEPT ![r] = i]
    /\ UNCHANGED <<now, crashes, orgBy, accountBy, member>>

Registered(e) == accountBy[e] # NoReq
Exists(s)     == orgBy[s] # NoReq

\* Mutant of HoldsSlug: a refused sign-up leaves its transaction open.
HoldsSlugLeaked(q, s) ==
    op[q] = "signup" /\ pc[q] \in {"orgAdded", "userAdded", "409"} /\ arg[q].org = s

\* Request q has inserted this unique key and its transaction is still open.
HoldsSlug(q, s) ==
    op[q] = "signup" /\ pc[q] \in {"orgAdded", "userAdded"} /\ arg[q].org = s
HoldsEmail(q, e) ==
    pc[q] = "userAdded" /\ arg[q].email = e

\* How the routes answer a ValueError.
Refusal(r) == IF op[r] = "signup" THEN "409" ELSE "400"

-----------------------------------------------------------------------------
(* POST /signup: create_user *)

\* The two checks create_user opens with.
SignupCheck(r, e, s) ==
    /\ Begin(r, "signup", [email |-> e, org |-> s, group |-> s], NoReq)
    /\ Goto(r, IF Registered(e) \/ Exists(s) THEN "409" ELSE "checked")
    /\ UNCHANGED <<open, expires>>

\* Mutant of AddOrg: commit instead of flush.
AddOrgCommitted(r) ==
    /\ pc[r] = "checked"
    /\ \A q \in Reqs : ~HoldsSlug(q, arg[r].org)
    /\ IF Exists(arg[r].org)
         THEN Goto(r, "500") /\ UNCHANGED orgBy
         ELSE Goto(r, "orgAdded") /\ orgBy' = [orgBy EXCEPT ![arg[r].org] = r]
    /\ UNCHANGED <<now, crashes, accountBy, member, open, op, arg, source, expires>>

\* db.add(org); db.flush()
AddOrg(r) ==
    /\ pc[r] = "checked"
    /\ \A q \in Reqs : ~HoldsSlug(q, arg[r].org)
    /\ Goto(r, IF Exists(arg[r].org) THEN "500" ELSE "orgAdded")
    /\ UNCHANGED <<now, crashes, tables, op, arg, source, expires>>

\* hash_password, in create_user and accept_invite: a password the policy
\* refuses is a ValueError, and everything is rolled back.
RefusePassword(r) ==
    /\ pc[r] \in {"orgAdded", "inviteRead"}
    /\ Goto(r, Refusal(r))
    /\ UNCHANGED <<now, crashes, tables, op, arg, source, expires>>

\* Mutant of AddUser: no UNIQUE constraint on users.email.
AddUserUnchecked(r) ==
    /\ pc[r] \in {"orgAdded", "inviteRead"}
    /\ Goto(r, "userAdded")
    /\ UNCHANGED <<now, crashes, tables, op, arg, source, expires>>

\* Otherwise db.add(user); db.flush().
AddUser(r) ==
    /\ pc[r] \in {"orgAdded", "inviteRead"}
    /\ \A q \in Reqs : ~HoldsEmail(q, arg[r].email)
    /\ Goto(r, IF Registered(arg[r].email) THEN "500" ELSE "userAdded")
    /\ UNCHANGED <<now, crashes, tables, op, arg, source, expires>>

\* Mutants of InsertAccount: user and group swapped in the membership, and no
\* membership at all.
InsertAccountSwapped(r) ==
    /\ accountBy' = [accountBy EXCEPT ![arg[r].email] = r]
    /\ member' = member \union {<<arg[r].group, arg[r].email>>}
InsertAccountOnly(r) ==
    /\ accountBy' = [accountBy EXCEPT ![arg[r].email] = r]
    /\ UNCHANGED member

\* The user and the membership that go into the database with it.
InsertAccount(r) ==
    /\ accountBy' = [accountBy EXCEPT ![arg[r].email] = r]
    /\ member' = member \union {<<arg[r].email, arg[r].group>>}

\* The admin group and the membership are added; one commit for all four rows.
CommitSignup(r) ==
    /\ pc[r] = "userAdded" /\ op[r] = "signup"
    /\ orgBy' = [orgBy EXCEPT ![arg[r].org] = r]
    /\ InsertAccount(r)
    /\ Goto(r, "created")
    /\ UNCHANGED <<now, crashes, open, op, arg, source, expires>>

\* db.refresh(user), which finds the row as accounts are never deleted, and the 200.
AnswerSignup(r) ==
    /\ pc[r] = "created" /\ op[r] = "signup"
    /\ Goto(r, "ok")
    /\ UNCHANGED <<now, crashes, tables, op, arg, source, expires>>

-----------------------------------------------------------------------------
(* POST /orgs/{org_id}/invites: create_invite, called by an admin of a.org *)

\* Mutant of CreateInvite: the group is looked up in any organization.
CreateInviteAnyGroup(r, a) ==
    /\ Exists(a.org)
    /\ Begin(r, "invite", a, NoReq)
    /\ IF Exists(a.group)
         THEN /\ open' = open \union {r}
              /\ expires' = [expires EXCEPT ![r] = now + INVITE_TTL]
              /\ Goto(r, "ok")
         ELSE /\ Goto(r, "404")
              /\ UNCHANGED <<open, expires>>

CreateInvite(r, a) ==
    /\ Exists(a.org)
    /\ Begin(r, "invite", a, NoReq)
    /\ IF Exists(a.group) /\ a.group = a.org
         THEN /\ open' = open \union {r}
              /\ expires' = [expires EXCEPT ![r] = now + INVITE_TTL]
              /\ Goto(r, "ok")
         ELSE /\ Goto(r, "404")
              /\ UNCHANGED <<open, expires>>

-----------------------------------------------------------------------------
(* POST /accept-invite: accept_invite *)

ExpiredInvite(i) == expires[i] < now

\* Mutant of AcceptLookup: the invitation is deleted when it is read.
AcceptLookupConsumes(r, i) ==
    /\ op[i] = "invite" /\ pc[i] = "ok"
    /\ Begin(r, "accept", arg[i], i)
    /\ IF i \in open /\ ~ExpiredInvite(i) /\ ~Registered(arg[i].email)
         THEN Goto(r, "inviteRead")
         ELSE Goto(r, "400")
    /\ open' = open \ {i}
    /\ UNCHANGED expires

\* Find invitation i, check its expiry (an expired one is deleted, and that is
\* committed), and check that its email is not registered.
AcceptLookup(r, i) ==
    /\ op[i] = "invite" /\ pc[i] = "ok"
    /\ Begin(r, "accept", arg[i], i)
    /\ IF i \in open /\ ~ExpiredInvite(i) /\ ~Registered(arg[i].email)
         THEN Goto(r, "inviteRead")
         ELSE Goto(r, "400")
    /\ open' = IF ExpiredInvite(i) THEN open \ {i} ELSE open
    /\ UNCHANGED expires

\* The membership is added and the invitation deleted (if it is already gone the
\* DELETE matches nothing), and committed with the user.
CommitAccept(r) ==
    /\ pc[r] = "userAdded" /\ op[r] = "accept"
    /\ InsertAccount(r)
    /\ open' = open \ {source[r]}
    /\ Goto(r, "created")
    /\ UNCHANGED <<now, crashes, orgBy, op, arg, source, expires>>

\* A second transaction stores the refresh token.  It fails if the new user's
\* first login stored the same token in this very second (see AuthSessions).
IssueTokens(r) ==
    /\ pc[r] = "created" /\ op[r] = "accept"
    /\ Goto(r, "ok") \/ Goto(r, "500")
    /\ UNCHANGED <<now, crashes, tables, op, arg, source, expires>>

-----------------------------------------------------------------------------
(* The environment *)

Tick ==
    /\ now < MaxClock
    /\ now' = now + 1
    /\ UNCHANGED <<crashes, tables, locals>>

\* The auth-service dies: open transactions roll back, committed rows stay.
Crash ==
    /\ crashes < MaxCrashes
    /\ crashes' = crashes + 1
    /\ pc' = [r \in Reqs |-> IF pc[r] \in Working THEN "lost" ELSE pc[r]]
    /\ UNCHANGED <<now, tables, op, arg, source, expires>>

Proceed(r) ==
    \/ AddOrg(r) \/ AddUser(r)
    \/ CommitSignup(r) \/ AnswerSignup(r)
    \/ CommitAccept(r) \/ IssueTokens(r)

Arrive(r) ==
    \/ \E e \in Emails, s \in Slugs : SignupCheck(r, e, s)
    \/ \E a \in Args : CreateInvite(r, a)
    \/ \E i \in Reqs : AcceptLookup(r, i)

Next ==
    \/ \E r \in Reqs : Arrive(r) \/ Proceed(r) \/ RefusePassword(r)
    \/ Tick
    \/ Crash

Spec == Init /\ [][Next]_vars

\* A handler that can go on does: its thread runs, and the database answers as
\* soon as nobody else holds the key.  (Nothing makes a password a bad one.)
FairSpec == Spec /\ \A r \in Reqs : WF_vars(Proceed(r))

-----------------------------------------------------------------------------
(* Properties *)

\* Sign-up is all or nothing: the organization, the account and its membership
\* are there together or not at all, whatever becomes of the request.  An answer
\* of 200 means that they are there, a refusal or a failure that they are not;
\* only whoever gets no answer cannot tell.
SignupIsAtomic ==
    \A r \in Reqs : op[r] = "signup" =>
        LET a == arg[r] IN
        /\ orgBy[a.org] = r <=> accountBy[a.email] = r
        /\ orgBy[a.org] = r => <<a.email, a.org>> \in member
        /\ orgBy[a.org] = r => pc[r] \in {"created", "ok", "lost"}
        /\ pc[r] \in {"created", "ok"} => orgBy[a.org] = r

\* Invitations are used once: an account made from one has consumed it, and a
\* request answered with tokens made the account itself.
AcceptedOnce ==
    \A r \in Reqs : op[r] = "accept" =>
        /\ accountBy[arg[r].email] = r => source[r] \notin open
        /\ pc[r] \in {"created", "ok"} => accountBy[arg[r].email] = r

\* No invitation is wasted: one that has left the table has an account to show
\* for it, or has expired.  A failed acceptance can be tried again.
InviteNotWasted ==
    \A i \in Reqs :
        op[i] = "invite" /\ pc[i] = "ok" /\ i \notin open
        => Registered(arg[i].email) \/ ExpiredInvite(i)

HomeOf(e) == IF Registered(e) THEN arg[accountBy[e]].org ELSE NoOrg

\* Nobody is in a group of another organization than the account's own, and
\* every account's organization exists.
MembersAreHome ==
    /\ \A m \in member : HomeOf(m[1]) = m[2]
    /\ \A e \in Emails : Registered(e) => Exists(HomeOf(e))

\* Waiting for a unique key never lasts: whoever waits for another transaction
\* is answered.
EveryRequestIsAnswered ==
    \A r \in Reqs : pc[r] \in Working ~> pc[r] \in Answers

\* The handlers together implement Registration.
Registry == INSTANCE Registration WITH
    orgs <- {s \in Slugs : Exists(s)},
    home <- [e \in Emails |-> HomeOf(e)]

ImplementsRegistration == Registry!Spec
=============================================================================
