---------------------------- MODULE AuthSessions ----------------------------
(***************************************************************************)
(* Sessions of the auth-service: login_user, refresh_access_token and      *)
(* logout_user over the committed contents of the tokens table             *)
(* (services/auth-service/app/services/auth_service.py).                   *)
(*                                                                         *)
(* FastAPI runs these handlers in a thread pool, each with a database      *)
(* session of its own at READ COMMITTED, so requests interleave between    *)
(* any two statements.  A statement that writes is committed at once by    *)
(* every handler here (INSERT; COMMIT or DELETE; COMMIT) and is one step:  *)
(* a concurrent writer of the same row or key waits for that commit and    *)
(* then sees its effect.                                                   *)
(*                                                                         *)
(* A refresh token is a JWT with the claims sub and exp only, exp in whole *)
(* seconds, so the string is determined by the pair: two tokens signed for *)
(* one user in the same second are equal.  A row of the table is named by  *)
(* the request that inserted it.                                           *)
(*                                                                         *)
(*     login:    idle -----------------> sign -> store -> ok | 500         *)
(*     refresh:  idle -> rotate -------> sign -> store -> ok | 500         *)
(*     logout:   idle -> revoke -> ok                                      *)
(*                                                                         *)
(* Every handler may answer 401 on its first step, and is "lost" when the  *)
(* process dies under it.                                                  *)
(***************************************************************************)
EXTENDS Naturals, FiniteSets

CONSTANTS
    Users,
    Reqs,           \* the requests, each handled once
    NoTok, NoRow,   \* "no token", "no row"
    REFRESH_TTL,    \* REFRESH_TOKEN_EXPIRE_DAYS, in ticks of the clock
    MaxClock,       \* bound: the clock stops here
    MaxCrashes      \* bound: the process dies at most this often

\* What a refresh token says.
Tok == [sub : Users, exp : Nat]

ASSUME AuthSessionsAssumption ==
    /\ NoTok \notin Tok
    /\ NoRow \notin Reqs
    /\ REFRESH_TTL \in Nat
    /\ MaxClock \in Nat
    /\ MaxCrashes \in Nat

VARIABLES
    now,          \* wall clock, in seconds
    crashes,      \* how often the process has died
    activeUsers,  \* users with is_active
    row,          \* row[x]: string in the row inserted by x, NoTok if there is none
    who,          \* who[r]: the user whose client sends r
    op,           \* op[r]: the route called
    pc,           \* pc[r]: where the handler is, or its answer
    presented,    \* presented[r]: the refresh token in the body of r
    entry,        \* entry[r]: token_entry, the row the handler found
    fresh,        \* fresh[r]: the refresh token the handler signed
    before        \* before[r]: requests answered with 200 when r began (history)

locals == <<who, op, pc, presented, entry, fresh, before>>
vars   == <<now, crashes, activeUsers, row, locals>>

Working == {"sign", "store", "rotate", "revoke"}
Answers == {"ok", "401", "500", "lost"}

TypeOK ==
    /\ now \in 0..MaxClock
    /\ crashes \in 0..MaxCrashes
    /\ activeUsers \subseteq Users
    /\ row \in [Reqs -> Tok \union {NoTok}]
    /\ who \in [Reqs -> Users]
    /\ op \in [Reqs -> {"none", "login", "refresh", "logout"}]
    /\ pc \in [Reqs -> {"idle"} \union Working \union Answers]
    /\ presented \in [Reqs -> Tok \union {NoTok}]
    /\ entry \in [Reqs -> Reqs \union {NoRow}]
    /\ fresh \in [Reqs -> Tok \union {NoTok}]
    /\ before \in [Reqs -> SUBSET Reqs]

Init ==
    /\ now = 0
    /\ crashes = 0
    /\ activeUsers = Users
    /\ row = [x \in Reqs |-> NoTok]
    /\ who \in [Reqs -> Users]
    /\ op = [r \in Reqs |-> "none"]
    /\ pc = [r \in Reqs |-> "idle"]
    /\ presented = [r \in Reqs |-> NoTok]
    /\ entry = [r \in Reqs |-> NoRow]
    /\ fresh = [r \in Reqs |-> NoTok]
    /\ before = [r \in Reqs |-> {}]

-----------------------------------------------------------------------------
Answered200 == {r \in Reqs : pc[r] = "ok"}

\* The refresh tokens clients were given, and may present.
Issued == {fresh[r] : r \in {q \in Answered200 : op[q] # "logout"}}

Stored(t) == \E x \in Reqs : row[x] = t

\* decode_token raises when exp lies in the past.
Expired(t) == t.exp < now

\* Mutant of SignFor: the exp claim is forgotten.
SignForNoExp(u) == [sub |-> u]

\* create_refresh_token for user u: exp is this second plus the time to live.
SignFor(u) == [sub |-> u, exp |-> now + REFRESH_TTL]

Goto(r, state) == pc' = [pc EXCEPT ![r] = state]

\* Request r reaches the service as a call of route o with body token t.
Begin(r, o, t) ==
    /\ pc[r] = "idle"
    /\ op' = [op EXCEPT ![r] = o]
    /\ presented' = [presented EXCEPT ![r] = t]
    /\ before' = [before EXCEPT ![r] = Answered200]
    /\ UNCHANGED <<now, crashes, activeUsers, row, who, fresh>>

-----------------------------------------------------------------------------
(* Steps of the handlers *)

\* login_user: the account exists, is active, and the password matches.
Login(r) ==
    /\ Begin(r, "login", NoTok)
    /\ who[r] \in activeUsers
    /\ Goto(r, "sign")
    /\ UNCHANGED entry

\* login_user returns None: inactive account, or a wrong password.
LoginRefused(r) ==
    /\ Begin(r, "login", NoTok)
    /\ Goto(r, "401")
    /\ UNCHANGED entry

\* The query by token string that opens refresh and logout: the row that holds
\* t, if the call may go on with it, becomes token_entry.
Find(r, t, accepted, state) ==
    \/ /\ accepted
       /\ \E x \in Reqs : row[x] = t /\ entry' = [entry EXCEPT ![r] = x]
       /\ Goto(r, state)
    \/ /\ ~(accepted /\ Stored(t))
       /\ Goto(r, "401")
       /\ UNCHANGED entry

\* refresh_access_token up to db.delete: find the row, decode the token, find
\* its user.  No account is ever deleted, and neither is_active is looked at.
\* (Decoding is merged with the query: a later decoding would refuse more.)
Refresh(r, t) ==
    /\ t.sub = who[r]
    /\ Begin(r, "refresh", t)
    /\ Find(r, t, ~Expired(t), "rotate")

\* Mutant of Rotate: the old row is kept.
RotateKeep(r) ==
    /\ pc[r] = "rotate"
    /\ Goto(r, "sign")
    /\ UNCHANGED <<now, crashes, activeUsers, row, who, op, presented, entry, fresh, before>>

\* db.delete(token_entry); db.commit().  If the row is gone by now the DELETE
\* matches nothing, which SQLAlchemy only warns about.
Rotate(r) ==
    /\ pc[r] = "rotate"
    /\ row' = [row EXCEPT ![entry[r]] = NoTok]
    /\ Goto(r, "sign")
    /\ UNCHANGED <<now, crashes, activeUsers, who, op, presented, entry, fresh, before>>

\* Mutant of Sign: a refresh hands back the token it was given.
SignAgain(r) ==
    /\ pc[r] = "sign"
    /\ fresh' = [fresh EXCEPT ![r] =
                   IF op[r] = "refresh" THEN presented[r] ELSE SignFor(who[r])]
    /\ Goto(r, "store")
    /\ UNCHANGED <<now, crashes, activeUsers, row, who, op, presented, entry, before>>

\* create_refresh_token({"sub": user.email})
Sign(r) ==
    /\ pc[r] = "sign"
    /\ fresh' = [fresh EXCEPT ![r] = SignFor(who[r])]
    /\ Goto(r, "store")
    /\ UNCHANGED <<now, crashes, activeUsers, row, who, op, presented, entry, before>>

\* Mutant of Store: one session per user, a UNIQUE constraint on user_id.
StoreOnePerUser(r) ==
    /\ pc[r] = "store"
    /\ IF \E x \in Reqs : row[x] # NoTok /\ who[x] = who[r]
         THEN Goto(r, "500") /\ UNCHANGED row
         ELSE Goto(r, "ok") /\ row' = [row EXCEPT ![r] = fresh[r]]
    /\ UNCHANGED <<now, crashes, activeUsers, who, op, presented, entry, fresh, before>>

\* db.add(Token(...)); db.commit().  The UNIQUE constraint on the string turns
\* a second row with it into an IntegrityError, which no route catches.
Store(r) ==
    /\ pc[r] = "store"
    /\ IF Stored(fresh[r])
         THEN Goto(r, "500") /\ UNCHANGED row
         ELSE Goto(r, "ok") /\ row' = [row EXCEPT ![r] = fresh[r]]
    /\ UNCHANGED <<now, crashes, activeUsers, who, op, presented, entry, fresh, before>>

\* logout_user up to db.delete: the token is neither decoded nor checked for expiry.
Logout(r, t) ==
    /\ t.sub = who[r]
    /\ Begin(r, "logout", t)
    /\ Find(r, t, TRUE, "revoke")

\* Mutant of Revoke: all rows of the user are deleted.
RevokeAll(r) ==
    /\ pc[r] = "revoke"
    /\ row' = [x \in Reqs |-> IF who[x] = who[r] THEN NoTok ELSE row[x]]
    /\ Goto(r, "ok")
    /\ UNCHANGED <<now, crashes, activeUsers, who, op, presented, entry, fresh, before>>

\* db.delete(token_entry); db.commit() of logout_user
Revoke(r) ==
    /\ pc[r] = "revoke"
    /\ row' = [row EXCEPT ![entry[r]] = NoTok]
    /\ Goto(r, "ok")
    /\ UNCHANGED <<now, crashes, activeUsers, who, op, presented, entry, fresh, before>>

-----------------------------------------------------------------------------
(* The environment *)

Tick ==
    /\ now < MaxClock
    /\ now' = now + 1
    /\ UNCHANGED <<crashes, activeUsers, row, locals>>

\* is_active is cleared by an operator, in the database: no route does it.
DisableUser(u) ==
    /\ u \in activeUsers
    /\ activeUsers' = activeUsers \ {u}
    /\ UNCHANGED <<now, crashes, row, locals>>

\* The service is one process: when it dies every open request dies with it.
\* What was committed stays.
Crash ==
    /\ crashes < MaxCrashes
    /\ crashes' = crashes + 1
    /\ pc' = [r \in Reqs |-> IF pc[r] \in Working THEN "lost" ELSE pc[r]]
    /\ UNCHANGED <<now, activeUsers, row, who, op, presented, entry, fresh, before>>

Handle(r) ==
    \/ Login(r) \/ LoginRefused(r)
    \/ \E t \in Issued : Refresh(r, t) \/ Logout(r, t)
    \/ Rotate(r) \/ Sign(r) \/ Store(r) \/ Revoke(r)

Next ==
    \/ \E r \in Reqs : Handle(r)
    \/ Tick
    \/ \E u \in Users : DisableUser(u)
    \/ Crash

Spec == Init /\ [][Next]_vars

-----------------------------------------------------------------------------
(* Properties that hold *)

\* A session row is consumed at most once by calls that do not overlap: a
\* refresh or logout that began after another one had used a row and been
\* answered never gets hold of that row.
ConsumedOnce ==
    \A q, r \in Reqs :
        q \in before[r] /\ entry[q] # NoRow => entry[r] # entry[q]

\* No session ends by itself: a refresh token that was handed out is in the
\* table, unless some call presented that very token and found its row.
NoSilentLoss ==
    \A t \in Issued :
        Stored(t) \/ \E r \in Reqs : presented[r] = t /\ entry[r] # NoRow

\* A login or refresh fails with 500 only if another request signed the same
\* token, that is, served the same user in the same second, and stored it.
FailureHasCause ==
    \A r \in Reqs : pc[r] = "500" =>
        \E q \in Answered200 \ {r} : fresh[q] = fresh[r]

\* Sessions do not multiply: what a user has in the table beyond one session
\* per login comes from refreshes that found a row another call also found.
SessionsAccountedFor ==
    \A u \in Users :
        LET Rows   == {x \in Reqs : row[x] # NoTok /\ who[x] = u}
            Logins == {r \in Answered200 : op[r] = "login" /\ who[r] = u}
            Forks  == {r \in Reqs : /\ op[r] = "refresh" /\ who[r] = u
                                    /\ entry[r] # NoRow
                                    /\ \E q \in Reqs \ {r} : entry[q] = entry[r]}
        IN  Cardinality(Rows) <= Cardinality(Logins) + Cardinality(Forks)

\* t is out of the table, was signed in an earlier second, and no handler is
\* about to store it.
Dead(t) ==
    /\ ~Stored(t)
    /\ t.exp < now + REFRESH_TTL
    /\ \A r \in Reqs : pc[r] = "store" => fresh[r] # t

\* Revocation is for good: a token that has been handed out and is dead stays
\* dead, whatever tokens are signed later.
RevokedStaysRevoked ==
    [][\A t \in Issued : Dead(t) => Dead(t)']_vars

\* The tables, tokens and handlers together implement SessionLedger.  A refresh
\* holds the session from its delete on, a login from the start; the rows are
\* the sessions that clients have been given.
Ledger == INSTANCE SessionLedger WITH
    user <- who,
    known <- {r \in Reqs : pc[r] # "idle"},
    asked <- [r \in Reqs |-> IF pc[r] \in {"rotate", "revoke"} THEN entry[r] ELSE NoRow],
    live <- {r \in Reqs : row[r] # NoTok \/ pc[r] \in {"sign", "store"}},
    settled <- {r \in Answered200 : op[r] # "logout"}

ImplementsLedger == Ledger!Spec

-----------------------------------------------------------------------------
(* A statement of the source's own comments that the code does not keep *)

\* "If the same token is submitted twice, the second call finds no row": no
\* two refreshes succeed with the same row.
SecondRefreshFindsNoRow ==
    \A q, r \in Answered200 :
        q # r /\ op[q] = "refresh" /\ op[r] = "refresh" => entry[q] # entry[r]
=============================================================================
