---------------------------- MODULE BrowserSession ----------------------------
(***************************************************************************)
(* One user's browser, with any number of tabs: the tokens in its          *)
(* localStorage and apiFetch of the frontend, together with what it meets  *)
(* on the other side: the token check of the gateway, the admin check of   *)
(* the user-service, and login, refresh and logout of the auth-service.    *)
(*                                                                         *)
(*   browser:  idle -> signingIn -> done                                    *)
(*             idle -> calling [-> refreshing -> retrying] -> done          *)
(*   service:  none -> gateway -> act -> acted -> 200    a call             *)
(*             none -> revoke -> delete -> 200 | 401     sign-out           *)
(*             none [-> find -> rotate] -> groups -> sign -> 200 | 401      *)
(*                                                       login, refresh     *)
(*                                                                         *)
(* The two sides of a call are apart: the browser may give a call up while *)
(* the service goes on with it.  A token pair is named by the call that    *)
(* obtained it, so equal strings signed in one second are left to          *)
(* AuthSessions, as are the steps of login that do not matter to the       *)
(* browser.  SessionLedger is what the two have in common.                 *)
(***************************************************************************)
EXTENDS Naturals

CONSTANTS
    Calls,         \* what the user does, each once
    None,
    ACCESS_TTL,    \* ACCESS_TOKEN_EXPIRE_MINUTES, in ticks of the clock
    REFRESH_TTL,   \* REFRESH_TOKEN_EXPIRE_DAYS
    MaxClock,      \* bound: the clock stops here
    MaxEvents      \* bound: faults, and changes of the user's membership

ASSUME BrowserSessionAssumption ==
    /\ None \notin Calls
    /\ ACCESS_TTL \in Nat /\ REFRESH_TTL \in Nat
    /\ MaxClock \in Nat /\ MaxEvents \in Nat

Times == 0..MaxClock

VARIABLES
    now,
    faults,     \* answers lost, and failures of a service
    regroups,   \* changes of membership
    member,     \* the user is in the group admin
    wasMember,  \* (history) the ticks at which the user was
    access,     \* access_token of localStorage
    refresh,    \* refresh_token of localStorage
    rendered,   \* the refresh token Sidebar held when it was last rendered
    rows,       \* the refresh tokens in the tokens table
    op,         \* op[c]: what c is
    pc,         \* pc[c]: where the browser is with c
    service,    \* service[c]: where the services are with its open request
    bearer,     \* bearer[c]: the access token that c carries
    body,       \* body[c]: the refresh token that sign-out c revokes
    presented,  \* presented[c]: the refresh token that c tried to refresh with
    groups,     \* groups[c]: the groups claim read for c names admin
    began,      \* began[c]: when the reading request of c was sent (history)
    signed,     \* signed[c]: when the tokens that c obtained were signed
    acted,      \* (history) acted[c]: how often c was carried out
    admitted,   \* (history) admitted[c]: when the gateway let c pass
    over        \* (history) over[c]: the calls that had ended when c sent its refresh

storage  == <<access, refresh, rendered>>
world    == <<now, faults, regroups, member, wasMember>>
claims   == <<groups, began, signed>>
history  == <<acted, admitted, over>>
vars     == <<world, storage, rows, op, pc, service, bearer, body, presented, claims, history>>

Answers == {"200", "401", "403", "500"}
Ended   == {"done", "login", "failed"}

TypeOK ==
    /\ now \in Times /\ faults \in 0..MaxEvents /\ regroups \in 0..MaxEvents
    /\ member \in BOOLEAN /\ wasMember \subseteq Times
    /\ {access, refresh, rendered} \subseteq Calls \union {None}
    /\ rows \subseteq Calls
    /\ op \in [Calls -> {"none", "signIn", "write", "signOut"}]
    /\ pc \in [Calls -> {"idle", "signingIn", "calling", "refreshing", "retrying"} \union Ended]
    /\ service \in [Calls -> {"none", "gateway", "act", "acted", "find", "rotate", "groups",
                              "sign", "revoke", "delete"} \union Answers]
    /\ bearer \in [Calls -> Calls \union {None}]
    /\ body \in [Calls -> Calls \union {None}]
    /\ presented \in [Calls -> Calls \union {None}]
    /\ groups \in [Calls -> BOOLEAN]
    /\ began \in [Calls -> Times]
    /\ signed \in [Calls -> Times]
    /\ acted \in [Calls -> Nat]
    /\ admitted \in [Calls -> Times]
    /\ over \in [Calls -> SUBSET Calls]

Init ==
    /\ now = 0 /\ faults = 0 /\ regroups = 0
    /\ member \in BOOLEAN /\ wasMember = IF member THEN {0} ELSE {}
    /\ access = None /\ refresh = None /\ rendered = None
    /\ rows = {}
    /\ op = [c \in Calls |-> "none"]
    /\ pc = [c \in Calls |-> "idle"]
    /\ service = [c \in Calls |-> "none"]
    /\ bearer = [c \in Calls |-> None]
    /\ body = [c \in Calls |-> None]
    /\ presented = [c \in Calls |-> None]
    /\ groups = [c \in Calls |-> FALSE]
    /\ began = [c \in Calls |-> 0]
    /\ signed = [c \in Calls |-> 0]
    /\ acted = [c \in Calls |-> 0]
    /\ admitted = [c \in Calls |-> 0]
    /\ over = [c \in Calls |-> {}]

-----------------------------------------------------------------------------
(* The browser *)

\* What c is about to do, and what the services are to do for it.
Send(c, state, handler) ==
    /\ pc' = [pc EXCEPT ![c] = state]
    /\ service' = [service EXCEPT ![c] = handler]

\* Call c is over for the browser; the services may not be through with it.
End(c, state) == pc' = [pc EXCEPT ![c] = state] /\ UNCHANGED service

Start(c, o) == pc[c] = "idle" /\ op' = [op EXCEPT ![c] = o]

\* Mutant of clearTokens: the items are emptied, not removed.
clearTokensEmpty == access' = "" /\ refresh' = "" /\ UNCHANGED rendered

clearTokens == access' = None /\ refresh' = None /\ UNCHANGED rendered

\* Mutant of setTokens: the access token alone is kept.
setTokensAccess(c) == access' = c /\ UNCHANGED <<refresh, rendered>>

setTokens(c) == access' = c /\ refresh' = c /\ UNCHANGED rendered

\* Where the gateway takes an apiFetch of kind o: logout is a public route.
Route(o) == IF o = "signOut" THEN "revoke" ELSE "gateway"

SignIn(c) ==
    /\ Start(c, "signIn")
    /\ Send(c, "signingIn", "groups")
    /\ began' = [began EXCEPT ![c] = now]
    /\ UNCHANGED <<world, storage, rows, bearer, body, presented, groups, signed, history>>

\* apiFetch, first request: an admin's write.
Write(c) ==
    /\ Start(c, "write")
    /\ bearer' = [bearer EXCEPT ![c] = access]
    /\ Send(c, "calling", Route("write"))
    /\ UNCHANGED <<world, storage, rows, body, presented, claims, history>>

\* handleSignOut: with the token that the render captured, through apiFetch.
SignOut(c) ==
    /\ Start(c, "signOut") /\ rendered # None
    /\ bearer' = [bearer EXCEPT ![c] = access]
    /\ body' = [body EXCEPT ![c] = rendered]
    /\ Send(c, "calling", Route("signOut"))
    /\ UNCHANGED <<world, storage, rows, presented, claims, history>>

SignOutWithoutToken(c) ==
    /\ Start(c, "signOut") /\ rendered = None
    /\ clearTokens
    /\ End(c, "done")
    /\ UNCHANGED <<world, rows, bearer, body, presented, claims, history>>

Render ==
    /\ rendered' = refresh
    /\ UNCHANGED <<world, access, refresh, rows, op, pc, service, bearer, body, presented,
                   claims, history>>

\* The login page, on 200; on any other answer it shows the error.
SignedIn(c) ==
    /\ pc[c] = "signingIn" /\ service[c] \in Answers
    /\ IF service[c] = "200" THEN setTokens(c) ELSE UNCHANGED storage
    /\ End(c, "done")
    /\ UNCHANGED <<world, rows, op, bearer, body, presented, claims, history>>

\* The end of apiFetch: the answer goes to the caller, which for a sign-out
\* ignores it and clears the tokens.
Finish(c) ==
    /\ IF op[c] = "signOut" THEN clearTokens ELSE UNCHANGED storage
    /\ End(c, "done")
    /\ UNCHANGED <<world, rows, op, bearer, body, presented, claims, history>>

\* Mutant of Denied: a failure is tried again as well.
DeniedOrFailed(c) == pc[c] = "calling" /\ service[c] \in {"401", "500"}

\* res.status === 401
Denied(c) == pc[c] = "calling" /\ service[c] = "401"

Answered(c) ==
    /\ pc[c] \in {"calling", "retrying"} /\ service[c] \in Answers
    /\ ~Denied(c)
    /\ Finish(c)

\* 401 and no refresh token: to the login page.
Unrefreshable(c) ==
    /\ Denied(c) /\ refresh = None
    /\ clearTokens
    /\ End(c, "login")
    /\ UNCHANGED <<world, rows, op, bearer, body, presented, claims, history>>

\* 401: the refresh token is read now, whoever stored it meanwhile.
Refresh(c) ==
    /\ Denied(c) /\ refresh # None
    /\ presented' = [presented EXCEPT ![c] = refresh]
    /\ began' = [began EXCEPT ![c] = now]
    /\ over' = [over EXCEPT ![c] = {d \in Calls : pc[d] \in Ended}]
    /\ Send(c, "refreshing", "find")
    /\ UNCHANGED <<world, storage, rows, op, bearer, body, groups, signed, acted, admitted>>

\* refreshRes.ok: setTokens, and the request once more.
Refreshed(c) ==
    /\ pc[c] = "refreshing" /\ service[c] = "200"
    /\ setTokens(c)
    /\ bearer' = [bearer EXCEPT ![c] = c]
    /\ Send(c, "retrying", Route(op[c]))
    /\ UNCHANGED <<world, rows, op, body, presented, claims, history>>

\* !refreshRes.ok: to the login page, whatever others stored meanwhile.
RefreshFails(c) ==
    /\ pc[c] = "refreshing" /\ service[c] \in Answers \ {"200"}
    /\ clearTokens
    /\ End(c, "login")
    /\ UNCHANGED <<world, rows, op, bearer, body, presented, claims, history>>

Fault ==
    /\ faults + regroups < MaxEvents
    /\ faults' = faults + 1
    /\ UNCHANGED <<now, regroups, member, wasMember>>

\* The network fails, or the gateway gives the request up with 503 or 504; the
\* services go on.  fetch raises in the one case, which keeps the tokens unless
\* sign-out clears them, and in the other a refresh has failed.
GivesUp(c) ==
    /\ pc[c] \in {"signingIn", "calling", "refreshing", "retrying"}
    /\ Fault
    /\ \/ op[c] # "signOut" /\ UNCHANGED storage
       \/ (op[c] = "signOut" \/ pc[c] = "refreshing") /\ clearTokens
    /\ End(c, "failed")
    /\ UNCHANGED <<rows, op, bearer, body, presented, claims, history>>

-----------------------------------------------------------------------------
(* The gateway and the services *)

\* The services move on with c, or answer it.
Becomes(c, state) ==
    /\ service' = [service EXCEPT ![c] = state]
    /\ UNCHANGED <<storage, op, pc, bearer, body, presented, over>>

\* jwt.decode: there is a token, and it has not expired.
Valid(c) == bearer[c] # None /\ now <= signed[bearer[c]] + ACCESS_TTL

\* get_token_payload and _identity_headers: what the user-service goes by is
\* the claims of the token from here on.
GatewayAdmits(c) ==
    /\ service[c] = "gateway" /\ Valid(c)
    /\ Becomes(c, "act")
    /\ admitted' = [admitted EXCEPT ![c] = now]
    /\ UNCHANGED <<world, rows, claims, acted>>

GatewayDenies(c) ==
    /\ service[c] = "gateway" /\ ~Valid(c)
    /\ Becomes(c, "401")
    /\ UNCHANGED <<world, rows, claims, acted, admitted>>

\* A write of the user-service: get_org_id, require_admin, and the handler.
\* (That the claims hold no organization, which is 400, does not happen.)
Acts(c) ==
    /\ service[c] = "act"
    /\ IF groups[bearer[c]]
         THEN Becomes(c, "acted") /\ acted' = [acted EXCEPT ![c] = @ + 1]
         ELSE Becomes(c, "403") /\ UNCHANGED acted
    /\ UNCHANGED <<world, rows, claims, admitted>>

Replies(c) ==
    /\ service[c] = "acted"
    /\ Becomes(c, "200")
    /\ UNCHANGED <<world, rows, claims, acted, admitted>>

\* refresh_access_token: the row and its expiry.
Finds(c) ==
    /\ service[c] = "find"
    /\ IF presented[c] \in rows /\ now <= signed[presented[c]] + REFRESH_TTL
         THEN Becomes(c, "rotate") ELSE Becomes(c, "401")
    /\ UNCHANGED <<world, rows, claims, acted, admitted>>

\* db.delete(token_entry); db.commit()
Rotates(c) ==
    /\ service[c] = "rotate"
    /\ rows' = rows \ {presented[c]}
    /\ Becomes(c, "groups")
    /\ UNCHANGED <<world, claims, acted, admitted>>

\* Mutant of ReadsGroups: a refresh copies the claim of the token at hand.
ReadsGroupsOnce(c) ==
    /\ service[c] = "groups"
    /\ groups' = [groups EXCEPT ![c] =
                    IF bearer[c] = None THEN member ELSE groups[bearer[c]]]
    /\ Becomes(c, "sign")
    /\ UNCHANGED <<world, rows, began, signed, acted, admitted>>

\* _get_user_groups, in login_user and in refresh_access_token
ReadsGroups(c) ==
    /\ service[c] = "groups"
    /\ groups' = [groups EXCEPT ![c] = member]
    /\ Becomes(c, "sign")
    /\ UNCHANGED <<world, rows, began, signed, acted, admitted>>

\* Mutant of Signs: the row is not stored.
SignsOnly(c) ==
    /\ service[c] = "sign"
    /\ signed' = [signed EXCEPT ![c] = now]
    /\ Becomes(c, "200")
    /\ UNCHANGED <<world, rows, groups, began, acted, admitted>>

\* create_access_token, create_refresh_token, and the row, committed.
Signs(c) ==
    /\ service[c] = "sign"
    /\ signed' = [signed EXCEPT ![c] = now]
    /\ rows' = rows \union {c}
    /\ Becomes(c, "200")
    /\ UNCHANGED <<world, groups, began, acted, admitted>>

\* logout_user, as far as it reads
FindsToRevoke(c) ==
    /\ service[c] = "revoke"
    /\ Becomes(c, IF body[c] \in rows THEN "delete" ELSE "401")
    /\ UNCHANGED <<world, rows, claims, acted, admitted>>

\* db.delete(token_entry); db.commit(): a row already gone is no error.
Revokes(c) ==
    /\ service[c] = "delete"
    /\ rows' = rows \ {body[c]}
    /\ Becomes(c, "200")
    /\ UNCHANGED <<world, claims, acted, admitted>>

\* A service dies, or its database fails, under c.
ServiceFails(c) ==
    /\ service[c] \notin Answers \union {"none"}
    /\ Fault
    /\ Becomes(c, "500")
    /\ UNCHANGED <<rows, claims, acted, admitted>>

\* An admin takes the user into the group, or out of it.
Regroup ==
    /\ faults + regroups < MaxEvents
    /\ regroups' = regroups + 1
    /\ member' = ~member
    /\ wasMember' = wasMember \union {now}
    /\ UNCHANGED <<now, faults, storage, rows, op, pc, service, bearer, body, presented,
                   claims, history>>

Tick ==
    /\ now < MaxClock
    /\ now' = now + 1
    /\ wasMember' = wasMember \union (IF member THEN {now + 1} ELSE {})
    /\ UNCHANGED <<faults, regroups, member, storage, rows, op, pc, service, bearer, body, presented,
                   claims, history>>

-----------------------------------------------------------------------------
(* The specification *)

Starts(c) == SignIn(c) \/ Write(c) \/ SignOut(c) \/ SignOutWithoutToken(c)

Browser(c) ==
    \/ SignedIn(c) \/ Answered(c) \/ Unrefreshable(c)
    \/ Refresh(c) \/ Refreshed(c) \/ RefreshFails(c)

Serves(c) ==
    \/ GatewayAdmits(c) \/ GatewayDenies(c) \/ Acts(c) \/ Replies(c)
    \/ Finds(c) \/ Rotates(c) \/ ReadsGroups(c) \/ Signs(c)
    \/ FindsToRevoke(c) \/ Revokes(c)

Next ==
    \/ \E c \in Calls : Starts(c) \/ Browser(c) \/ Serves(c) \/ GivesUp(c) \/ ServiceFails(c)
    \/ Render \/ Regroup \/ Tick

Spec == Init /\ [][Next]_vars

-----------------------------------------------------------------------------
(* Properties *)

\* What an admin's write goes by: the user was in the group at some moment
\* between the login or refresh that read the groups and its signature, and the
\* token was not older than ACCESS_TTL when the gateway let the write pass.
\* A user who was removed from the group before that login or refresh writes
\* nothing.
AdminForCause == \A c \in Calls : acted[c] > 0 =>
    LET t == bearer[c] IN
        /\ \E i \in wasMember : began[t] <= i /\ i <= signed[t]
        /\ admitted[c] <= signed[t] + ACCESS_TTL

\* apiFetch repeats a request that was refused, and no other: a write is
\* carried out once at most.
WrittenOnce == \A c \in Calls : acted[c] <= 1

\* A user with a session that is good is sent to the login page for one reason
\* alone: two calls refreshed with the same token, and neither had ended when
\* the other began to.  A fault may be another.
SentToLoginForCause == \A c \in Calls :
    pc[c] = "login" /\ presented[c] # None /\ faults = 0 =>
        \/ now > signed[presented[c]] + REFRESH_TTL
        \/ \E d \in Calls \ {c} : presented[d] = presented[c] /\ d \notin over[c]
        \/ \E d \in Calls \ {c} : body[d] = presented[c] /\ d \notin over[c]

\* When all is quiet and nothing failed, what localStorage holds is worth
\* keeping: the two tokens are of one pair, and the refresh token is not used up.
StoredSessionIsLive ==
    (\A c \in Calls : pc[c] = "idle" \/ pc[c] \in Ended) /\ faults = 0 =>
        access = refresh /\ (refresh # None => refresh \in rows)

-----------------------------------------------------------------------------
(* What the auth-service sees of the calls *)

\* Of a call, at most one login or refresh, which names the session it makes,
\* and of a sign-out the two requests that apiFetch can make of it.
Asks == Calls \X {"session", "out", "again"}

Session(c) == <<c, "session">>

\* apiFetch has begun its second request.
Again(c) == bearer[c] = c

\* The service has looked at request r.
Looked(r) ==
    LET c == r[1] IN
    \/ r[2] = "session" /\ op[c] = "signIn"
    \/ r[2] = "session" /\ presented[c] # None /\ (Again(c) \/ service[c] # "find")
    \/ r[2] = "out" /\ op[c] = "signOut" /\ (presented[c] # None \/ service[c] \notin {"none", "revoke"})
    \/ r[2] = "again" /\ op[c] = "signOut" /\ Again(c) /\ service[c] # "revoke"

\* The session whose row request r has found and not deleted yet.
Found(r) ==
    LET c == r[1] IN
    CASE r[2] = "session" /\ service[c] = "rotate" -> Session(presented[c])
      [] r[2] = "out" /\ service[c] = "delete" /\ ~Again(c) -> Session(body[c])
      [] r[2] = "again" /\ service[c] = "delete" /\ Again(c) -> Session(body[c])
      [] OTHER -> Session(None)

\* The session is there, or being made.
Lives(r) ==
    r[2] = "session" /\ (r[1] \in rows \/ service[r[1]] \in {"groups", "sign"})

\* The service has answered the login or refresh with the pair of this session.
Given(r) ==
    LET c == r[1] IN
    /\ r[2] = "session"
    /\ Again(c) \/ (service[c] = "200" /\ (op[c] = "signIn" \/ presented[c] # None))

\* To the browser, too, the auth-service is a ledger of sessions, whatever answers
\* are lost and whoever gives up: the one that AuthSessions implements.
Ledger == INSTANCE SessionLedger WITH
    Reqs <- Asks, Users <- {None}, NoRow <- Session(None),
    user <- [r \in Asks |-> None],
    known <- {r \in Asks : Looked(r)},
    asked <- [r \in Asks |-> Found(r)],
    live <- {r \in Asks : Lives(r)},
    settled <- {r \in Asks : Given(r)}

ImplementsLedger == Ledger!Spec
=============================================================================
