# AgentWork platform: a verification project in TLA+

This directory holds TLA+ models of the AgentWork platform (`src/`), the TLC
configurations that model-check them on small instances, and theorems about
them whose proofs the TLA+ proof system (tlapm) checks. Every definition
is translated from the source; `PROJECT.json` names the lines each one stands for
("map"), the runs, the hazards the properties are aimed at, the mutants that show
each property can fail, and the theorems.

Contents: 1 the system, 2 hard behaviours and correctness, 3 modules, 4 runs, 5 bounds,
6 fairness, 7 proofs, 8 what the source says and the code does not do, 9 what is
not modelled, 10 plan.

## 1. The system

A multi-tenant platform. A browser application talks to a **gateway**, which
checks access tokens, limits request rates per organization and forwards to an
**auth-service** (accounts, sessions, onboarding), a **user-service** (groups,
policies, invitations, solution registry) and to registered *solutions*. The two
services share one Postgres database; the gateway and the user-service share one
Redis.

| Component | State it keeps | Operations |
|---|---|---|
| Sessions (auth-service) | table `tokens`: one row per refresh token, UNIQUE on the string | login, refresh (rotates), logout |
| Onboarding (auth-service, user-service) | `organizations`, `users`, `user_groups`, `invitations`, all with UNIQUE keys | signup, create invite, accept invite |
| Rate limiter (gateway) | a Redis counter with a time to live per organization | the `rate_limit` dependency of every protected route |
| Permission resolution and policy cache (user-service) | Redis key `policy:{user}` for 300 s; reads `user_groups`, `group_policies`, `policies` | get a user's policies; invalidation |
| Groups and assignment (user-service) | `groups`, `user_groups`, `group_policies` | create group, add/remove member, assign/remove policy |
| Policies and statements (user-service) | `policies`, `policy_statements` | create, rename, add/update/remove statement |
| Users and organizations (user-service) | `users`, `organizations`, read only | list, get |
| Service registry (user-service) | `service_registry` | register, list, get, deregister |
| Solution routing and forwarding (gateway) | none | `_forward` with timeouts, list solutions, chat |
| Access tokens (auth-service signs, gateway checks) | none: `org_id` and `groups` are claims in the token | sign, validate, `require_admin` |
| Browser session (frontend) | two tokens in local storage, shared by all tabs | sign-in, `apiFetch` (401, refresh, retry), sign-out |
| Pages and forms (frontend) | form state | rendering |
| Start-up (Postgres, auth-service, user-service) | the tables, `alembic_version` | `init.sql` on an empty volume; wait for the database; the auth-service migrates |
| Middleware, logging, configuration, schemas | none | request ids, validation |
| Database schema (`infra/postgres/init.sql`) | primary and unique keys, cascades | |

How they interact and run:

- The gateway calls the services over HTTP; the organization it read from the
  access token travels as `x-org-id`. Services trust that header.
- FastAPI runs a `def` handler in a thread of a pool, with a database session
  of its own. So all handlers of the auth-service, and the link and statement
  handlers of the user-service, interleave between any two SQL statements.
- An `async def` handler is a coroutine. Those of the user-service that touch the
  policy cache make synchronous database calls, which block the loop: their
  database work never interleaves with another coroutine's; they interleave where
  they await Redis, each on a connection of its own.
- Postgres runs at READ COMMITTED. An INSERT of a unique key that an open
  transaction has inserted waits for it. An ORM DELETE that matches no row only
  warns; an UPDATE that matches none raises. IntegrityErrors are caught by no
  route, so the client gets a 500.
- auth-service and user-service are one process each: a crash ends every open
  request; what was committed stays. Redis has no volume, so that what it knew
  may be gone when it comes back.
- The browser calls the gateway only, through `apiFetch`, which refreshes on 401 and
  repeats the call once. Nothing coordinates parallel calls or tabs.
- The gateway gives a call up after 10 seconds (5 for the look-up of a solution); the
  service it was forwarded to is not told and goes on.
- Docker restarts Postgres and Redis when they die; the services have no restart
  policy and stay down until an operator starts them.
- Redis failures are swallowed: the limiter lets the request through, the cache
  falls back to the database, and a failed SET or DEL is logged only.

## 2. Hard behaviours, and what makes each component correct

There are no tests in the repository, and none of the following would be easy to
reach with one. The full list, each at its line, is in `PROJECT.json` "hazards".

- **Sessions.** A refresh is four separate actions on the table (find, delete,
  sign, insert) in two transactions. Two calls with the same token overlap; the
  process dies between delete and insert; two tokens signed in one second are the
  same string, because `exp` in whole seconds is all that tells them apart.
  *Correct*: a row is used once by calls that do not overlap; a session ends only
  because of a call that presented its token; sessions multiply only by overlapping
  refreshes; a 500 has a cause; a revoked token never comes back.
- **Onboarding.** Check-then-insert on two unique keys, in long transactions that
  wait for each other. *Correct*: sign-up is atomic; an invitation makes at most one
  account, and is not lost when the acceptance fails; memberships stay in the
  account's own organization; nobody waits for ever; the whole is an atomic
  registration seen from outside.
- **Rate limiter.** Counting and comparing are separate, in many workers; the
  time to live is renewed by every request; Redis may fail before or after counting.
  *Correct*: no organization gets more than the limit through in any window as
  long as Redis keeps the key; nobody is counted for others' traffic; only an outage lets a
  request pass that was not granted.
- **Policy cache.** SET and DEL of a key race; a crash or a Redis failure falls
  between a commit and its DEL; changes of links never touch the cache;
  memberships and links may cross organizations; a cached list is answered to a caller of any
  organization. *Correct*: whatever fails, staleness is bounded by the time to live, plus the time
  that storing took for a list stored after a change it does not know of; what was cached
  before an acknowledged change is gone; what a list names was resolved for a caller of the user's own
  organization and is of that organization; a list resolved after all changes is right.
- **Policies and statements.** An edit reads the row, and at commit writes only the
  columns it changed, so two edits may leave a mixture; an edit races with a removal;
  two renames, or a rename and a creation, race for one name. *Correct*: a statement
  changes only by an edit of its own organization, and as a whole unless edits overlap;
  a removed statement does not come back; a refusal or a failure has a cause.
- **Solution routing.** Deregistration between look-up and call, or between a registration's
  commit and its reading the row back; two admins register one name; the gateway gives up on a call
  that the service completes; a solution's own 404 or 503 looks like the gateway's. *Correct*: what an
  answer tells of the work is true; no call that is sent after a deregistration was
  answered reaches the solution removed; a registration is refused only for a cause.
- **Access tokens.** Claims go stale: a removed admin remains one while the token lasts.
  *Correct*: an admin's write is justified by a membership that held while the token
  was made, and by a token that was valid when the gateway let the write pass.
- **Browser session.** Parallel calls get 401 together and refresh with the same token;
  sign-out sends the token of the last render, which a refresh may be replacing.
  *Correct*: a user with a good session is sent to the login page only for overlapping
  uses of one token; a write is carried out at most once; once all is quiet, what is
  stored is a usable pair.
- **Start-up.** `init.sql` commits statement by statement and is never run again; the
  migration is one transaction; either may be cut off by a crash, and they create
  the same tables in different shapes. *Correct*: an auth-service that serves has a
  complete schema; a migration leaves all or nothing; unless `init.sql` was interrupted the
  tables have the shape the code was written for; every start ends.

## 3. Modules

Each component has one module with the state as variables, one action per step
between which other requests may run, and the properties at its end. Operators
named "Mutant of X" stand just before X: they are X with a plausible bug, and used
only to show that a property fails when the bug is there.

| Module | Models | Extends or uses |
|---|---|---|
| `AuthSessions` | `login_user`, `refresh_access_token`, `logout_user` over `tokens` | INSTANCE `SessionLedger` |
| `SessionLedger` | abstract: sessions are opened, handed on, forked and ended | |
| `Onboarding` | `create_user`, `accept_invite`, `create_invite` | INSTANCE `Registration` |
| `Registration` | abstract: accounts and organizations appear atomically | |
| `RateLimiter` | `rate_limit` and the Redis key | INSTANCE `Quota` |
| `Quota` | abstract: so many requests are granted per period of traffic | |
| `PolicyCache` | policy reads, membership and link changes, cache, Redis failures | |
| `PolicyAdmin` | creating groups, creating and renaming policies, statements | |
| `SolutionRouting` | the registry's changes, `solution_chat` and `_forward` | |
| `BrowserSession` | local storage, `apiFetch`, sign-in and sign-out, and the token and admin checks they meet | INSTANCE `SessionLedger` |
| `Startup` | `init.sql`, `wait_for_db`, the migration, crashes | |
| `MC...` | symmetry sets and the data of an instance | the module |
| `..._proofs` | the theorems | the module, TLAPS |

In all of them a request is a constant handled once: `pc[r]` is "idle" (or "new"), then where
the handler is, then its answer (a status code, or "lost" if the process died).
Variables marked *history* are not in the program; no guard reads them. Parameters
of a request (which user, which token) are chosen when it arrives.

### AuthSessions

`row[x]` is the string in the row that request `x` inserted, or `NoTok`. A refresh
token is a record `[sub, exp]`, since those two claims are all it holds, and equal claims
give an equal string. `presented`, `entry`, `fresh` are the handler's locals: the token in
the body, `token_entry`, the new refresh token.

| Action | Code |
|---|---|
| `Login`, `LoginRefused` | `login_user` up to the signing; None gives 401 |
| `Refresh` | the SELECT by token string, `decode_token`, the SELECT of the user |
| `Rotate` | `db.delete(token_entry); db.commit()`; a row already gone is no error |
| `Sign` | `create_refresh_token`: `exp` = this second + the lifetime |
| `Store` | `db.add(Token); db.commit()`; an equal string raises: 500 |
| `Logout`, `Revoke` | SELECT, then DELETE and COMMIT |
| `Tick`, `DisableUser`, `Crash` | the clock, an operator's UPDATE, the process dies |

Clients present tokens that were handed out (`Issued`). A DELETE or INSERT with the
COMMIT that follows it is one step, because a concurrent writer of the same row
waits for the commit. Decoding the presented token is merged with finding its row:
between the two the clock could only make the code refuse more. The commit of `Store` and the answer that
follows are one step too: where the process dies in between, the code leaves a row whose token no client was
given and the model none, which no client can tell apart. Passwords are abstracted to the
choice between `Login` and `LoginRefused`; access tokens are not stored anywhere and left out.

`SessionLedger` says what a client sees of all this. A session is named by the request whose
client may use it next. `Admit` lets a request near a session of its own user that is there and
that a client was given; when it acts, later, it takes the session over (`Move`), ends it (`End`),
or finds it gone and, if it is a refresh, makes another (`Fork`). Only what no client has been told of
can be lost (`Fail`). `AuthSessions` implements it: `Refresh` and `Logout` are `Admit`, `Rotate` is the
moment of `Move` or `Fork` (from then on the session exists, though its row does not yet), `Revoke`
is `End`, `Store` is `Settle` or, on an equal string, `Fail`, and so is `Crash`. Hence a
session is used once by calls that do not overlap (`ConsumedOnce`), and the row that is missing
between two commits is nobody's loss but that of a refresh that died.

### Onboarding and Registration

`orgBy[s]` and `accountBy[e]` are the committed rows, named by the request that inserted them;
an insert that is flushed but not committed is seen from the `pc` of the transaction that made it
(`HoldsSlug`, `HoldsEmail`), and an insert of the same key waits (its action is
disabled) until that transaction has ended. `open` is the set of invitations
in the table. An organization has one group, the one `create_user` makes, named
like its owner; groups made later behave alike for invitations.

| Action | Code |
|---|---|
| `SignupCheck` | the two SELECTs `create_user` opens with, 409 |
| `AddOrg` | `db.add(org); db.flush()`, 500 on the slug's key |
| `RefusePassword` | `hash_password` raises ValueError; everything rolls back |
| `AddUser` | `db.add(user); db.flush()`, 500 on the e-mail's key |
| `CommitSignup`, `AnswerSignup` | admin group, membership, commit of all four rows; then `db.refresh` and the 200, which a crash may forestall |
| `CreateInvite` | `create_invite`: the group must be of the organization |
| `AcceptLookup` | find, expiry (an expired row is deleted and committed), e-mail check |
| `CommitAccept` | membership, DELETE of the invitation, commit |
| `IssueTokens` | the second transaction, which stores the refresh token and may fail |

`SignupCheck` and `AcceptLookup` merge SELECTs that follow each other: each only
looks for rows that never disappear (accounts, organizations), so reading one of them
later finds more rows, and the insert finds them as well. `Registration` says what the
outside sees: an organization appears at once with its first account and the
membership, an account joins an existing organization at once with its membership, and nothing
of this changes afterwards. `Onboarding` implements it under the mapping
`orgs <- organizations with a row`, `home <- the organization of the request that made the account`.

### RateLimiter

`counter[o]` and `expireAt[o]` are the Redis key of organization `o`. `Execute`
is the MULTI/EXEC pipeline (INCR and EXPIRE, atomic in Redis); `Decide`, possibly
much later, is the comparison; `FailOpen` is any Redis error. While Redis is
down the key lives on or not: `RedisBack(kept)` brings it back with the keys of an
arbitrary set of organizations. `era`, `at`, `keyEra` are history.

`Quota` says what the limiter does without speaking of counters: the requests of an organization come
in periods, one of which ends when a window passes without a request or when an outage makes the limiter
forget it; the first `RATE_LIMIT` of a period are granted and the others refused; an answer is what
was decided, except that an outage lets pass the requests it strikes, decided or not (`Waive`); and
organizations do not affect each other. That a period lasts as long as requests keep coming is
the code's renewal of the time to live, not the fixed window that the file's head describes (section 8). `RateLimiter` implements it, with the pipeline (`Execute`) as the moment of the
decision, though the comparison comes later and other workers run in between; the period is the
set of requests counted since the counter began at 1. `Decide` is `Answer`, `FailOpen` is `Waive`,
be the request counted, past the limit even, or not. `RedisBack` forgets the periods whose keys are gone.

### PolicyCache

`cachedBy[u]` names the read that stored `policy:u`, whose `answer` is the cached
list; `expireAt[u]` its expiry. `member` and `link` are `user_groups` and
`group_policies`.

| Action | Code |
|---|---|
| `Get` | `get_policy_cache`: a hit is the answer, to a caller of any organization; a miss and an error are None |
| `Resolve` | `get_user_policies`: 404 outside the caller's organization, else the three queries |
| `Store` | `set_policy_cache`: SET ... EX 300 |
| `ChangeMembership` | `add_user_to_group`, `remove_user_from_group`, with their 404 and 409 |
| `Drop` | `invalidate_policy_cache`: DEL |
| `CacheError` | SET or DEL raises and is swallowed |
| `CheckLink`, `ChangeLink` | `assign_policy`, `remove_policy`: SELECTs, then the write |
| `RedisDown`, `RedisBack`, `Crash`, `Tick` | the environment |

A policy is its name, without its statements. Initially memberships and links are
arbitrary within organizations. `after[r]` (history) records which reads had been answered and
which changes committed when `r` did its own database work, `at[r]` when that was; "before" and "after" a
change are meant in this sense. `resolvedBy[r]` is the read whose queries gave what `r` answers, and
`storedAt[r]` when `r` stored its list. `org[r]` is the organization of the caller, which only
`Resolve` and the changes compare with anything.

### PolicyAdmin

`named[r]` is the row of `groups` or `policies` that request `r` inserted, `stmt[r]` the row
of `policy_statements`; `read[r]` is what the handler's SELECT returned (a name to
replace, or a statement to edit).

| Action | Code |
|---|---|
| `CheckName`, `Insert` | `create_group`, `create_policy`: the SELECT by name (409), then the insert and its UNIQUE key (500) |
| `FindPolicy`, `CheckRename`, `Rename` | `update_policy`: the policy (404), the name (409), the UPDATE, which a name unchanged since it was read does not need |
| `AddStatement` | `add_statement`: an effect outside the CHECK constraint is a 500 |
| `LoadStatement` | the SELECTs of `update_statement` and `remove_statement`: 404 |
| `Edit` | the UPDATE of the columns whose value is not the one read (`Written`); if no row matches (StaleDataError) or the CHECK constraint refuses the effect, 500 (`UpdateTaken`) |
| `Remove` | a DELETE that matches no row is only a warning |
| `Refresh` | `db.refresh` reads the row back for the answer; a row that is gone is a 500 |

Groups and policies are never deleted, so a handler's first SELECTs are merged with the
step that follows where nothing they found can change. Statement ids are taken from the answers of
`add_statement`: `PolicyResponse.statements` is always an empty list, because the
ORM class has no such attribute, so no client learns an id otherwise.

### SolutionRouting

`calls[r]` is the gateway's side of request `r`, `served[r]` that of the service it was
delivered to: the two progress independently, and the gateway's answer may come before
the service has done its work. `up` is the set of hosts that work: the places solutions
run at, the user-service and its database.

| Action | Code |
|---|---|
| `Send` | a request of `/services` or `/solutions/{name}/chat` past token and rate limit |
| `LookupFound`, `LookupNotFound`, `LookupRaises` | the GET of `solution_chat`: 200, any other answer (404 to the client, a 500 of the registry included), an exception |
| `Deliver`, `Reply` | `_forward`: the request is sent, the answer is passed on |
| `Unreachable`, `GiveUp`, `Broken` | ConnectError 503, TimeoutException 504, any other error 500 |
| `Forbidden` | `require_admin` of the user-service |
| `CheckService`, `InsertService`, `RefreshService` | `register_service`: SELECT by name (409), insert with two UNIQUE keys (500) and commit, `db.refresh` of the row (500 if it is gone) |
| `FindService`, `DeleteService` | `deregister_service` |
| `Chat`, `DatabaseError`, `Fail`, `Recover`, `Switch` | a solution's answer, of any status; the failures, and an operator's UPDATE of `is_active` |

httpx's time-outs are per operation (connecting, each read); here `GiveUp` may happen at any time
and an answer arrives whole. The list and get routes change nothing and are left out.

### BrowserSession

Calls are what the user does: a sign-in, a write of an admin, a sign-out. `pc[c]` is the
browser's side and `service[c]` that of the request it has open. A token pair is named by
the call that obtained it: `access`, `refresh` are the two items of localStorage,
`rendered` the refresh token that `Sidebar` captured when it was rendered, `rows` the table.

| Action | Code |
|---|---|
| `SignIn`, `SignedIn` | `login/page.tsx`, `login_user` |
| `Write`, `Answered` | `apiFetch` when the first answer, or that of the retry, is not the 401 that is retried |
| `Unrefreshable`, `Refresh`, `Refreshed`, `RefreshFails` | `apiFetch` after a 401: no token; POST /refresh; store and retry; clear and go to the login page |
| `SignOut`, `SignOutWithoutToken`, `Render` | `handleSignOut`, which goes through `apiFetch` as well |
| `GivesUp` | the network fails or the gateway answers 503 or 504; the services go on |
| `GatewayAdmits`, `GatewayDenies` | `get_token_payload`: signature and expiry |
| `Acts`, `Replies` | a write of the user-service behind `require_admin` |
| `Finds`, `Rotates`, `ReadsGroups`, `Signs` | `refresh_access_token`; a login has the last two |
| `FindsToRevoke`, `Revokes` | `logout_user`: the SELECT, then DELETE and COMMIT |
| `ServiceFails`, `Regroup`, `Tick` | a 500; a change of the user's membership; the clock |

That strings signed in one second may be equal is left to `AuthSessions`. What the two modules have in
common is `SessionLedger`, which `BrowserSession` implements as well: a call makes at most one login or
refresh, whose name the session gets, and a sign-out two requests of logout; they are admitted when
the service finds the row, and hand on, fork or end the session when it deletes it, whether the
browser still waits or not. So what the browser meets here is what the auth-service was shown to be. A 429 of the limiter is left out: to `apiFetch` it is an answer
like a 403. `MaxEvents` bounds faults and membership changes together.

### Startup

`shape[t]` says who made table `t` (`init.sql` or the migration), `statement` where
`init.sql` is; `migrated` and `created` are the progress of the migration's open
transaction and the tables it created.

| Action | Code |
|---|---|
| `PostgresStarts`, `InitCreates`, `InitEnds` | the image's entrypoint: `init.sql` on an empty volume only, each statement committed, TCP only afterwards |
| `Start`, `NotReady`, `Available` | `on_startup` and `wait_for_db` of the two services |
| `MigrationCreates`, `MigrationEnds` | `alembic upgrade head`: `CREATE TABLE IF NOT EXISTS` each, the version row, the commit |
| `PostgresDies`, `ServiceDies`, `Wipe` | crashes; `docker compose down -v` |

`Available` is the successful attempt of `wait_for_db` together with Alembic's look at `alembic_version`
that follows: this service alone writes that table, so that it finds the same a moment later, unless Postgres
dies, which the next action would notice. The user-service does not migrate. `downgrade` and alembic's offline mode are run by nobody and
left out.

## 4. Runs

| Run | Instance | Checks | Shows |
|---|---|---|---|
| `sessions` | 4 requests, 1 user, lifetime 1, clock 0..2, 1 crash | `TypeOK`, `NoSilentLoss`, `FailureHasCause`, `SessionsAccountedFor`, `RevokedStaysRevoked`, `ImplementsLedger` | what rotation does guarantee, under every interleaving, and that sessions only multiply by overlapping refreshes (about 180,000 states) |
| `double_refresh` | same | `SecondRefreshFindsNoRow` violated | two overlapping refreshes of one token both succeed |
| `onboarding` | 4 requests, 3 e-mails, 2 slugs, invitations good for 1 tick after theirs, clock 0..2, 1 crash | `TypeOK`, `SignupIsAtomic`, `AcceptedOnce`, `InviteNotWasted`, `MembersAreHome`, `ImplementsRegistration` | atomic, single-use, tenant-safe onboarding (about 90,000 states) |
| `onboarding_live` | 4 requests, 2 e-mails, 2 slugs, no crash, fairness | `EveryRequestIsAnswered` | no deadlock among transactions waiting for keys (about 320,000 states) |
| `rate_limit` | 4 requests, 2 organizations, limit 2, window 2, clock 0..3, 1 outage | `TypeOK`, `WindowBound`, `ImplementsQuota` | the bound holds; what is let pass beyond it, an outage has struck (about 380,000 states) |
| `policy_cache` | 3 requests, 1 user, 1 group, 2 policies of 2 organizations, lifetime 2, clock 0..3, 1 fault | `TypeOK`, `ResolvedAtHome`, `EvictedOnceAcknowledged`, `MaxStaleness`, `CoherentWhenQuiet` | what the cache guarantees in spite of races and failures (about 1,370,000 states) |
| `foreign_policy` | same | `LinksStayInOrg` violated | a policy of another organization is linked |
| `policy_admin` | 5 requests, 2 organizations, 2 names, 4 statements | `TypeOK`, `NameRefusedForCause`, `BrokenOffForCause`, `RemovedStaysRemoved`, `SerialEditsAreWhole` | what edits, removals and renames that overlap can and cannot do (about 210,000 states) |
| `solutions` | 3 requests, 2 names, 2 prefixes, 1 place, 1 fault | `TypeOK`, `OutcomeKnown`, `NoCallAfterDeregistration`, `RegistrationRefusedForCause` | what an answer of the gateway is worth (about 930,000 states) |
| `browser_session` | 3 calls, access lifetime 0, refresh lifetime 1, clock 0..2, 1 event | `TypeOK`, `AdminForCause`, `WrittenOnce`, `SentToLoginForCause`, `StoredSessionIsLive` | parallel tabs: who is admin, who is signed out, what stays stored (about 1,500,000 states) |
| `startup` | 10 tables, 3 attempts, 3 deaths or wipes, fairness | `TypeOK`, `SchemaWhenServing`, `MigratedWhole`, `UsableUnlessInterrupted`, `EveryStartEnds` | starts over crashes at any statement (about 23,000 states) |
| `kept_in_sync` | same | `KeptInSync` violated | after an interrupted `init.sql` the auth-service serves tables of another shape |

The instances are finite and requests are handled once, so every behaviour
ends with all requests answered and the clock at its bound: the configurations
turn the deadlock check off, and a handler that waits for ever is what
`EveryRequestIsAnswered` and `EveryStartEnds` look for.

## 5. Bounds, and why they are enough

- **Requests** (`Reqs`). Each property relates two or three requests; the
  configurations have enough for those plus the ones that set up their state.
  Sessions: a login, two overlapping calls on its token and one more in a later
  second or on the new token. Onboarding: a sign-up, an invitation and two acceptances of it, or one and
  a sign-up that compete for its e-mail; or two organizations and an account that joins one, which takes the
  three e-mails. Rate limiter: a limit of two, one request over it, one more of
  either organization. Policy cache: a read that stores, a change, a read that is
  served. Requests are interchangeable, hence the symmetry (not used for liveness).
- **`MaxClock`** lets a token, an invitation, a window or a cache entry expire and
  leaves a tick after that. In `onboarding` an invitation is good for its own tick and the next
  (`INVITE_TTL` 1), in `onboarding_live`, where the clock stands still, for good. A list may be resolved
  at tick 0, stored at tick 1, and served until tick 3.
- **`MaxCrashes`, `MaxOutages`, `MaxFaults`** are 1: after a crash nothing of a
  handler is left, so that a second one adds no new kind of state.
- **One user** in `sessions` and `policy_cache`: rows and keys of different users do
  not meet (a token string names its user, a Redis key too). The theorems hold for any
  set of users.
- **Policy administration**: five requests are a creation, an added statement and
  three that overlap on them, or four for one name and a bystander. The bodies are
  (users, read, deny), (groups, read, allow), (users, write, deny) and (groups, read, grant). Two edits that
  read one of the first three and write the other two change different columns, and leave
  (groups, write, allow), say, which nobody asked for; the fourth has an effect the table refuses.
- **Solutions**: three requests are two registrations that compete, or a registration,
  a deregistration and a chat call; a fault may strike any host at any point. A solution answers with any
  of the statuses that the gateway and the user-service use as well.
- **Browser session**: a sign-in and two calls that both find the access token
  expired, or one of them a sign-out. With `ACCESS_TTL` 0 a token is good for the tick it
  was signed in, and the clock leaves one more for the refresh token to expire.
- **Start-up**: the real ten tables; three crashes are one in `init.sql`, one in
  the migration, and one more. The attempts are 3 instead of 10: they are only counted.
- **Two slugs and two e-mails** in `onboarding_live`: with a sign-up and an invitation that are through, a
  second sign-up can hold the other slug and wait for an e-mail that an acceptance holds; and of two sign-ups
  of two slugs one can wait for the other's e-mail, with a third waiting for its slug.

Safety is also proved for every value of these constants (section 7), which no bound can
affect.

## 6. Fairness

Two specifications assume any.

- `Onboarding!FairSpec`: weak fairness of `Proceed(r)`
  for each request. It says that a handler's thread runs, and that the database executes a
  statement once no other transaction holds the key; `Proceed(r)` is disabled
  while one does, so weak fairness does not assume the absence of deadlock it is
  used to show. Nothing is assumed of arrivals, of the clock, of crashes, or of a
  password's being refused.
- `Startup!Spec`: weak fairness of `Waits(s)`, as the loop of `wait_for_db` sleeps 2
  seconds and tries again, and of `Migrates`, as the database executes statements while it is
  up. Nothing is assumed of Postgres, which may stay down or never end its script, nor
  of operators. The starts end nevertheless, which is what the attempts are counted for.

## 7. Proofs

Eight modules hold proofs that tlapm checks, for all values of the constants that satisfy the module's
assumption: constants that stand for "none" lie outside the sets they
complement, lifetimes and limits are (positive) naturals, every user, group and policy has an
organization. The bounds on the clock and failures are arbitrary naturals, so the
theorems cover runs of any length.

- **AuthSessions_proofs**: `TypeCorrect`, `ConsumedOnceHolds`, `NoSilentLossHolds`,
  `FailureHasCauseHolds`, `RevokedStaysRevokedHolds`, `SessionsAccountedForHolds`, `LedgerRefinement`. The properties are not inductive,
  because they say nothing of a handler halfway. `IInv` follows a row
  through its life: in the table only once the request that made it is answered, with the
  token that request signed (`RowsOfAnswered`); whoever found it presented that
  token (`EntriesWereRows`); gone once a finder is past its delete
  (`SpentRowsGone`), for good. `RevokedStaysRevoked` is an action property: with
  `IInv`, every step keeps a dead token dead, as a token signed now expires later than
  it. `SessionsAccountedFor` compares a number of rows with one of requests, and no step changes
  both in a way that one can see: `AInv` weighs, per user, those who hold a session or are
  about to make one against the logins and the refreshes whose row somebody else took as well
  (`AccountsBalance`), for which it must know that a row that is gone was spent by somebody
  (`GoneBecauseSpent`) and that requests only find tokens of their own user (`OwnTokens`). Each
  step adds at most as much on the left as on the right, by the library's facts about the cardinality of
  a set with one element more. `LedgerRefinement` rests on `IInv` and `OwnTokens`: a session asked for was there
  and known to a client when it was asked for, and its row is gone once somebody is past its delete.
  One lemma per action of the ledger (`LedgerAdmit`, `LedgerFail`, ...) shows the mapped step.
- **Onboarding_proofs**: `TypeCorrect`, `SignupIsAtomicHolds`, `AcceptedOnceHolds`,
  `InviteNotWastedHolds`, `MembersAreHomeHolds`, `Refinement`, `WaitsAreShortHolds`,
  `OnwardsOnlyHolds`. `IInv` adds which states
  belong to which route and what they know (`Routes`), that each row belongs to the request
  that made it (`Owners`; it may be "created" and die before it has answered, so it is the rows that are all
  there or not, and an answer tells, but the lack of one does not), and that a key held by an open transaction is held by it
  alone and is not in the table (`Exclusive`); that one is what makes the commit safe after
  a check that may be stale. `Refinement` maps `CommitSignup` to `SignUp`, `CommitAccept`
  to `Join`, and every other step to a stutter. The last two are what the liveness run rests on, for any
  number of requests: who waits for a key waits for one transaction, which may wait for one
  more, which waits for nobody (`WaitsAreShort`: a transaction that holds an e-mail has all it needs), and
  every step of a request brings it nearer its answer (`OnwardsOnly`).
- **RateLimiter_proofs**: `TypeCorrect`, `WindowBoundHolds`, `CountsAreChainedHolds`, `QuotaRefinement`.
  Within one window and one life of the key the counts given out are all different
  (`CountsDifferInWindow`), as each is below the counter while it can matter
  (`RecentBelowCounter`). The allowed requests of a window are thus mapped injectively into
  `1..RATE_LIMIT`, and the library's facts on cardinality give the bound. `QuotaRefinement` adds
  that the counter is the size of the period (`CounterIsPeriod`) and that whatever counted towards
  it did so before it expires (`CountedBeforeExpiry`), so that the value INCR returns tells
  whether the quota is used up. A request that has been counted keeps its verdict until it is answered, or
  until it is waived (`QuotaWaive`), for which Redis must be down.
- **PolicyCache_proofs**: `TypeCorrect`, `ResolvedAtHomeHolds`,
  `EvictedOnceAcknowledgedHolds`, `MaxStalenessHolds`, `CoherentWhenQuietHolds`. What is
  cached was resolved and stored by an answered read of that user at most a lifetime ago
  (`CacheOwned`, `StoresItsOwn`); "after" only names what was done (`AfterIsDone`), and `at` is never in
  the future (`AtPast`); the four
  properties are strengthened to entries that have expired and lists not yet stored (`Sourced`, `Evicted`,
  `Aging`, `Unaware`, `Coherent`), since a step may not look at the clock. `MaxStaleness` is the sum of two:
  a list cached before a change expires a lifetime after it at most (`Aging`), and one that does not know of
  a change was resolved no later than it (`Unaware`), so that it lives on for the lifetime and its `Delay`.

- **PolicyAdmin_proofs**: `TypeCorrect`, `NameRefusedForCauseHolds`,
  `BrokenOffForCauseHolds`, `RemovedStaysRemovedHolds`, `SerialEditsAreWholeHolds` (and
  `NamesUniqueHolds`: names are unique in an organization for any number of
  requests). A refused creation says that another request has a name at that moment, but renames
  may take it away later; so `IInv` follows who named what: every name in the tables was
  asked for by an answered request (`NamedByRequest`), a statement belongs to a
  policy of the organization that may edit it (`StatementOfPolicy`), and what a handler has
  loaded was stored by an answered request (`StatementRoutes`).
  `SerialEditsAreWhole` is an action property that follows from it.

- **SolutionRouting_proofs**: `TypeCorrect`, `OutcomeKnownHolds`,
  `NoCallAfterDeregistrationHolds`, `RegistrationRefusedForCauseHolds`. `IInv` relates the two sides of a
  call (`Sides`: the service has it once, and only while the gateway waits can it get it; an answer that the gateway
  did not make up is the service's), and follows a
  row from its registration to its removal, after which it does not come back (`Rows`);
  so a look-up that begins after a deregistration was answered cannot find the row it removed (`Befores`,
  `Targets`).
- **BrowserSession_proofs**: `TypeCorrect`, `AdminForCauseHolds`, `WrittenOnceHolds`,
  `SentToLoginForCauseHolds`, `StoredSessionIsLiveHolds`, `LedgerRefinement`. Every pair that is stored or sent has been
  installed and is not signed again (`Tokens`), its claims were read while they were true (`Genuine`,
  `Signer`), and a call that was let pass was not acted on before (`Acting`). The last two properties speak of
  runs without faults; there the services only work on what somebody waits for (`Awaited`), the stored token
  has a row or somebody in flight has taken it (`StoredIsGood`), and a refresh whose row is gone has a
  rival (`FailsForCause`). `LedgerRefinement` adds which kind of call is in touch with which
  handler (`Contacts`) and that whatever is in the table, stored or sent was given out by the
  service before (`HeldWasGiven`): a session that a request finds is one the ledger has settled.
- **Startup_proofs**: `TypeCorrect`, `SchemaWhenServingHolds`, `MigratedWholeHolds`,
  `UsableUnlessInterruptedHolds`, `StartsAdvanceHolds`. `IInv` says how far `init.sql` has come (`ScriptRuns`), what the open
  transaction has created (`MigrationRuns`), and that the version is recorded only once all tables
  are there (`VersionRecorded`). `StartsAdvance` counts the steps that a start still has before it at most
  (attempts left, tables left): its own steps make that number smaller, and nothing else makes it larger.

**Model-checked only**: `EveryRequestIsAnswered` and `EveryStartEnds`, since liveness is beyond the
prover (what they need of safety is proved: `WaitsAreShort` and `OnwardsOnly`, `StartsAdvance`), and the
violations of section 8. Proved without a run of their own are those three, `ConsumedOnce` and
`CountsAreChained`, which a refinement has taken the place of, and that `BrowserSession` implements the ledger:
TLC takes longer for that than its run should, and has checked it with the clock bounded by 1.

## 8. Where the source says otherwise

Three disagreements are reproduced by a run that expects the violation; `PROJECT.json`
"findings" quotes the lines.

1. A replayed refresh token "finds no row" - not if the calls overlap.
2. A policy of one organization "cannot be assigned to a group in" another - no one looks.
3. "Alembic and init.sql are kept in sync" - their tables differ (`is_active`, `description`,
   `name` and `route_prefix` are missing in the migration's), which shows after an interrupted `init.sql`.

Others are read off the models, where the action that differs is in plain sight, and have no
run of their own:

- `routes.py:133` (auth-service), the submitted token "is immediately invalidated": not within the second
  it was signed in (`AuthSessions!Sign`). `routes.py:153`, after logout it "cannot be used": a refresh
  under way completes (`Rotate` does not ask whether the row is still there).
- `routes.py:97` (auth-service), sign-up answers 409 if the e-mail or slug is taken: 500 if they were
  taken after the check (`Onboarding!AddOrg`, `AddUser`).
- `rate_limiter.py:21` (gateway), EXPIRE is to "set TTL only when key is first created", which makes the
  "60-second window" of line 17, and line 79's 429 for the requests "in WINDOW_SECONDS": line 89 calls EXPIRE
  without NX, so each request renews the time to live, those refused with 429 too, and the count reaches
  back to the last quiet window (`RateLimiter!NextExpiry`). `Quota` takes the code's side: `ImplementsQuota`
  is not evidence for the comment. An organization that sends 600 requests a minute, within the
  1000 it has, is refused from the second minute on, and for as long as it goes on asking.
- user-service `routes.py:12` and `20-23`, "ALL DB queries filter by this", "A user from org A can never see org
  B's data even if they guess the UUID of org B's resource", and `init.sql:28-30`, "Data from one org is never
  visible to another at the application layer": `routes.py:303-305` answers from the cache before anything
  has compared the caller's organization with the user's, so that while `policy:{user_id}` is cached a caller
  of any organization is answered 200 with the list, and 404 only once it is not (`PolicyCache!Get`,
  `Resolve`). Nor do the changes of memberships look at the user's organization, or `assign_policy` at
  the policy's (number 2 above). `ResolvedAtHome` says what does hold: what is answered was resolved
  for a caller of the user's organization; it does not say that only such callers get it.
- `core/cache.py:18`, "Max staleness is 5 minutes": for a list that was in the cache when the change
  was made. One that was resolved before the change and SET after it stays for 5 minutes from the SET
  (`PolicyCache!Store`), so that the maximum is 5 minutes and the time between its queries and its SET, which
  nothing bounds. `MaxStaleness` states both.
- `README.md:571` and gateway `README.md:139`, 503 means "Downstream service unreachable": `_forward` passes
  any status on, so a 503, or a 404, of a chat call may be the solution's own (`SolutionRouting!Chat`, `Reply`).
- user-service `README.md:234`, the "next policies call reflects the new membership": not if a read's SET
  arrives after the DEL (`PolicyCache!Store`).
- user-service `schemas/policy.py:31`, an update "replaces the statement's values": only in the columns that
  differ from what was read, so two of them mix (`PolicyAdmin!Written`).
- user-service `schemas/registry.py:14` and `init.sql:193`, `allowed_groups` "controls who can use the
  service": neither the gateway's chat route nor the registry compares it with the caller's groups, and so
  `SolutionRouting` has no such column.
- auth-service `main.py:151-153`, a failed start "causes the container to restart (as configured in
  docker-compose)": the services have no restart policy (`Startup!Start` is an operator's).

What does hold instead is what the passing runs and the theorems state.

## 9. Not modelled

- *Read only*: the lists and gets of users, organizations, groups, policies and services. They
  change nothing; paged lists use OFFSET without ORDER BY, which is a matter of the
  database's plan rather than of this code's states. A user's policies, the one list that is cached, are in
  `PolicyCache`.
- *Abstracted*: passwords and their policy (a choice), the text of tokens, names and
  statements, HTTP and its formats. Refresh token strings are their claims; signature
  forgery is outside the model.
- *Environment*: Redis comes back with each key as it was or without it; a
  return to an older snapshot is left out. The database neither loses commits nor fails by itself, except
  with the process that uses it. Clocks of the services do not go backwards.
- *Nothing to check*: pages and forms beyond sign-in and sign-out, logging, request ids, configuration.

## 10. Plan

Done, in this order, each with its run and proofs: `RateLimiter`, `AuthSessions`, `Onboarding` with
`Registration`, `PolicyCache`, `PolicyAdmin`, `SolutionRouting`, `Startup`, `BrowserSession`; then
the abstract specifications `Quota` and `SessionLedger`. Next:

1. Equal strings of tokens signed in one second, in `BrowserSession`.
2. Abstract specifications of the policy cache (a register read with bounded staleness) and of forwarding
   (a call carried out at most once), if they come out simpler than the properties that are there.
