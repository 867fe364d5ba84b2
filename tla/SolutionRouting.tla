--------------------------- MODULE SolutionRouting ---------------------------
(***************************************************************************)
(* The directory of solutions and the calls that go through it: the        *)
(* registry of the user-service, and _forward, registry and solution_chat  *)
(* of the gateway.                                                         *)
(*                                                                         *)
(* A call has two sides.  The gateway waits (calls[r]) until it has an     *)
(* answer or gives up; the service that the call was delivered to works    *)
(* (served[r]) whether or not the gateway still waits:                     *)
(*                                                                         *)
(*   gateway, chat:   idle -> lookup -> forwarding -> answer               *)
(*   gateway, other:  idle -----------> forwarding -> answer               *)
(*   solution:        none -> arrived -> answer                            *)
(*   register:        none -> arrived -> checked -> stored -> answer       *)
(*   deregister:      none -> arrived -> found -> answer                   *)
(*                                                                         *)
(* A service may refuse connections, die with the calls it has, or be too  *)
(* slow, and the database may fail.  Answers arrive as a whole.  Rows are  *)
(* named by the request that inserted them.                                *)
(***************************************************************************)
EXTENDS Naturals

CONSTANTS
    Names, Prefixes,
    Urls,               \* where solutions run
    UserService, Database,
    Reqs,               \* the requests, each sent once
    None,
    MaxFaults           \* bound: this often something fails or is switched

Hosts == Urls \union {UserService, Database}

\* The caller's group, a solution as an admin describes it, and a service_id.
Args == [group : {"admin", "other"}, name : Names, prefix : Prefixes \union {None},
         url : Urls \union {None}, id : Reqs \union {None}]

ASSUME SolutionRoutingAssumption ==
    /\ None \notin Reqs \union Args \union Urls
    /\ UserService \notin Urls /\ Database \notin Urls /\ UserService # Database
    /\ MaxFaults \in Nat

VARIABLES
    rows,      \* the rows of service_registry
    inactive,  \* those with is_active = false
    removed,   \* (history) rows that were deleted
    up,        \* the hosts that work
    faults,
    op, arg,   \* route and arguments of each request
    calls,     \* calls[r]: where the gateway is with r
    served,    \* served[r]: where the service is that r was delivered to
    target,    \* target[r]: the row that the lookup of a chat call found
    runs,      \* (history) runs[r]: how often r was delivered
    before     \* (history) before[r]: changes answered 200 when r was sent

table   == <<rows, inactive, removed>>
network == <<up, faults>>
vars    == <<table, network, op, arg, calls, served, target, runs, before>>

Answers == {"200", "403", "404", "409", "500", "503", "504"}
Working == {"arrived", "checked", "stored", "found"}

TypeOK ==
    /\ rows \subseteq Reqs /\ inactive \subseteq Reqs /\ removed \subseteq Reqs
    /\ up \subseteq Hosts
    /\ faults \in 0..MaxFaults
    /\ op \in [Reqs -> {"none", "register", "deregister", "chat"}]
    /\ arg \in [Reqs -> Args \union {None}]
    /\ calls \in [Reqs -> {"idle", "lookup", "forwarding"} \union Answers]
    /\ served \in [Reqs -> {"none", "lost"} \union Working \union Answers]
    /\ target \in [Reqs -> Reqs \union {None}]
    /\ runs \in [Reqs -> Nat]
    /\ before \in [Reqs -> SUBSET Reqs]

Init ==
    /\ rows = {} /\ inactive = {} /\ removed = {}
    /\ up = Hosts
    /\ faults = 0
    /\ op = [r \in Reqs |-> "none"]
    /\ arg = [r \in Reqs |-> None]
    /\ calls = [r \in Reqs |-> "idle"]
    /\ served = [r \in Reqs |-> "none"]
    /\ target = [r \in Reqs |-> None]
    /\ runs = [r \in Reqs |-> 0]
    /\ before = [r \in Reqs |-> {}]

-----------------------------------------------------------------------------
(* The gateway *)

Answered(r) == calls[r] \in Answers

\* The gateway moves on with r, or answers it.
Gateway(r, state) ==
    /\ calls' = [calls EXCEPT ![r] = state]
    /\ UNCHANGED <<table, network, op, arg, before>>

\* Request r reaches the gateway, past the token and the rate limit.
Send(r, o, a) ==
    /\ calls[r] = "idle"
    /\ op' = [op EXCEPT ![r] = o]
    /\ arg' = [arg EXCEPT ![r] = a]
    /\ calls' = [calls EXCEPT ![r] = IF o = "chat" THEN "lookup" ELSE "forwarding"]
    /\ before' = [before EXCEPT ![r] = {q \in Reqs : op[q] # "chat" /\ calls[q] = "200"}]
    /\ UNCHANGED <<table, network, served, target, runs>>

\* What the lookup of n finds: GET /internal/registry/{name}
Active(q, n) == q \in rows \ inactive /\ arg[q].name = n

\* Mutant of LookupFound: it keeps the base_url and not the row.
LookupFoundUrl(r, q) ==
    /\ calls[r] = "lookup"
    /\ {UserService, Database} \subseteq up
    /\ Active(q, arg[r].name)
    /\ target' = [target EXCEPT ![r] = arg[q].url]
    /\ Gateway(r, "forwarding")
    /\ UNCHANGED <<served, runs>>

\* The lookup of solution_chat.  Any answer but 200 is taken for "not there",
\* the 500 of a service whose database fails among them.
LookupFound(r, q) ==
    /\ calls[r] = "lookup"
    /\ {UserService, Database} \subseteq up
    /\ Active(q, arg[r].name)
    /\ target' = [target EXCEPT ![r] = q]
    /\ Gateway(r, "forwarding")
    /\ UNCHANGED <<served, runs>>

LookupNotFound(r) ==
    /\ calls[r] = "lookup"
    /\ UserService \in up
    /\ Database \notin up \/ \A q \in Reqs : ~Active(q, arg[r].name)
    /\ Gateway(r, "404")
    /\ UNCHANGED <<served, target, runs>>

\* The lookup itself raises, after 5 seconds or at once; nothing catches it.
LookupRaises(r) ==
    /\ calls[r] = "lookup"
    /\ Gateway(r, "500")
    /\ UNCHANGED <<served, target, runs>>

\* Where _forward sends r.
Host(r) == IF op[r] = "chat" THEN arg[target[r]].url ELSE UserService

\* _forward: the request is delivered, once.
Deliver(r) ==
    /\ calls[r] = "forwarding" /\ served[r] = "none"
    /\ Host(r) \in up
    /\ served' = [served EXCEPT ![r] = "arrived"]
    /\ runs' = [runs EXCEPT ![r] = @ + 1]
    /\ UNCHANGED <<table, network, op, arg, calls, target, before>>

\* ConnectError
Unreachable(r) ==
    /\ calls[r] = "forwarding" /\ served[r] = "none"
    /\ Host(r) \notin up
    /\ Gateway(r, "503")
    /\ UNCHANGED <<served, target, runs>>

\* TimeoutException, of the connection or of the answer: 10 seconds have passed.
GiveUp(r) ==
    /\ calls[r] = "forwarding"
    /\ Gateway(r, "504")
    /\ UNCHANGED <<served, target, runs>>

\* Mutant of Broken: the call is sent again.
BrokenRetried(r) ==
    /\ calls[r] = "forwarding" /\ served[r] = "lost"
    /\ served' = [served EXCEPT ![r] = "none"]
    /\ UNCHANGED <<table, network, op, arg, calls, target, runs, before>>

\* The connection breaks: a ReadError, which nothing catches.
Broken(r) ==
    /\ calls[r] = "forwarding" /\ served[r] = "lost"
    /\ Gateway(r, "500")
    /\ UNCHANGED <<served, target, runs>>

\* The service's answer is passed on as it is, whatever its status.
Reply(r) ==
    /\ calls[r] = "forwarding" /\ served[r] \in Answers
    /\ Gateway(r, served[r])
    /\ UNCHANGED <<served, target, runs>>

-----------------------------------------------------------------------------
(* The services *)

\* The service moves on with r, or answers it.
Service(r, state) ==
    /\ served' = [served EXCEPT ![r] = state]
    /\ UNCHANGED <<inactive, network, op, arg, calls, target, runs, before>>

\* A solution does what it likes, and answers with any status.
Chat(r) ==
    /\ op[r] = "chat" /\ served[r] = "arrived"
    /\ \E c \in Answers : Service(r, c)
    /\ UNCHANGED <<rows, removed>>

\* require_admin
Forbidden(r) ==
    /\ op[r] # "chat" /\ served[r] = "arrived" /\ arg[r].group # "admin"
    /\ Service(r, "403")
    /\ UNCHANGED <<rows, removed>>

\* r is a call of route o that the user-service works on, its database at hand.
Admin(r, o, state) ==
    /\ op[r] = o /\ served[r] = state /\ arg[r].group = "admin"
    /\ Database \in up

\* Mutant of NameTaken: the url is looked for.
UrlTaken(r) == \E q \in rows : arg[q].url = arg[r].url

NameTaken(r)   == \E q \in rows : arg[q].name = arg[r].name
PrefixTaken(r) == \E q \in rows : arg[q].prefix = arg[r].prefix

\* register_service looks for the name only.
CheckService(r) ==
    /\ Admin(r, "register", "arrived")
    /\ Service(r, IF NameTaken(r) THEN "409" ELSE "checked")
    /\ UNCHANGED <<rows, removed>>

\* The INSERT and its commit: name and route_prefix are unique keys of the table.
InsertService(r) ==
    /\ Admin(r, "register", "checked")
    /\ IF NameTaken(r) \/ PrefixTaken(r)
         THEN Service(r, "500") /\ UNCHANGED rows
         ELSE Service(r, "stored") /\ rows' = rows \union {r}
    /\ UNCHANGED removed

\* db.refresh raises for a row that is gone by now.
RefreshService(r) ==
    /\ Admin(r, "register", "stored")
    /\ Service(r, IF r \in rows THEN "200" ELSE "500")
    /\ UNCHANGED <<rows, removed>>

FindService(r) ==
    /\ Admin(r, "deregister", "arrived")
    /\ Service(r, IF arg[r].id \in rows THEN "found" ELSE "404")
    /\ UNCHANGED <<rows, removed>>

\* Mutant of DeleteService: the row is hidden from the list, and nothing more.
DeleteServiceNot(r) ==
    /\ Admin(r, "deregister", "found")
    /\ Service(r, "200")
    /\ UNCHANGED <<rows, removed>>

\* A DELETE that matches no row is only a warning.
DeleteService(r) ==
    /\ Admin(r, "deregister", "found")
    /\ Service(r, "200")
    /\ rows' = rows \ {arg[r].id}
    /\ removed' = removed \union {arg[r].id}

\* A statement raises: the database fails.
DatabaseError(r) ==
    /\ op[r] # "chat" /\ served[r] \in Working /\ Database \notin up
    /\ Service(r, "500")
    /\ UNCHANGED <<rows, removed>>

-----------------------------------------------------------------------------
(* The environment *)

\* h stops working; a service dies with the calls it has not answered.
Fail(h) ==
    /\ h \in up /\ faults < MaxFaults
    /\ up' = up \ {h}
    /\ faults' = faults + 1
    /\ served' = [r \in Reqs |-> IF /\ served[r] \in Working \union Answers
                                    /\ calls[r] = "forwarding" \/ served[r] \in Working
                                    /\ Host(r) = h
                                 THEN "lost" ELSE served[r]]
    /\ UNCHANGED <<table, op, arg, calls, target, runs, before>>

Recover(h) ==
    /\ h \in Hosts \ up
    /\ up' = up \union {h}
    /\ UNCHANGED <<table, faults, op, arg, calls, served, target, runs, before>>

\* An operator switches a solution off, or on again: no route writes is_active.
Switch(q) ==
    /\ q \in rows /\ faults < MaxFaults
    /\ inactive' = IF q \in inactive THEN inactive \ {q} ELSE inactive \union {q}
    /\ faults' = faults + 1
    /\ UNCHANGED <<rows, removed, up, op, arg, calls, served, target, runs, before>>

-----------------------------------------------------------------------------
Request(r) ==
    \E g \in {"admin", "other"} :
        \/ \E n \in Names, p \in Prefixes, u \in Urls :
             Send(r, "register", [group |-> g, name |-> n, prefix |-> p, url |-> u,
                                  id |-> None])
        \/ \E n \in Names :
             Send(r, "chat", [group |-> g, name |-> n, prefix |-> None, url |-> None,
                              id |-> None])
        \/ \E q \in rows \union removed :
             Send(r, "deregister", [group |-> g, name |-> arg[q].name, prefix |-> None,
                                    url |-> None, id |-> q])

\* What the gateway and the services do.
Gate(r)  == \/ (\E q \in Reqs : LookupFound(r, q)) \/ LookupNotFound(r) \/ LookupRaises(r)
            \/ Deliver(r) \/ Unreachable(r) \/ GiveUp(r) \/ Broken(r) \/ Reply(r)
Serve(r) == \/ Chat(r) \/ Forbidden(r) \/ CheckService(r) \/ InsertService(r)
            \/ RefreshService(r) \/ FindService(r) \/ DeleteService(r) \/ DatabaseError(r)

Next == \/ \E r \in Reqs : Request(r) \/ Gate(r) \/ Serve(r)
        \/ \E h \in Hosts : Fail(h) \/ Recover(h)
        \/ \E q \in Reqs : Switch(q)

Spec == Init /\ [][Next]_vars

-----------------------------------------------------------------------------
(* Properties *)

\* What an answer tells of the work.  A call is delivered at most once.  Its
\* answer is that of the service, or the gateway's own: a 404 or 503 of a call
\* that never was delivered and never will be, or a 500 or 504, after which nobody
\* knows.  A solution may give any of these itself, so the status of a chat does
\* not tell which; the 503 of a registration or deregistration does, and their 200
\* says that the row is there, or gone, or was removed by another call since.
OutcomeKnown ==
    \A r \in Reqs :
        /\ runs[r] <= 1
        /\ Answered(r) => \/ runs[r] = 1 /\ served[r] = calls[r]
                          \/ runs[r] = 0 /\ calls[r] \in {"404", "503"}
                          \/ calls[r] \in {"500", "504"}
        /\ op[r] # "chat" /\ calls[r] = "503" => runs[r] = 0
        /\ op[r] = "register" /\ calls[r] = "200" => r \in rows \union removed
        /\ op[r] = "deregister" /\ calls[r] = "200" => arg[r].id \in removed \ rows

\* A chat call that is sent after a deregistration was answered is not
\* delivered to the solution that was removed, nor to one of another name.
NoCallAfterDeregistration ==
    \A r \in Reqs : target[r] # None =>
        /\ arg[target[r]].name = arg[r].name
        /\ \A d \in before[r] : op[d] = "deregister"
                                => arg[d].id # target[r]

\* A registration is refused only for a name that another one has or had.  While
\* nothing has failed, one fails only for such a name or prefix, or because its
\* row was removed before it was read back, and leaves no row.
RegistrationRefusedForCause ==
    \A r \in Reqs : op[r] = "register" =>
        /\ served[r] = "409" => \E q \in (rows \union removed) \ {r} : arg[q].name = arg[r].name
        /\ served[r] = "500" /\ faults = 0 =>
             /\ r \notin rows
             /\ \/ r \in removed
                \/ \E q \in (rows \union removed) \ {r} :
                      arg[q].name = arg[r].name \/ arg[q].prefix = arg[r].prefix
=============================================================================
