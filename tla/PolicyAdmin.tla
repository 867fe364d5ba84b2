----------------------------- MODULE PolicyAdmin -----------------------------
(***************************************************************************)
(* How an admin writes groups, policies and statements: create_group and   *)
(* policy_service of the user-service.                                     *)
(*                                                                         *)
(* Handlers run in a pool of threads, each in a session at READ COMMITTED; *)
(* every handler commits once.  What a handler has read may be stale when  *)
(* it commits.  A row written at commit is read back (db.refresh) for the  *)
(* answer.  An exception that is no HTTPException is answered 500.         *)
(*                                                                         *)
(*   create:  idle -> checked -> ok                                        *)
(*   rename:  idle -> found -> checked -> ok                               *)
(*   add:     idle ----------> stored -> ok                                *)
(*   edit:    idle -> loaded -> stored -> ok                               *)
(*   remove:  idle -> loaded -> ok                                         *)
(*                                                                         *)
(* Rows are named by the request that inserted them.  Groups and policies  *)
(* are never deleted, so what is looked up of them once stays true; only   *)
(* the name of a policy changes.                                           *)
(***************************************************************************)
CONSTANTS
    Orgs, Names,
    Values,        \* what a column of a statement may hold
    Effects,       \* the CHECK constraint: "allow" and "deny"
    Bodies,        \* the statements that requests ask for
    Reqs,          \* the requests, each handled once
    None

Columns    == {"resource", "action", "effect"}
Statements == [Columns -> Values]
Creations  == {"create_group", "create_policy"}
Edits      == {"update_statement", "remove_statement"}
Ops        == Creations \union {"update_policy", "add_statement"} \union Edits

\* What a request is about: its caller's organization, a name, a policy and
\* a statement of the URL, and a statement in the body.
Args == [org : Orgs, name : Names \union {None}, policy : Reqs \union {None},
         statement : Reqs \union {None}, body : Bodies \union {None}]

\* The rows of groups and policies, and those of policy_statements.
NamedRows == [kind : {"group", "policy"}, org : Orgs, name : Names]
StmtRows  == [policy : Reqs, is : Statements]

ASSUME PolicyAdminAssumption ==
    /\ Bodies \subseteq Statements
    /\ None \notin Names \union Reqs \union Args \union Statements \union NamedRows
                 \union StmtRows

VARIABLES
    named,     \* named[r]: row of groups or policies that r inserted
    stmt,      \* stmt[r]: row of policy_statements that r inserted
    op, pc,    \* route and state of each request
    arg,       \* arg[r]: what r is about
    read       \* read[r]: the name, or the statement, as r has read it

vars == <<named, stmt, op, pc, arg, read>>

Answers   == {"ok", "404", "409", "500"}

TypeOK ==
    /\ named \in [Reqs -> NamedRows \union {None}]
    /\ stmt \in [Reqs -> StmtRows \union {None}]
    /\ op \in [Reqs -> Ops \union {"none"}]
    /\ pc \in [Reqs -> {"idle", "found", "checked", "loaded", "stored"} \union Answers]
    /\ arg \in [Reqs -> Args \union {None}]
    /\ read \in [Reqs -> Names \union Statements \union {None}]

Init ==
    /\ named = [r \in Reqs |-> None]
    /\ stmt = [r \in Reqs |-> None]
    /\ op = [r \in Reqs |-> "none"]
    /\ pc = [r \in Reqs |-> "idle"]
    /\ arg = [r \in Reqs |-> None]
    /\ read = [r \in Reqs |-> None]

-----------------------------------------------------------------------------
Goto(r, state) == pc' = [pc EXCEPT ![r] = state]

\* Request r arrives as a call of route o about a.
Begin(r, o, a) ==
    /\ pc[r] = "idle"
    /\ op' = [op EXCEPT ![r] = o]
    /\ arg' = [arg EXCEPT ![r] = a]
    /\ UNCHANGED named

\* Some row other than that of request own has this unique key.
Taken(kind, o, n, own) ==
    \E q \in Reqs \ {own} : /\ named[q] # None /\ named[q].kind = kind
                            /\ named[q].org = o /\ named[q].name = n

\* Mutant of PolicyOf: the lookup is not scoped to the organization.
PolicyOfAnyOrg(o, p) == named[p] # None /\ named[p].kind = "policy"

\* p is a policy of organization o.
PolicyOf(o, p) == named[p] # None /\ named[p].kind = "policy" /\ named[p].org = o

-----------------------------------------------------------------------------
(* POST /groups and /policies: create_group, create_policy *)

\* Mutant of Kind: the table is named like the route.
KindOfRoute(r) == op[r]

\* The table a request names a row of.
Kind(r) == IF op[r] = "create_group" THEN "group" ELSE "policy"

CheckName(r, o, org, n) ==
    /\ o \in Creations
    /\ Begin(r, o, [org |-> org, name |-> n, policy |-> None, statement |-> None,
                    body |-> None])
    /\ Goto(r, IF Taken(IF o = "create_group" THEN "group" ELSE "policy", org, n, r)
               THEN "409" ELSE "checked")
    /\ UNCHANGED <<stmt, read>>

\* The INSERT and its commit: UNIQUE (org_id, name) may be violated by now.
Insert(r) ==
    /\ pc[r] = "checked"
    /\ op[r] \in Creations
    /\ IF Taken(Kind(r), arg[r].org, arg[r].name, r)
         THEN Goto(r, "500") /\ UNCHANGED named
         ELSE /\ named' = [named EXCEPT ![r] = [kind |-> Kind(r), org |-> arg[r].org,
                                                name |-> arg[r].name]]
              /\ Goto(r, "ok")
    /\ UNCHANGED <<stmt, op, arg, read>>

-----------------------------------------------------------------------------
(* PUT /policies/{policy_id}: update_policy *)

FindPolicy(r, org, p, n) ==
    /\ Begin(r, "update_policy", [org |-> org, name |-> n, policy |-> p,
                                  statement |-> None, body |-> None])
    /\ IF PolicyOf(org, p)
         THEN Goto(r, "found") /\ read' = [read EXCEPT ![r] = named[p].name]
         ELSE Goto(r, "404") /\ UNCHANGED read
    /\ UNCHANGED stmt

\* Mutant of CheckRename: the policy conflicts with itself.
CheckRenameSelf(r) ==
    /\ pc[r] = "found"
    /\ Goto(r, IF Taken("policy", arg[r].org, arg[r].name, r) THEN "409" ELSE "checked")
    /\ UNCHANGED <<named, stmt, op, arg, read>>

CheckRename(r) ==
    /\ pc[r] = "found"
    /\ Goto(r, IF Taken("policy", arg[r].org, arg[r].name, arg[r].policy)
               THEN "409" ELSE "checked")
    /\ UNCHANGED <<named, stmt, op, arg, read>>

\* The commit.  A name that is the one that was read is not written.
Rename(r) ==
    /\ pc[r] = "checked"
    /\ op[r] = "update_policy"
    /\ \/ /\ arg[r].name = read[r]
          /\ Goto(r, "ok") /\ UNCHANGED named
       \/ /\ arg[r].name # read[r]
          /\ Taken("policy", arg[r].org, arg[r].name, arg[r].policy)
          /\ Goto(r, "500") /\ UNCHANGED named
       \/ /\ arg[r].name # read[r]
          /\ ~Taken("policy", arg[r].org, arg[r].name, arg[r].policy)
          /\ named' = [named EXCEPT ![arg[r].policy].name = arg[r].name]
          /\ Goto(r, "ok")
    /\ UNCHANGED <<stmt, op, arg, read>>

-----------------------------------------------------------------------------
(* POST, PUT and DELETE of statements: add_statement, update_statement,     *)
(* remove_statement                                                         *)

\* The effect is a plain string of the body; the CHECK constraint looks at it.
AllowedEffect(s) == s["effect"] \in Effects

AddStatement(r, org, p, b) ==
    /\ Begin(r, "add_statement", [org |-> org, name |-> None, policy |-> p,
                                  statement |-> None, body |-> b])
    /\ IF ~PolicyOf(org, p)
         THEN Goto(r, "404") /\ UNCHANGED stmt
       ELSE IF ~AllowedEffect(b)
         THEN Goto(r, "500") /\ UNCHANGED stmt
         ELSE Goto(r, "stored") /\ stmt' = [stmt EXCEPT ![r] = [policy |-> p, is |-> b]]
    /\ UNCHANGED read

\* update_statement and remove_statement look up the policy, then in it the statement.
LoadStatement(r, o, org, p, s, b) ==
    /\ Begin(r, o, [org |-> org, name |-> None, policy |-> p, statement |-> s,
                    body |-> IF o = "update_statement" THEN b ELSE None])
    /\ IF PolicyOf(org, p) /\ stmt[s] # None /\ stmt[s].policy = p
         THEN Goto(r, "loaded") /\ read' = [read EXCEPT ![r] = stmt[s].is]
         ELSE Goto(r, "404") /\ UNCHANGED read
    /\ UNCHANGED stmt

\* Mutant of Written: the resource is not assigned.
WrittenNoResource(now, r) ==
    [c \in Columns |-> IF c # "resource" /\ arg[r].body[c] # read[r][c]
                       THEN arg[r].body[c] ELSE now[c]]

\* The row as the UPDATE of r leaves it: the session writes the columns whose
\* value is not the one it has read, and no other.
Written(now, r) ==
    [c \in Columns |-> IF arg[r].body[c] # read[r][c] THEN arg[r].body[c] ELSE now[c]]

\* The UPDATE of r matches a row (or StaleDataError) and leaves an effect that
\* the CHECK constraint takes.
UpdateTaken(r) ==
    LET s == arg[r].statement IN stmt[s] # None /\ AllowedEffect(Written(stmt[s].is, r))

\* The commit.  With nothing to write there is no UPDATE.
Edit(r) ==
    /\ pc[r] = "loaded"
    /\ op[r] = "update_statement"
    /\ \/ /\ arg[r].body = read[r]
          /\ Goto(r, "stored") /\ UNCHANGED stmt
       \/ /\ arg[r].body # read[r] /\ ~UpdateTaken(r)
          /\ Goto(r, "500") /\ UNCHANGED stmt
       \/ /\ arg[r].body # read[r] /\ UpdateTaken(r)
          /\ stmt' = [stmt EXCEPT ![arg[r].statement].is = Written(@, r)]
          /\ Goto(r, "stored")
    /\ UNCHANGED <<named, op, arg, read>>

\* Mutants of Remove: the commit is forgotten; a DELETE must match a row.
RemoveNoCommit(r) ==
    /\ pc[r] = "loaded"
    /\ op[r] = "remove_statement"
    /\ Goto(r, "ok")
    /\ UNCHANGED <<named, stmt, op, arg, read>>
RemoveStrict(r) ==
    /\ pc[r] = "loaded"
    /\ op[r] = "remove_statement"
    /\ stmt' = [stmt EXCEPT ![arg[r].statement] = None]
    /\ Goto(r, IF stmt[arg[r].statement] = None THEN "500" ELSE "ok")
    /\ UNCHANGED <<named, op, arg, read>>

\* A DELETE that matches no row is only a warning.
Remove(r) ==
    /\ pc[r] = "loaded"
    /\ op[r] = "remove_statement"
    /\ stmt' = [stmt EXCEPT ![arg[r].statement] = None]
    /\ Goto(r, "ok")
    /\ UNCHANGED <<named, op, arg, read>>

\* The row that add_statement or update_statement has written.
RowOf(r) == IF op[r] = "add_statement" THEN r ELSE arg[r].statement

\* db.refresh raises for a row that is gone by now.
Refresh(r) ==
    /\ pc[r] = "stored"
    /\ Goto(r, IF stmt[RowOf(r)] = None THEN "500" ELSE "ok")
    /\ UNCHANGED <<named, stmt, op, arg, read>>

-----------------------------------------------------------------------------
\* The ids that a client can know: those that rows have, or had.
PolicyIds    == {p \in Reqs : named[p] # None /\ named[p].kind = "policy"}
StatementIds == {s \in Reqs : op[s] = "add_statement" /\ pc[s] = "ok"}

Request(r) ==
    \E org \in Orgs :
        \/ \E o \in Creations, n \in Names : CheckName(r, o, org, n)
        \/ \E p \in PolicyIds :
            \/ \E n \in Names : FindPolicy(r, org, p, n)
            \/ \E b \in Bodies : AddStatement(r, org, p, b)
            \/ \E s \in StatementIds, o \in Edits, b \in Bodies :
                  LoadStatement(r, o, org, p, s, b)

Next == \E r \in Reqs : \/ Request(r) \/ Insert(r) \/ CheckRename(r) \/ Rename(r)
                        \/ Edit(r) \/ Remove(r) \/ Refresh(r)

Spec == Init /\ [][Next]_vars

-----------------------------------------------------------------------------
(* Properties *)

\* Two groups, or two policies, of one organization never have one name,
\* however creations and renames interleave: permissions are found by name.
NamesUnique ==
    \A q, r \in Reqs : q # r /\ named[q] # None => named[q] # named[r]

\* The group or policy that r has named.
Subject(r) == IF op[r] = "update_policy" THEN arg[r].policy ELSE r

\* A creation or rename is refused (409), or fails (500), only when another
\* request has given that very name to another row of the same kind and
\* organization; in particular a policy may be renamed to the name it has.
NameRefusedForCause ==
    \A r \in Reqs :
        (op[r] \in Creations \union {"update_policy"} /\ pc[r] \in {"409", "500"}) =>
            \E q \in Reqs : /\ op[q] \in Creations \union {"update_policy"}
                            /\ pc[q] = "ok"
                            /\ Kind(q) = Kind(r)
                            /\ arg[q].org = arg[r].org
                            /\ arg[q].name = arg[r].name
                            /\ Subject(q) # Subject(r)

\* A change of statements breaks off (500) only when its effect is not one the
\* table allows, or the statement has been removed for good; it never breaks
\* off because of another edit, and a removal never does.
BrokenOffForCause ==
    \A r \in Reqs :
        (op[r] \in {"add_statement"} \union Edits /\ pc[r] = "500") =>
            /\ op[r] # "remove_statement"
            /\ AllowedEffect(arg[r].body) => stmt[RowOf(r)] = None

\* A removal that was answered has removed the statement, and no request that
\* was at work then brings it back.
RemovedStaysRemoved ==
    \A r \in Reqs : op[r] = "remove_statement" /\ pc[r] = "ok"
                        => stmt[arg[r].statement] = None

\* A statement only changes by an edit of the organization that owns its policy,
\* and becomes what that edit asks for as a whole, unless another edit has come
\* between the reading and the writing of this one.
SerialEditsAreWhole ==
    [][\A s \in Reqs :
        (stmt[s] # None /\ stmt'[s] \notin {None, stmt[s]}) =>
            \E r \in Reqs :
                /\ pc[r] = "loaded" /\ pc'[r] = "stored"
                /\ arg[r].org = named[stmt[s].policy].org
                /\ stmt'[s].policy = stmt[s].policy
                /\ stmt[s].is = read[r] => stmt'[s].is = arg[r].body]_vars
=============================================================================
