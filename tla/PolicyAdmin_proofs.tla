------------------------- MODULE PolicyAdmin_proofs -------------------------
(***************************************************************************)
(* Proofs about PolicyAdmin, for any organizations, names, statements and  *)
(* effects, and any number of requests.                                    *)
(***************************************************************************)
EXTENDS PolicyAdmin, TLAPS

-----------------------------------------------------------------------------
(* The inductive invariant *)

Namings == Creations \union {"update_policy"}

\* Requests that name a row: what they are about, and what they found.
NamingRoutes ==
    \A r \in Reqs :
        /\ op[r] \in Namings => arg[r] \in Args /\ arg[r].name \in Names
        /\ op[r] \in Creations => pc[r] \in {"checked", "ok", "409", "500"}
        /\ op[r] = "update_policy" =>
             /\ pc[r] \in {"found", "checked", "404", "ok", "409", "500"}
             /\ arg[r].policy \in Reqs
             /\ pc[r] # "404" => PolicyOf(arg[r].org, arg[r].policy) /\ read[r] \in Names

\* Requests that write a statement, likewise.
StatementRoutes ==
    \A r \in Reqs :
        /\ op[r] = "none" <=> pc[r] = "idle"
        /\ op[r] \in Edits \union {"add_statement"} =>
             /\ arg[r] \in Args
             /\ pc[r] \in {"404", "loaded", "stored", "ok", "500"}
        /\ op[r] = "add_statement" => pc[r] # "loaded" /\ arg[r].body \in Bodies
        /\ op[r] = "remove_statement" => pc[r] \notin {"stored", "500"}
        /\ op[r] = "update_statement" => arg[r].body \in Bodies
        /\ op[r] \in Edits =>
             /\ arg[r].statement \in Reqs
             /\ op[arg[r].statement] = "add_statement"
             /\ pc[arg[r].statement] = "ok"
             /\ pc[r] # "404" =>
                  /\ arg[r].policy \in Reqs
                  /\ PolicyOf(arg[r].org, arg[r].policy)
                  /\ arg[arg[r].statement].policy = arg[r].policy
                  /\ read[r] \in Statements

\* Request q has given this name to a row.
Gave(q, row) ==
    /\ op[q] \in Namings /\ pc[q] = "ok"
    /\ Kind(q) = row.kind /\ arg[q].org = row.org /\ arg[q].name = row.name

\* A row of groups or policies has the kind and organization its creation asked
\* for, and the name of some request that was answered and that is about it.
NamedByRequest ==
    \A r \in Reqs : named[r] # None =>
        /\ op[r] \in Creations /\ pc[r] = "ok"
        /\ named[r].kind = Kind(r)
        /\ named[r].org = arg[r].org
        /\ \E q \in Reqs : Gave(q, named[r]) /\ Subject(q) = r

\* A row of policy_statements is of the policy its creation asked for, and has
\* an effect that the table allows.
StatementOfPolicy ==
    \A s \in Reqs : stmt[s] # None =>
        /\ op[s] = "add_statement" /\ pc[s] \in {"stored", "ok"}
        /\ stmt[s].policy = arg[s].policy
        /\ AllowedEffect(stmt[s].is)

IInv ==
    /\ TypeOK
    /\ NamingRoutes
    /\ StatementRoutes
    /\ NamedByRequest
    /\ StatementOfPolicy
    /\ NamesUnique
    /\ NameRefusedForCause
    /\ BrokenOffForCause
    /\ RemovedStaysRemoved

-----------------------------------------------------------------------------
LEMMA InitIInv == Init => IInv
  BY DEF Init, IInv, TypeOK, NamingRoutes, StatementRoutes, NamedByRequest,
     StatementOfPolicy,
         NamesUnique, NameRefusedForCause, BrokenOffForCause, RemovedStaysRemoved,
         Namings, Creations, Edits

-----------------------------------------------------------------------------
(* What every step has in common *)

\* Only request r moves: it has no answer yet, and once it has begun it stays
\* what it is.
Moves(r) ==
    /\ pc[r] \notin Answers
    /\ \A q \in Reqs \ {r} : op'[q] = op[q] /\ pc'[q] = pc[q] /\ arg'[q] = arg[q]
    /\ pc[r] # "idle" => op'[r] = op[r] /\ arg'[r] = arg[r]

\* A request that has been answered stays as it is.
LEMMA AnsweredKept ==
  ASSUME NEW r \in Reqs, Moves(r), NEW q \in Reqs, pc[q] \in Answers
  PROVE  /\ q # r /\ op'[q] = op[q] /\ pc'[q] = pc[q] /\ arg'[q] = arg[q]
         /\ Kind(q)' = Kind(q) /\ Subject(q)' = Subject(q)
  BY DEF Moves, Kind, Subject

\* NameRefusedForCause needs a look only at the request that moves: when it is
\* refused, its name is taken.
LEMMA RefusedKept ==
  ASSUME IInv, NEW r \in Reqs, Moves(r),
         (op'[r] \in Namings /\ pc'[r] \in {"409", "500"}) =>
            Taken(Kind(r)', arg'[r].org, arg'[r].name, Subject(r)')
  PROVE  NameRefusedForCause'
<1> SUFFICES ASSUME NEW q \in Reqs, op'[q] \in Namings, pc'[q] \in {"409", "500"}
             PROVE  \E c \in Reqs : /\ op'[c] \in Namings /\ pc'[c] = "ok"
                                    /\ Kind(c)' = Kind(q)'
                                    /\ arg'[c].org = arg'[q].org
                                    /\ arg'[c].name = arg'[q].name
                                    /\ Subject(c)' # Subject(q)'
  BY DEF NameRefusedForCause, Namings
<1>1. CASE q = r
  <2>1. PICK x \in Reqs : /\ x # Subject(r)' /\ named[x] # None
                          /\ named[x].kind = Kind(r)' /\ named[x].org = arg'[r].org
                          /\ named[x].name = arg'[r].name
    BY <1>1 DEF Taken
  <2>2. PICK c \in Reqs : Gave(c, named[x]) /\ Subject(c) = x
    BY <2>1 DEF IInv, NamedByRequest
  <2>3. /\ c # r /\ op'[c] = op[c] /\ pc'[c] = pc[c] /\ arg'[c] = arg[c]
        /\ Kind(c)' = Kind(c) /\ Subject(c)' = Subject(c)
    BY <2>2, AnsweredKept DEF Gave, Answers
  <2> QED
    BY <2>1, <2>2, <2>3, <1>1 DEF Gave
<1>2. CASE q # r
  <2>1. op[q] = op'[q] /\ pc[q] = pc'[q] /\ arg[q] = arg'[q]
    BY <1>2 DEF Moves
  <2>2. PICK c \in Reqs : /\ op[c] \in Namings /\ pc[c] = "ok"
                          /\ Kind(c) = Kind(q) /\ arg[c].org = arg[q].org
                          /\ arg[c].name = arg[q].name /\ Subject(c) # Subject(q)
    BY <2>1 DEF IInv, NameRefusedForCause, Namings
  <2>3. op[c] = op'[c] /\ pc[c] = pc'[c] /\ arg[c] = arg'[c]
    BY <2>2 DEF Moves, Answers
  <2> QED
    BY <2>1, <2>2, <2>3 DEF Kind, Subject
<1> QED
  BY <1>1, <1>2

\* A rename that goes through: the row it is about, and the row it makes of it.
LEMMA RenamedRow ==
  ASSUME IInv, NEW r \in Reqs, Rename(r)
  PROVE  /\ op[r] = "update_policy" /\ arg[r].policy \in Reqs /\ arg[r].name \in Names
         /\ named[arg[r].policy] \in NamedRows
         /\ PolicyOf(arg[r].org, arg[r].policy)
         /\ named' # named => named'[arg[r].policy] =
              [kind |-> "policy", org |-> arg[r].org, name |-> arg[r].name]
         /\ \A q \in Reqs \ {arg[r].policy} : named'[q] = named[q]
  BY DEF IInv, TypeOK, NamingRoutes, Rename, Namings, PolicyOf, NamedRows

\* The row that a creation inserts.
LEMMA InsertedRow ==
  ASSUME IInv, NEW r \in Reqs, Insert(r)
  PROVE  [kind |-> Kind(r), org |-> arg[r].org, name |-> arg[r].name] \in NamedRows
  BY DEF IInv, TypeOK, NamingRoutes, Insert, Namings, Args, NamedRows, Kind

\* What an edit writes is a statement; its effect is the one it asks for or the
\* one there was; and it is what it asks for if nothing has changed since.
LEMMA WrittenType ==
  ASSUME IInv, NEW r \in Reqs, op[r] = "update_statement", pc[r] = "loaded",
         NEW now \in Statements
  PROVE  /\ Written(now, r) \in Statements
         /\ Written(now, r)["effect"] \in {arg[r].body["effect"], now["effect"]}
         /\ now = read[r] => Written(now, r) = arg[r].body
<1>1. arg[r].body \in Statements
  BY PolicyAdminAssumption DEF IInv, StatementRoutes
<1> QED
  BY <1>1 DEF Written, Statements, Columns

LEMMA CheckNameStep ==
  ASSUME IInv, NEW r \in Reqs, NEW o \in Creations, NEW org \in Orgs, NEW n \in Names, CheckName(r, o, org, n)
  PROVE  IInv'
<1>0. Moves(r)
  BY DEF Goto, CheckName, Begin, Moves, IInv, TypeOK, Answers
<1>1. TypeOK'
  BY PolicyAdminAssumption DEF Goto, CheckName, Begin, IInv, NamingRoutes,
     StatementRoutes, TypeOK, Answers, Ops, Creations, Edits, Args, Namings
<1>2. NamingRoutes'
  BY PolicyAdminAssumption DEF Goto, CheckName, Begin, IInv, NamingRoutes,
     StatementRoutes, TypeOK, PolicyOf, Ops, Creations, Edits, Args, Namings, Kind,
     NamedRows
<1>3. StatementRoutes'
  BY PolicyAdminAssumption DEF Goto, CheckName, Begin, IInv, NamingRoutes,
     StatementRoutes, TypeOK, PolicyOf, Ops, Creations, Edits, Args, Namings,
     StatementOfPolicy
<1>4. NamedByRequest'
  BY <1>0, AnsweredKept DEF Goto, CheckName, Begin, IInv, NamingRoutes, StatementRoutes,
     TypeOK, Moves, NamedByRequest, PolicyOf, Gave, Kind, Subject, Namings, Creations,
     Edits, Answers
<1>5. StatementOfPolicy'
  BY DEF Goto, CheckName, Begin, IInv, NamingRoutes, StatementRoutes, TypeOK,
     StatementOfPolicy, AllowedEffect, Creations, Edits, Namings
<1>6. NamesUnique'
  BY DEF Goto, CheckName, Begin, IInv, NamingRoutes, StatementRoutes, TypeOK, NamesUnique,
     Taken, PolicyOf, Kind, Creations, Edits, Namings, NamedRows
<1>7. NameRefusedForCause'
  BY <1>0, RefusedKept DEF Goto, CheckName, Begin, IInv, NamingRoutes, StatementRoutes,
     TypeOK, Kind, Subject, Taken, Namings, Creations, Edits
<1>8. BrokenOffForCause'
  BY PolicyAdminAssumption DEF Goto, CheckName, Begin, IInv, NamingRoutes,
     StatementRoutes, TypeOK, BrokenOffForCause, RowOf, AllowedEffect, StatementOfPolicy,
     Creations, Edits, Namings
<1>9. RemovedStaysRemoved'
  BY DEF Goto, CheckName, Begin, IInv, NamingRoutes, StatementRoutes, TypeOK,
     RemovedStaysRemoved, Creations, Edits, Namings
<1> QED
  BY <1>1, <1>2, <1>3, <1>4, <1>5, <1>6, <1>7, <1>8, <1>9 DEF IInv

LEMMA InsertStep ==
  ASSUME IInv, NEW r \in Reqs, Insert(r)
  PROVE  IInv'
<1>0. Moves(r)
  BY DEF Goto, Insert, Moves, IInv, TypeOK, Answers
<1>1. TypeOK'
  <2>2. named' \in [Reqs -> NamedRows \union {None}]
    BY InsertedRow DEF IInv, TypeOK, Insert
  <2> QED
    BY <2>2 DEF IInv, TypeOK, Insert, Goto, Answers
<1>2. NamingRoutes'
  <2>1. \A o \in Orgs, p \in Reqs : PolicyOf(o, p) => PolicyOf(o, p)'
    BY DEF IInv, TypeOK, Insert, PolicyOf, NamedByRequest
  <2> QED
    BY <2>1 DEF IInv, TypeOK, NamingRoutes, Insert, Goto, Namings, Creations, Args
<1>3. StatementRoutes'
  <2>1. \A o \in Orgs, p \in Reqs : PolicyOf(o, p) => PolicyOf(o, p)'
    BY DEF IInv, TypeOK, Insert, PolicyOf, NamedByRequest
  <2> QED
    BY <2>1 DEF IInv, TypeOK, Args, StatementRoutes, Insert, Goto, Edits, Creations
<1>4. NamedByRequest'
  BY <1>0, AnsweredKept DEF Goto, Insert, IInv, NamingRoutes, StatementRoutes, TypeOK,
     Moves, NamedByRequest, PolicyOf, Gave, Kind, Subject, Namings, Creations, Edits,
     Answers
<1>5. StatementOfPolicy'
  BY DEF Goto, Insert, IInv, NamingRoutes, StatementRoutes, TypeOK, StatementOfPolicy,
     AllowedEffect, Creations, Edits, Namings
<1>6. NamesUnique'
  <2>1. named'[r] # named[r] => \A q \in Reqs \ {r} : named'[q] = named[q] /\ named[q] # named'[r]
    BY InsertedRow, PolicyAdminAssumption DEF IInv, TypeOK, Insert, Taken
  <2> QED
    BY <2>1 DEF IInv, TypeOK, Insert, NamesUnique
<1>7. NameRefusedForCause'
  BY <1>0, RefusedKept DEF Goto, Insert, IInv, NamingRoutes, StatementRoutes, TypeOK,
     Kind, Subject, Taken, Namings, Creations, Edits
<1>8. BrokenOffForCause'
  BY PolicyAdminAssumption DEF Goto, Insert, IInv, NamingRoutes, StatementRoutes, TypeOK,
     BrokenOffForCause, RowOf, AllowedEffect, StatementOfPolicy, Creations, Edits, Namings
<1>9. RemovedStaysRemoved'
  BY DEF Goto, Insert, IInv, NamingRoutes, StatementRoutes, TypeOK, RemovedStaysRemoved,
     Creations, Edits, Namings
<1> QED
  BY <1>1, <1>2, <1>3, <1>4, <1>5, <1>6, <1>7, <1>8, <1>9 DEF IInv

LEMMA FindPolicyStep ==
  ASSUME IInv, NEW r \in Reqs, NEW org \in Orgs, NEW p \in PolicyIds, NEW n \in Names, FindPolicy(r, org, p, n)
  PROVE  IInv'
<1>0. Moves(r)
  BY DEF Goto, FindPolicy, Begin, PolicyIds, Moves, IInv, TypeOK, Answers
<1>1. TypeOK'
  <2>1. [org |-> org, name |-> n, policy |-> p, statement |-> None, body |-> None] \in Args
    BY DEF Args, PolicyIds
  <2>2. PolicyOf(org, p) => named[p].name \in Names
    BY DEF IInv, TypeOK, PolicyOf, NamedRows, PolicyIds
  <2> QED
    BY <2>1, <2>2 DEF IInv, TypeOK, FindPolicy, Begin, Goto, Answers, Ops
<1>2. NamingRoutes'
  BY PolicyAdminAssumption DEF Goto, FindPolicy, Begin, PolicyIds, IInv, NamingRoutes,
     StatementRoutes, TypeOK, PolicyOf, Ops, Creations, Edits, Args, Namings, Kind,
     NamedRows
<1>3. StatementRoutes'
  BY PolicyAdminAssumption DEF Goto, FindPolicy, Begin, PolicyIds, IInv, NamingRoutes,
     StatementRoutes, TypeOK, PolicyOf, Ops, Creations, Edits, Args, Namings,
     StatementOfPolicy
<1>4. NamedByRequest'
  BY <1>0, AnsweredKept DEF Goto, FindPolicy, Begin, PolicyIds, IInv, NamingRoutes,
     StatementRoutes, TypeOK, Moves, NamedByRequest, PolicyOf, Gave, Kind, Subject,
     Namings, Creations, Edits, Answers
<1>5. StatementOfPolicy'
  BY DEF Goto, FindPolicy, Begin, PolicyIds, IInv, NamingRoutes, StatementRoutes, TypeOK,
     StatementOfPolicy, AllowedEffect, Creations, Edits, Namings
<1>6. NamesUnique'
  BY DEF Goto, FindPolicy, Begin, PolicyIds, IInv, NamingRoutes, StatementRoutes, TypeOK,
     NamesUnique, Taken, PolicyOf, Kind, Creations, Edits, Namings, NamedRows
<1>7. NameRefusedForCause'
  BY <1>0, RefusedKept DEF Goto, FindPolicy, Begin, PolicyIds, IInv, NamingRoutes,
     StatementRoutes, TypeOK, Kind, Subject, Taken, Namings, Creations, Edits
<1>8. BrokenOffForCause'
  BY PolicyAdminAssumption DEF Goto, FindPolicy, Begin, PolicyIds, IInv, NamingRoutes,
     StatementRoutes, TypeOK, BrokenOffForCause, RowOf, AllowedEffect, StatementOfPolicy,
     Creations, Edits, Namings
<1>9. RemovedStaysRemoved'
  BY DEF Goto, FindPolicy, Begin, PolicyIds, IInv, NamingRoutes, StatementRoutes, TypeOK,
     RemovedStaysRemoved, Creations, Edits, Namings
<1> QED
  BY <1>1, <1>2, <1>3, <1>4, <1>5, <1>6, <1>7, <1>8, <1>9 DEF IInv

LEMMA CheckRenameStep ==
  ASSUME IInv, NEW r \in Reqs, CheckRename(r)
  PROVE  IInv'
<1>0. Moves(r)
  BY DEF Goto, CheckRename, Moves, IInv, TypeOK, Answers
<1>1. TypeOK'
  BY PolicyAdminAssumption DEF Goto, CheckRename, IInv, NamingRoutes, StatementRoutes,
     TypeOK, Answers, Ops, Creations, Edits, Args, Namings
<1>2. NamingRoutes'
  BY PolicyAdminAssumption DEF Goto, CheckRename, IInv, NamingRoutes, StatementRoutes,
     TypeOK, PolicyOf, Ops, Creations, Edits, Args, Namings, Kind, NamedRows
<1>3. StatementRoutes'
  BY PolicyAdminAssumption DEF Goto, CheckRename, IInv, NamingRoutes, StatementRoutes,
     TypeOK, PolicyOf, Ops, Creations, Edits, Args, Namings, StatementOfPolicy
<1>4. NamedByRequest'
  BY <1>0, AnsweredKept DEF Goto, CheckRename, IInv, NamingRoutes, StatementRoutes,
     TypeOK, Moves, NamedByRequest, PolicyOf, Gave, Kind, Subject, Namings, Creations,
     Edits, Answers
<1>5. StatementOfPolicy'
  BY DEF Goto, CheckRename, IInv, NamingRoutes, StatementRoutes, TypeOK,
     StatementOfPolicy, AllowedEffect, Creations, Edits, Namings
<1>6. NamesUnique'
  BY DEF Goto, CheckRename, IInv, NamingRoutes, StatementRoutes, TypeOK, NamesUnique,
     Taken, PolicyOf, Kind, Creations, Edits, Namings, NamedRows
<1>7. NameRefusedForCause'
  BY <1>0, RefusedKept DEF Goto, CheckRename, IInv, NamingRoutes, StatementRoutes, TypeOK,
     Kind, Subject, Taken, Namings, Creations, Edits
<1>8. BrokenOffForCause'
  BY PolicyAdminAssumption DEF Goto, CheckRename, IInv, NamingRoutes, StatementRoutes,
     TypeOK, BrokenOffForCause, RowOf, AllowedEffect, StatementOfPolicy, Creations, Edits,
     Namings
<1>9. RemovedStaysRemoved'
  BY DEF Goto, CheckRename, IInv, NamingRoutes, StatementRoutes, TypeOK,
     RemovedStaysRemoved, Creations, Edits, Namings
<1> QED
  BY <1>1, <1>2, <1>3, <1>4, <1>5, <1>6, <1>7, <1>8, <1>9 DEF IInv

LEMMA RenameStep ==
  ASSUME IInv, NEW r \in Reqs, Rename(r)
  PROVE  IInv'
<1>0. Moves(r)
  BY DEF Goto, Rename, Moves, IInv, TypeOK, Answers
<1>1. TypeOK'
  <2>1. [kind |-> "policy", org |-> arg[r].org, name |-> arg[r].name] \in NamedRows
    BY RenamedRow DEF PolicyOf, NamedRows
  <2>2. named' \in [Reqs -> NamedRows \union {None}]
    BY <2>1, RenamedRow DEF IInv, TypeOK, Rename
  <2> QED
    BY <2>2 DEF IInv, TypeOK, Rename, Goto, Answers
<1>2. NamingRoutes'
  BY PolicyAdminAssumption DEF Goto, Rename, IInv, NamingRoutes, StatementRoutes, TypeOK,
     PolicyOf, Ops, Creations, Edits, Args, Namings, Kind, NamedRows
<1>3. StatementRoutes'
  <2>1. \A o \in Orgs, p \in Reqs : PolicyOf(o, p) => PolicyOf(o, p)'
    <3> SUFFICES ASSUME NEW o \in Orgs, NEW p \in Reqs, PolicyOf(o, p) PROVE PolicyOf(o, p)'
      OBVIOUS
    <3>1. CASE named'[p] = named[p]
      BY <3>1 DEF PolicyOf
    <3>2. CASE named'[p] # named[p]
      <4>1. /\ named'[p] = [kind |-> "policy", org |-> arg[r].org, name |-> arg[r].name]
            /\ PolicyOf(arg[r].org, p)
        BY <3>2, RenamedRow
      <4>2. named'[p] \in NamedRows /\ o = arg[r].org
        BY <4>1, RenamedRow DEF PolicyOf, NamedRows
      <4> QED
        BY <4>1, <4>2, PolicyAdminAssumption DEF PolicyOf
    <3> QED
      BY <3>1, <3>2
  <2> QED
    BY <2>1 DEF IInv, TypeOK, Args, StatementRoutes, Rename, Goto, Edits, Creations
<1>4. NamedByRequest'
  <2>2. CASE named' = named
    BY <2>2, <1>0, AnsweredKept DEF IInv, NamedByRequest, Gave, Answers
  <2>3. CASE named' # named
    <3>1. named' = [named EXCEPT ![arg[r].policy].name = arg[r].name] /\ pc' = [pc EXCEPT ![r] = "ok"]
      BY <2>3 DEF Rename, Goto
    <3>2. /\ op'[r] = "update_policy" /\ pc'[r] = "ok" /\ arg' = arg
          /\ Subject(r)' = arg[r].policy /\ Kind(r)' = "policy"
      BY <3>1, RenamedRow DEF Rename, Subject, Kind, IInv, TypeOK
    <3>3. PICK p \in Reqs : p = arg[r].policy
      BY RenamedRow
    <3>7. /\ named'[p] = [kind |-> "policy", org |-> arg[r].org, name |-> arg[r].name]
          /\ named[p] # None /\ named[p].kind = "policy" /\ named[p].org = arg[r].org
          /\ \A q \in Reqs \ {p} : named'[q] = named[q]
      BY <2>3, <3>3, RenamedRow DEF PolicyOf
    <3>8. /\ op'[r] \in Namings /\ pc'[r] = "ok" /\ Kind(r)' = named'[p].kind
          /\ arg'[r].org = named'[p].org /\ arg'[r].name = named'[p].name
      BY <3>2, <3>7 DEF Namings
    <3>9. Gave(r, named[p])' /\ Subject(r)' = p
      BY <3>2, <3>3, <3>8 DEF Gave
    <3>4. ASSUME NEW q \in Reqs, q # arg[r].policy, named'[q] # None
          PROVE  \E c \in Reqs : Gave(c, named[q])' /\ Subject(c)' = q
      <4>1. named'[q] = named[q]
        BY <3>4, RenamedRow
      <4>2. PICK c \in Reqs : Gave(c, named[q]) /\ Subject(c) = q
        BY <4>1, <3>4 DEF IInv, NamedByRequest
      <4> QED
        BY <4>1, <4>2, <1>0, AnsweredKept DEF Gave, Answers
    <3>5. ASSUME NEW q \in Reqs, named'[q] # None
          PROVE  /\ op'[q] \in Creations /\ pc'[q] = "ok"
                 /\ named'[q].kind = Kind(q)' /\ named'[q].org = arg'[q].org
      <4>1. /\ named[q] # None /\ named[q].kind = named'[q].kind /\ named[q].org = named'[q].org
        BY <3>5, <3>7
      <4>2. /\ op[q] \in Creations /\ pc[q] = "ok"
            /\ named[q].kind = Kind(q) /\ named[q].org = arg[q].org
        BY <4>1 DEF IInv, NamedByRequest
      <4> QED
        BY <4>1, <4>2, <1>0, AnsweredKept DEF Answers
    <3>6. \A q \in Reqs : named'[q] # None =>
            \E c \in Reqs : Gave(c, named[q])' /\ Subject(c)' = q
      BY <3>3, <3>9, <3>4
    <3> QED
      BY <3>5, <3>6 DEF NamedByRequest
  <2> QED
    BY <2>2, <2>3
<1>5. StatementOfPolicy'
  BY DEF Goto, Rename, IInv, NamingRoutes, StatementRoutes, TypeOK, StatementOfPolicy,
     AllowedEffect, Creations, Edits, Namings
<1>6. NamesUnique'
  BY DEF Goto, Rename, IInv, NamingRoutes, StatementRoutes, TypeOK, NamesUnique, Taken,
     PolicyOf, Kind, Creations, Edits, Namings, NamedRows
<1>7. NameRefusedForCause'
  BY <1>0, RefusedKept DEF Goto, Rename, IInv, NamingRoutes, StatementRoutes, TypeOK,
     Kind, Subject, Taken, Namings, Creations, Edits
<1>8. BrokenOffForCause'
  BY PolicyAdminAssumption DEF Goto, Rename, IInv, NamingRoutes, StatementRoutes, TypeOK,
     BrokenOffForCause, RowOf, AllowedEffect, StatementOfPolicy, Creations, Edits, Namings
<1>9. RemovedStaysRemoved'
  BY DEF Goto, Rename, IInv, NamingRoutes, StatementRoutes, TypeOK, RemovedStaysRemoved,
     Creations, Edits, Namings
<1> QED
  BY <1>1, <1>2, <1>3, <1>4, <1>5, <1>6, <1>7, <1>8, <1>9 DEF IInv

LEMMA AddStatementStep ==
  ASSUME IInv, NEW r \in Reqs, NEW org \in Orgs, NEW p \in PolicyIds, NEW b \in Bodies, AddStatement(r, org, p, b)
  PROVE  IInv'
<1>0. Moves(r)
  BY DEF Goto, AddStatement, Begin, PolicyIds, Moves, IInv, TypeOK, Answers
<1>1. TypeOK'
  <2>1. [org |-> org, name |-> None, policy |-> p, statement |-> None, body |-> b] \in Args
    BY DEF Args, PolicyIds
  <2>2. [policy |-> p, is |-> b] \in StmtRows
    BY PolicyAdminAssumption DEF StmtRows, PolicyIds
  <2> QED
    BY <2>1, <2>2 DEF IInv, TypeOK, AddStatement, Begin, Goto, Answers, Ops
<1>2. NamingRoutes'
  BY PolicyAdminAssumption DEF Goto, AddStatement, Begin, PolicyIds, IInv, NamingRoutes,
     StatementRoutes, TypeOK, PolicyOf, Ops, Creations, Edits, Args, Namings, Kind,
     NamedRows
<1>3. StatementRoutes'
  BY PolicyAdminAssumption DEF Goto, AddStatement, Begin, PolicyIds, IInv, NamingRoutes,
     StatementRoutes, TypeOK, PolicyOf, Ops, Creations, Edits, Args, Namings,
     StatementOfPolicy
<1>4. NamedByRequest'
  BY <1>0, AnsweredKept DEF Goto, AddStatement, Begin, PolicyIds, IInv, NamingRoutes,
     StatementRoutes, TypeOK, Moves, NamedByRequest, PolicyOf, Gave, Kind, Subject,
     Namings, Creations, Edits, Answers
<1>5. StatementOfPolicy'
  BY DEF Goto, AddStatement, Begin, PolicyIds, IInv, NamingRoutes, StatementRoutes,
     TypeOK, StatementOfPolicy, AllowedEffect, Creations, Edits, Namings
<1>6. NamesUnique'
  BY DEF Goto, AddStatement, Begin, PolicyIds, IInv, NamingRoutes, StatementRoutes,
     TypeOK, NamesUnique, Taken, PolicyOf, Kind, Creations, Edits, Namings, NamedRows
<1>7. NameRefusedForCause'
  BY <1>0, RefusedKept DEF Goto, AddStatement, Begin, PolicyIds, IInv, NamingRoutes,
     StatementRoutes, TypeOK, Kind, Subject, Taken, Namings, Creations, Edits
<1>8. BrokenOffForCause'
  BY PolicyAdminAssumption DEF Goto, AddStatement, Begin, PolicyIds, IInv, NamingRoutes,
     StatementRoutes, TypeOK, BrokenOffForCause, RowOf, AllowedEffect, StatementOfPolicy,
     Creations, Edits, Namings
<1>9. RemovedStaysRemoved'
  BY DEF Goto, AddStatement, Begin, PolicyIds, IInv, NamingRoutes, StatementRoutes,
     TypeOK, RemovedStaysRemoved, Creations, Edits, Namings
<1> QED
  BY <1>1, <1>2, <1>3, <1>4, <1>5, <1>6, <1>7, <1>8, <1>9 DEF IInv

LEMMA LoadStatementStep ==
  ASSUME IInv, NEW r \in Reqs, NEW org \in Orgs, NEW p \in PolicyIds, NEW s \in StatementIds, NEW o \in Edits, NEW b \in Bodies,
              LoadStatement(r, o, org, p, s, b)
  PROVE  IInv'
<1>0. Moves(r)
  BY DEF Goto, LoadStatement, Begin, PolicyIds, StatementIds, Moves, IInv, TypeOK, Answers
<1>1. TypeOK'
  <2>1. [org |-> org, name |-> None, policy |-> p, statement |-> s,
         body |-> IF o = "update_statement" THEN b ELSE None] \in Args
    BY DEF Args, PolicyIds, StatementIds
  <2>2. stmt[s] # None => stmt[s].is \in Statements
    BY DEF IInv, TypeOK, StmtRows, StatementIds
  <2> QED
    BY <2>1, <2>2 DEF IInv, TypeOK, LoadStatement, Begin, Goto, Answers, Ops, StatementIds
<1>2. NamingRoutes'
  BY PolicyAdminAssumption DEF Goto, LoadStatement, Begin, PolicyIds, StatementIds, IInv,
     NamingRoutes, StatementRoutes, TypeOK, PolicyOf, Ops, Creations, Edits, Args,
     Namings, Kind, NamedRows
<1>3. StatementRoutes'
  <2>1. \A q \in Reqs \ {r} : op'[q] = op[q] /\ pc'[q] = pc[q] /\ arg'[q] = arg[q] /\ read'[q] = read[q]
    BY DEF IInv, TypeOK, LoadStatement, Begin, Goto
  <2>2. /\ op'[r] = o /\ pc'[r] \in {"loaded", "404"} /\ arg'[r].statement = s /\ arg'[r].policy = p
        /\ arg'[r].org = org /\ (o = "update_statement" => arg'[r].body = b)
    BY DEF IInv, TypeOK, LoadStatement, Begin, Goto
  <2>3. s \in Reqs /\ s # r /\ op[s] = "add_statement" /\ pc[s] = "ok"
    BY DEF StatementIds, LoadStatement, Begin
  <2>4. pc'[r] = "loaded" => /\ PolicyOf(org, p) /\ arg[s].policy = p /\ read'[r] \in Statements
    BY <2>3 DEF IInv, TypeOK, LoadStatement, StatementOfPolicy, StmtRows, Goto
  <2>5. named' = named /\ arg'[r] \in Args
    BY DEF LoadStatement, Begin, IInv, TypeOK, Args, PolicyIds, StatementIds
  <2>6. p \in Reqs
    BY DEF PolicyIds
  <2> QED
    <3>1. \A q \in Reqs : PolicyOf(arg[q].org, arg[q].policy)
                            => (q # r => PolicyOf(arg[q].org, arg[q].policy)')
      BY <2>1, <2>5 DEF PolicyOf
    <3>2. PolicyOf(org, p) => PolicyOf(arg[r].org, arg[r].policy)'
      BY <2>2, <2>5 DEF PolicyOf
    <3>3. arg'[s] = arg[s] /\ op'[s] = op[s] /\ pc'[s] = pc[s]
      BY <2>1, <2>3
    <3>4. /\ arg'[r].statement \in Reqs /\ arg'[r].policy \in Reqs
          /\ op'[arg'[r].statement] = "add_statement" /\ pc'[arg'[r].statement] = "ok"
          /\ pc'[r] # "404" => /\ PolicyOf(arg[r].org, arg[r].policy)'
                               /\ arg'[arg'[r].statement].policy = arg'[r].policy
                               /\ read'[r] \in Statements
      BY <2>2, <2>3, <2>4, <2>6, <3>2, <3>3
    <3>5. \A q \in Reqs \ {r} : op[q] \in Edits => arg[q].statement # r
      BY DEF IInv, StatementRoutes, LoadStatement, Begin
    <3> QED
      BY <2>1, <2>2, <2>5, <3>1, <3>4, <3>5 DEF IInv, StatementRoutes, Edits
<1>4. NamedByRequest'
  BY <1>0, AnsweredKept DEF Goto, LoadStatement, Begin, PolicyIds, StatementIds, IInv,
     NamingRoutes, StatementRoutes, TypeOK, Moves, NamedByRequest, PolicyOf, Gave, Kind,
     Subject, Namings, Creations, Edits, Answers
<1>5. StatementOfPolicy'
  BY DEF Goto, LoadStatement, Begin, PolicyIds, StatementIds, IInv, NamingRoutes,
     StatementRoutes, TypeOK, StatementOfPolicy, AllowedEffect, Creations, Edits, Namings
<1>6. NamesUnique'
  BY DEF Goto, LoadStatement, Begin, PolicyIds, StatementIds, IInv, NamingRoutes,
     StatementRoutes, TypeOK, NamesUnique, Taken, PolicyOf, Kind, Creations, Edits,
     Namings, NamedRows
<1>7. NameRefusedForCause'
  BY <1>0, RefusedKept DEF Goto, LoadStatement, Begin, PolicyIds, StatementIds, IInv,
     NamingRoutes, StatementRoutes, TypeOK, Kind, Subject, Taken, Namings, Creations,
     Edits
<1>8. BrokenOffForCause'
  BY PolicyAdminAssumption DEF Goto, LoadStatement, Begin, PolicyIds, StatementIds, IInv,
     NamingRoutes, StatementRoutes, TypeOK, BrokenOffForCause, RowOf, AllowedEffect,
     StatementOfPolicy, Creations, Edits, Namings
<1>9. RemovedStaysRemoved'
  BY DEF Goto, LoadStatement, Begin, PolicyIds, StatementIds, IInv, NamingRoutes,
     StatementRoutes, TypeOK, RemovedStaysRemoved, Creations, Edits, Namings
<1> QED
  BY <1>1, <1>2, <1>3, <1>4, <1>5, <1>6, <1>7, <1>8, <1>9 DEF IInv

LEMMA EditStep ==
  ASSUME IInv, NEW r \in Reqs, Edit(r)
  PROVE  IInv'
<1>0. Moves(r)
  BY DEF Goto, Edit, UpdateTaken, Written, Moves, IInv, TypeOK, Answers
<1>1. TypeOK'
  <2>1. stmt[arg[r].statement] # None =>
          [stmt[arg[r].statement] EXCEPT !.is = Written(stmt[arg[r].statement].is, r)] \in StmtRows
    BY WrittenType DEF IInv, TypeOK, StatementRoutes, Edits, Edit, UpdateTaken, StmtRows
  <2>2. stmt' \in [Reqs -> StmtRows \union {None}]
    BY <2>1 DEF IInv, TypeOK, Edit, UpdateTaken, StatementRoutes, Edits
  <2> QED
    BY <2>2 DEF IInv, TypeOK, Edit, UpdateTaken, Goto, Answers
<1>2. NamingRoutes'
  BY PolicyAdminAssumption DEF Goto, Edit, UpdateTaken, Written, IInv, NamingRoutes, StatementRoutes,
     TypeOK, PolicyOf, Ops, Creations, Edits, Args, Namings, Kind, NamedRows
<1>3. StatementRoutes'
  BY PolicyAdminAssumption DEF Goto, Edit, UpdateTaken, Written, IInv, NamingRoutes, StatementRoutes,
     TypeOK, PolicyOf, Ops, Creations, Edits, Args, Namings, StatementOfPolicy
<1>4. NamedByRequest'
  BY <1>0, AnsweredKept DEF Goto, Edit, UpdateTaken, Written, IInv, NamingRoutes, StatementRoutes,
     TypeOK, Moves, NamedByRequest, PolicyOf, Gave, Kind, Subject, Namings, Creations,
     Edits, Answers
<1>5. StatementOfPolicy'
  <2>1. op' = op /\ arg' = arg /\ op[r] = "update_statement" /\ pc[r] = "loaded"
        /\ \A q \in Reqs \ {r} : pc'[q] = pc[q]
    BY DEF Edit, UpdateTaken, Goto, IInv, TypeOK
  <2>2. \A q \in Reqs : stmt'[q] # None =>
            /\ stmt[q] # None /\ stmt'[q].policy = stmt[q].policy
            /\ AllowedEffect(stmt[q].is) => AllowedEffect(stmt'[q].is)
    BY DEF Edit, UpdateTaken, IInv, TypeOK, StmtRows, StatementRoutes, Edits, AllowedEffect
  <2> QED
    BY <2>1, <2>2 DEF IInv, StatementOfPolicy
<1>6. NamesUnique'
  BY DEF Goto, Edit, UpdateTaken, Written, IInv, NamingRoutes, StatementRoutes, TypeOK, NamesUnique,
     Taken, PolicyOf, Kind, Creations, Edits, Namings, NamedRows
<1>7. NameRefusedForCause'
  BY <1>0, RefusedKept DEF Goto, Edit, UpdateTaken, Written, IInv, NamingRoutes, StatementRoutes,
     TypeOK, Kind, Subject, Taken, Namings, Creations, Edits
<1>8. BrokenOffForCause'
  <2>1. op' = op /\ arg' = arg /\ op[r] = "update_statement" /\ pc[r] = "loaded"
        /\ \A q \in Reqs \ {r} : pc'[q] = pc[q]
    BY DEF Edit, UpdateTaken, Goto, IInv, TypeOK
  <2>2. \A q \in Reqs : stmt[q] = None => stmt'[q] = None
    BY DEF Edit, UpdateTaken, IInv, TypeOK, StatementRoutes, Edits
  <2>3. arg[r].statement \in Reqs
    BY <2>1 DEF IInv, StatementRoutes, Edits
  <2>4. CASE pc'[r] = "500"
    <3>1. stmt[arg[r].statement] = None \/ ~AllowedEffect(Written(stmt[arg[r].statement].is, r))
      BY <2>4 DEF Edit, UpdateTaken, Goto, IInv, TypeOK
    <3>2. ASSUME stmt[arg[r].statement] # None PROVE ~AllowedEffect(arg[r].body)
      <4>1. stmt[arg[r].statement].is \in Statements /\ AllowedEffect(stmt[arg[r].statement].is)
        BY <2>3, <3>2 DEF IInv, TypeOK, StmtRows, StatementOfPolicy
      <4> QED
        BY <2>1, <3>1, <3>2, <4>1, WrittenType DEF AllowedEffect
    <3> QED
      BY <2>1, <2>2, <2>3, <3>2 DEF IInv, BrokenOffForCause, RowOf, AllowedEffect,
         StatementRoutes, Edits
  <2>5. CASE pc'[r] # "500"
    BY <2>1, <2>2, <2>5 DEF IInv, BrokenOffForCause, RowOf, AllowedEffect,
       StatementRoutes, Edits
  <2> QED
    BY <2>4, <2>5
<1>9. RemovedStaysRemoved'
  BY DEF Goto, Edit, UpdateTaken, Written, IInv, NamingRoutes, StatementRoutes, TypeOK,
     RemovedStaysRemoved, Creations, Edits, Namings
<1> QED
  BY <1>1, <1>2, <1>3, <1>4, <1>5, <1>6, <1>7, <1>8, <1>9 DEF IInv

LEMMA RemoveStep ==
  ASSUME IInv, NEW r \in Reqs, Remove(r)
  PROVE  IInv'
<1>0. Moves(r)
  BY DEF Goto, Remove, Moves, IInv, TypeOK, Answers
<1>1. TypeOK'
  BY PolicyAdminAssumption DEF Goto, Remove, IInv, NamingRoutes, StatementRoutes, TypeOK,
     Answers, Ops, Creations, Edits, Args, Namings
<1>2. NamingRoutes'
  BY PolicyAdminAssumption DEF Goto, Remove, IInv, NamingRoutes, StatementRoutes, TypeOK,
     PolicyOf, Ops, Creations, Edits, Args, Namings, Kind, NamedRows
<1>3. StatementRoutes'
  BY PolicyAdminAssumption DEF Goto, Remove, IInv, NamingRoutes, StatementRoutes, TypeOK,
     PolicyOf, Ops, Creations, Edits, Args, Namings, StatementOfPolicy
<1>4. NamedByRequest'
  BY <1>0, AnsweredKept DEF Goto, Remove, IInv, NamingRoutes, StatementRoutes, TypeOK,
     Moves, NamedByRequest, PolicyOf, Gave, Kind, Subject, Namings, Creations, Edits,
     Answers
<1>5. StatementOfPolicy'
  BY DEF Goto, Remove, IInv, NamingRoutes, StatementRoutes, TypeOK, StatementOfPolicy,
     AllowedEffect, Creations, Edits, Namings
<1>6. NamesUnique'
  BY DEF Goto, Remove, IInv, NamingRoutes, StatementRoutes, TypeOK, NamesUnique, Taken,
     PolicyOf, Kind, Creations, Edits, Namings, NamedRows
<1>7. NameRefusedForCause'
  BY <1>0, RefusedKept DEF Goto, Remove, IInv, NamingRoutes, StatementRoutes, TypeOK,
     Kind, Subject, Taken, Namings, Creations, Edits
<1>8. BrokenOffForCause'
  BY PolicyAdminAssumption DEF Goto, Remove, IInv, NamingRoutes, StatementRoutes, TypeOK,
     BrokenOffForCause, RowOf, AllowedEffect, StatementOfPolicy, Creations, Edits, Namings
<1>9. RemovedStaysRemoved'
  BY DEF Goto, Remove, IInv, NamingRoutes, StatementRoutes, TypeOK, RemovedStaysRemoved,
     Creations, Edits, Namings
<1> QED
  BY <1>1, <1>2, <1>3, <1>4, <1>5, <1>6, <1>7, <1>8, <1>9 DEF IInv

LEMMA RefreshStep ==
  ASSUME IInv, NEW r \in Reqs, Refresh(r)
  PROVE  IInv'
<1>0. Moves(r)
  BY DEF Goto, Refresh, Moves, IInv, TypeOK, Answers
<1>1. TypeOK'
  BY PolicyAdminAssumption DEF Goto, Refresh, IInv, NamingRoutes, StatementRoutes, TypeOK,
     Answers, Ops, Creations, Edits, Args, Namings
<1>2. NamingRoutes'
  BY PolicyAdminAssumption DEF Goto, Refresh, IInv, NamingRoutes, StatementRoutes, TypeOK,
     PolicyOf, Ops, Creations, Edits, Args, Namings, Kind, NamedRows
<1>3. StatementRoutes'
  BY PolicyAdminAssumption DEF Goto, Refresh, IInv, NamingRoutes, StatementRoutes, TypeOK,
     PolicyOf, Ops, Creations, Edits, Args, Namings, StatementOfPolicy
<1>4. NamedByRequest'
  BY <1>0, AnsweredKept DEF Goto, Refresh, IInv, NamingRoutes, StatementRoutes, TypeOK,
     Moves, NamedByRequest, PolicyOf, Gave, Kind, Subject, Namings, Creations, Edits,
     Answers
<1>5. StatementOfPolicy'
  <2>1. stmt' = stmt /\ op' = op /\ arg' = arg /\ pc[r] = "stored" /\ \A q \in Reqs \ {r} : pc'[q] = pc[q]
    BY DEF Refresh, Goto, IInv, TypeOK
  <2>2. op[r] = "add_statement" /\ stmt[r] # None => pc'[r] = "ok"
    BY DEF Refresh, Goto, IInv, TypeOK, RowOf
  <2> QED
    BY <2>1, <2>2 DEF IInv, StatementOfPolicy, AllowedEffect
<1>6. NamesUnique'
  BY DEF Goto, Refresh, IInv, NamingRoutes, StatementRoutes, TypeOK, NamesUnique, Taken,
     PolicyOf, Kind, Creations, Edits, Namings, NamedRows
<1>7. NameRefusedForCause'
  BY <1>0, RefusedKept DEF Goto, Refresh, IInv, NamingRoutes, StatementRoutes, TypeOK,
     Kind, Subject, Taken, Namings, Creations, Edits
<1>8. BrokenOffForCause'
  BY PolicyAdminAssumption DEF Goto, Refresh, IInv, NamingRoutes, StatementRoutes, TypeOK,
     BrokenOffForCause, RowOf, AllowedEffect, StatementOfPolicy, Creations, Edits, Namings
<1>9. RemovedStaysRemoved'
  BY DEF Goto, Refresh, IInv, NamingRoutes, StatementRoutes, TypeOK, RemovedStaysRemoved,
     Creations, Edits, Namings
<1> QED
  BY <1>1, <1>2, <1>3, <1>4, <1>5, <1>6, <1>7, <1>8, <1>9 DEF IInv

\* The inductive invariant always holds.
LEMMA IInvAlways == Spec => []IInv
<1>1. IInv /\ [Next]_vars => IInv'
  <2> SUFFICES ASSUME IInv, [Next]_vars PROVE IInv'
    OBVIOUS
  <2>1. CASE UNCHANGED vars
    BY <2>1 DEF vars, IInv, TypeOK, NamingRoutes, StatementRoutes, NamedByRequest,
         StatementOfPolicy, NamesUnique, NameRefusedForCause, BrokenOffForCause,
         RemovedStaysRemoved, PolicyOf, Gave, Kind, Subject, RowOf
  <2>2. ASSUME NEW r \in Reqs, Request(r) PROVE IInv'
    BY <2>2, CheckNameStep, FindPolicyStep, AddStatementStep, LoadStatementStep DEF Request
  <2>3. ASSUME NEW r \in Reqs, Insert(r) \/ CheckRename(r) \/ Rename(r) PROVE IInv'
    BY <2>3, InsertStep, CheckRenameStep, RenameStep
  <2>4. ASSUME NEW r \in Reqs, Edit(r) \/ Remove(r) \/ Refresh(r) PROVE IInv'
    BY <2>4, EditStep, RemoveStep, RefreshStep
  <2> QED
    BY <2>1, <2>2, <2>3, <2>4 DEF Next
<1> QED
  BY <1>1, InitIInv, PTL DEF Spec

-----------------------------------------------------------------------------
(* The theorems *)

\* Every variable keeps its type.
THEOREM TypeCorrect == Spec => []TypeOK
<1>1. IInv => TypeOK
  BY DEF IInv
<1> QED
  BY <1>1, IInvAlways, PTL

\* Groups, and policies, of one organization have distinct names.
THEOREM NamesUniqueHolds == Spec => []NamesUnique
<1>1. IInv => NamesUnique
  BY DEF IInv
<1> QED
  BY <1>1, IInvAlways, PTL

\* A creation or rename is refused only for a name that another row was given.
THEOREM NameRefusedForCauseHolds == Spec => []NameRefusedForCause
<1>1. IInv => NameRefusedForCause
  BY DEF IInv
<1> QED
  BY <1>1, IInvAlways, PTL

\* A change of statements breaks off only for its effect or a removal.
THEOREM BrokenOffForCauseHolds == Spec => []BrokenOffForCause
<1>1. IInv => BrokenOffForCause
  BY DEF IInv
<1> QED
  BY <1>1, IInvAlways, PTL

\* A statement whose removal was answered never comes back.
THEOREM RemovedStaysRemovedHolds == Spec => []RemovedStaysRemoved
<1>1. IInv => RemovedStaysRemoved
  BY DEF IInv
<1> QED
  BY <1>1, IInvAlways, PTL

\* An edit with no other edit between its reading and its writing is stored as a
\* whole, and only the policy's own organization edits its statements.
THEOREM SerialEditsAreWholeHolds == Spec => SerialEditsAreWhole
<1> DEFINE Whole ==
      \A s \in Reqs :
        (stmt[s] # None /\ stmt'[s] \notin {None, stmt[s]}) =>
            \E r \in Reqs :
                /\ pc[r] = "loaded" /\ pc'[r] = "stored"
                /\ arg[r].org = named[stmt[s].policy].org
                /\ stmt'[s].policy = stmt[s].policy
                /\ stmt[s].is = read[r] => stmt'[s].is = arg[r].body
<1>1. IInv /\ [Next]_vars => [Whole]_vars
  <2> SUFFICES ASSUME IInv, Next, NEW s \in Reqs, stmt[s] # None,
                      stmt'[s] \notin {None, stmt[s]}
               PROVE  \E r \in Reqs :
                        /\ pc[r] = "loaded" /\ pc'[r] = "stored"
                        /\ arg[r].org = named[stmt[s].policy].org
                        /\ stmt'[s].policy = stmt[s].policy
                        /\ stmt[s].is = read[r] => stmt'[s].is = arg[r].body
    OBVIOUS
  <2>1. PICK r \in Reqs : Edit(r) /\ s = arg[r].statement
    <3>1. PICK r \in Reqs : \/ Request(r) \/ Insert(r) \/ CheckRename(r) \/ Rename(r)
                           \/ Edit(r) \/ Remove(r) \/ Refresh(r)
      BY DEF Next
    <3>2. ~Request(r)
      BY DEF Request, CheckName, FindPolicy, AddStatement, LoadStatement, Begin, IInv, TypeOK,
             StatementOfPolicy
    <3>3. ~(Insert(r) \/ CheckRename(r) \/ Rename(r) \/ Remove(r) \/ Refresh(r))
      BY DEF Insert, CheckRename, Rename, Remove, Refresh, IInv, TypeOK
    <3>4. Edit(r) => s = arg[r].statement
      BY DEF Edit, IInv, TypeOK
    <3> QED
      BY <3>1, <3>2, <3>3, <3>4
  <2>2. /\ op[r] = "update_statement" /\ pc[r] = "loaded" /\ pc'[r] = "stored"
        /\ stmt' = [stmt EXCEPT ![s].is = Written(stmt[s].is, r)]
    BY <2>1 DEF Edit, UpdateTaken, Goto, IInv, TypeOK
  <2>3. /\ stmt[s] \in StmtRows
        /\ stmt[s].policy = arg[r].policy /\ PolicyOf(arg[r].org, arg[r].policy)
    BY <2>1, <2>2 DEF IInv, TypeOK, StatementOfPolicy, StatementRoutes, Edits
  <2>4. stmt'[s].policy = stmt[s].policy /\ stmt'[s].is = Written(stmt[s].is, r)
    BY <2>2, <2>3 DEF StmtRows, IInv, TypeOK
  <2>5. stmt[s].is = read[r] => stmt'[s].is = arg[r].body
    BY <2>2, <2>3, <2>4, WrittenType DEF StmtRows
  <2> QED
    BY <2>1, <2>2, <2>3, <2>4, <2>5 DEF PolicyOf
<1> QED
  BY <1>1, IInvAlways, PTL DEF Spec, SerialEditsAreWhole
=============================================================================
