-------------------------- MODULE Onboarding_proofs --------------------------
(***************************************************************************)
(* Proofs about Onboarding, for any emails, organizations, number of       *)
(* concurrent requests, invitation lifetime and number of crashes.         *)
(***************************************************************************)
EXTENDS Onboarding, TLAPS

\* A request knows what it is about once it has arrived.
ArgsKnown == \A r \in Reqs : pc[r] # "idle" => arg[r] \in Args

Base == TypeOK /\ ArgsKnown

LEMMA BaseInit == Init => Base
  BY OnboardingAssumption DEF Init, Base, TypeOK, ArgsKnown

LEMMA BaseStep == Base /\ [Next]_vars => Base'
<1> SUFFICES ASSUME Base, [Next]_vars PROVE Base'
  OBVIOUS
<1> USE OnboardingAssumption DEF Base, TypeOK, ArgsKnown, Goto
<1>1. ASSUME NEW r \in Reqs, NEW e \in Emails, NEW s \in Slugs, SignupCheck(r, e, s)
      PROVE  Base'
  BY <1>1 DEF SignupCheck, Begin, Args, Working, Answers
<1>2. ASSUME NEW r \in Reqs, NEW a \in Args, CreateInvite(r, a) PROVE Base'
  BY <1>2 DEF CreateInvite, Begin, Working, Answers
<1>3. ASSUME NEW r \in Reqs, NEW i \in Reqs, AcceptLookup(r, i) PROVE Base'
  BY <1>3 DEF AcceptLookup, Begin, Working, Answers
<1>4. ASSUME NEW r \in Reqs, AddOrg(r) \/ AddUser(r) \/ RefusePassword(r) \/ AnswerSignup(r)
                                \/ IssueTokens(r)
      PROVE  Base'
  BY <1>4 DEF AddOrg, AddUser, RefusePassword, AnswerSignup, IssueTokens, Refusal, tables,
     Working, Answers
<1>5. ASSUME NEW r \in Reqs, CommitSignup(r) \/ CommitAccept(r) PROVE Base'
  <2>1. arg[r].email \in Emails /\ arg[r].org \in Slugs /\ arg[r].group \in Slugs
    BY <1>5 DEF CommitSignup, CommitAccept, Args
  <2> QED
    BY <1>5, <2>1 DEF CommitSignup, CommitAccept, InsertAccount, Working, Answers
<1>6. CASE Tick \/ UNCHANGED vars
  BY <1>6 DEF Tick, vars, tables, locals
<1>7. CASE Crash
  BY <1>7 DEF Crash, tables, Working, Answers
<1> QED
  BY <1>1, <1>2, <1>3, <1>4, <1>5, <1>6, <1>7 DEF Next, Arrive, Proceed

\* The variables keep their types: a row is always named by a request, and every
\* membership pairs an account with an organization's group.
THEOREM TypeCorrect == Spec => []TypeOK
<1>1. Base => TypeOK
  BY DEF Base
<1> QED
  BY <1>1, BaseInit, BaseStep, PTL DEF Spec

-----------------------------------------------------------------------------
(***************************************************************************)
(* The inductive invariant.  Its core is Exclusive: the unique keys that   *)
(* an open transaction has inserted are its own, and not in the database   *)
(* yet.  So a commit never overwrites a row, rows stay with the request    *)
(* that made them (Owners), and the answers can be read off the tables.    *)
(***************************************************************************)

\* Which states belong to which route, and what each route knows.
Routes ==
    \A r \in Reqs :
        /\ op[r] = "none" <=> pc[r] = "idle"
        /\ op[r] = "signup" =>
             /\ pc[r] \in {"checked", "orgAdded", "userAdded", "created", "ok", "409", "500",
                            "lost"}
             /\ arg[r].group = arg[r].org
        /\ op[r] = "accept" =>
             /\ pc[r] \in {"inviteRead", "userAdded", "created", "ok", "400", "500", "lost"}
             /\ source[r] \in Reqs /\ arg[r] = arg[source[r]]
             /\ op[source[r]] = "invite" /\ pc[source[r]] = "ok"
        /\ op[r] = "invite" =>
             /\ pc[r] \in {"ok", "404"}
             /\ pc[r] = "ok" => arg[r].group = arg[r].org /\ Exists(arg[r].org)
        /\ r \in open => op[r] = "invite"

Owners ==
    /\ \A e \in Emails : Registered(e) =>
         /\ arg[accountBy[e]].email = e
         /\ op[accountBy[e]] \in {"signup", "accept"}
         /\ op[accountBy[e]] = "signup" => pc[accountBy[e]] \in {"created", "ok", "lost"}
         /\ op[accountBy[e]] = "accept" => pc[accountBy[e]] \in {"created", "ok", "500", "lost"}
    /\ \A s \in Slugs : Exists(s) =>
         /\ arg[orgBy[s]].org = s
         /\ op[orgBy[s]] = "signup" /\ pc[orgBy[s]] \in {"created", "ok", "lost"}

Exclusive ==
    /\ \A e \in Emails, q \in Reqs : HoldsEmail(q, e) =>
         ~Registered(e) /\ \A r \in Reqs : HoldsEmail(r, e) => r = q
    /\ \A s \in Slugs, q \in Reqs : HoldsSlug(q, s) =>
         ~Exists(s) /\ \A r \in Reqs : HoldsSlug(r, s) => r = q

IInv ==
    /\ Base
    /\ Routes
    /\ Owners
    /\ Exclusive
    /\ SignupIsAtomic
    /\ AcceptedOnce
    /\ InviteNotWasted
    /\ MembersAreHome

LEMMA IInvInit == Init => IInv
  BY BaseInit, OnboardingAssumption
     DEF Init, IInv, Routes, Owners, Exclusive, SignupIsAtomic, AcceptedOnce,
         InviteNotWasted, MembersAreHome, HoldsEmail, HoldsSlug, Registered, Exists

\* A request arrives: no row, no key and no other request refers to it yet.
LEMMA IInvArrive ==
  ASSUME IInv, Base', NEW r \in Reqs, NEW a \in Args,
         NEW o \in {"signup", "accept", "invite"}, NEW i \in Reqs \union {NoReq},
         NEW state, Begin(r, o, a, i), Goto(r, state),
         \/ /\ o = "signup" /\ a.group = a.org /\ state \in {"409", "checked"}
            /\ UNCHANGED <<open, expires>>
         \/ /\ o = "invite" /\ state = "404" /\ UNCHANGED <<open, expires>>
         \/ /\ o = "invite" /\ state = "ok" /\ a.group = a.org /\ Exists(a.org)
            /\ open' = open \union {r}
            /\ expires' = [expires EXCEPT ![r] = now + INVITE_TTL]
         \/ /\ o = "accept" /\ state \in {"inviteRead", "400"}
            /\ i \in Reqs /\ op[i] = "invite" /\ pc[i] = "ok" /\ a = arg[i]
            /\ open' = open \/ (open' = open \ {i} /\ ExpiredInvite(i))
            /\ UNCHANGED expires
  PROVE  IInv'
<1> USE OnboardingAssumption DEF IInv, Base, TypeOK
<1>1. /\ pc[r] = "idle" /\ op[r] = "none"
      /\ UNCHANGED <<now, orgBy, accountBy, member>>
  BY DEF Begin, Routes
<1>2. /\ pc'[r] = state /\ op'[r] = o /\ arg'[r] = a /\ source'[r] = i
      /\ \A q \in Reqs : q # r => /\ pc'[q] = pc[q] /\ op'[q] = op[q] /\ arg'[q] = arg[q]
                                  /\ source'[q] = source[q] /\ expires'[q] = expires[q]
  BY DEF Begin, Goto
<1>3. /\ \A e \in Emails : accountBy[e] # r
      /\ \A s \in Slugs : orgBy[s] # r
      /\ r \notin open
      /\ \A q \in Reqs : op[q] = "accept" => source[q] # r
  BY <1>1 DEF Owners, Routes, Registered, Exists
<1>4. Routes'
  <2> SUFFICES ASSUME NEW q \in Reqs
               PROVE  /\ op'[q] = "none" <=> pc'[q] = "idle"
                      /\ op'[q] = "signup" =>
                           /\ pc'[q] \in {"checked", "orgAdded", "userAdded", "created", "ok",
                                          "409", "500", "lost"}
                           /\ arg'[q].group = arg'[q].org
                      /\ op'[q] = "accept" =>
                           /\ pc'[q] \in {"inviteRead", "userAdded", "created", "ok", "400",
                                          "500", "lost"}
                           /\ source'[q] \in Reqs /\ arg'[q] = arg'[source'[q]]
                           /\ op'[source'[q]] = "invite" /\ pc'[source'[q]] = "ok"
                      /\ op'[q] = "invite" =>
                           /\ pc'[q] \in {"ok", "404"}
                           /\ pc'[q] = "ok" => arg'[q].group = arg'[q].org /\ Exists(arg'[q].org)
                      /\ q \in open' => op'[q] = "invite"
    BY <1>1 DEF Routes, Exists
  <2>1. CASE q = r
    BY <2>1, <1>1, <1>2, <1>3
  <2>2. CASE q # r
    BY <2>2, <1>2, <1>3 DEF Routes
  <2> QED
    BY <2>1, <2>2
<1>5. Owners'
  BY <1>1, <1>2, <1>3 DEF Owners, Registered, Exists
<1>6. Exclusive'
  <2>1. \A q \in Reqs : \A e \in Emails : HoldsEmail(q, e)' => HoldsEmail(q, e)
    BY <1>2 DEF HoldsEmail
  <2>2. \A q \in Reqs : \A s \in Slugs : HoldsSlug(q, s)' => HoldsSlug(q, s)
    BY <1>2 DEF HoldsSlug
  <2> QED
    BY <2>1, <2>2, <1>1 DEF Exclusive, Registered, Exists
<1>7. SignupIsAtomic'
  <2> SUFFICES ASSUME NEW q \in Reqs, op'[q] = "signup"
               PROVE  /\ orgBy[arg'[q].org] = q <=> accountBy[arg'[q].email] = q
                      /\ orgBy[arg'[q].org] = q => <<arg'[q].email, arg'[q].org>> \in member
                      /\ orgBy[arg'[q].org] = q => pc'[q] \in {"created", "ok", "lost"}
                      /\ pc'[q] \in {"created", "ok"} => orgBy[arg'[q].org] = q
    BY <1>1 DEF SignupIsAtomic
  <2>1. CASE q = r
    BY <2>1, <1>2, <1>3 DEF Args
  <2>2. CASE q # r
    BY <2>2, <1>2 DEF SignupIsAtomic
  <2> QED
    BY <2>1, <2>2
<1>8. AcceptedOnce'
  <2> SUFFICES ASSUME NEW q \in Reqs, op'[q] = "accept"
               PROVE  /\ accountBy[arg'[q].email] = q => source'[q] \notin open'
                      /\ pc'[q] \in {"created", "ok"} => accountBy[arg'[q].email] = q
    BY <1>1 DEF AcceptedOnce
  <2>1. CASE q = r
    BY <2>1, <1>2, <1>3 DEF Args
  <2>2. CASE q # r
    BY <2>2, <1>2, <1>3 DEF AcceptedOnce
  <2> QED
    BY <2>1, <2>2
<1>9. InviteNotWasted'
  <2> SUFFICES ASSUME NEW q \in Reqs, op'[q] = "invite", pc'[q] = "ok", q \notin open'
               PROVE  accountBy[arg'[q].email] # NoReq \/ expires'[q] < now
    BY <1>1 DEF InviteNotWasted, Registered, ExpiredInvite
  <2>1. q # r
    BY <1>2
  <2> QED
    BY <2>1, <1>2 DEF InviteNotWasted, Registered, ExpiredInvite
<1>10. MembersAreHome'
  <2>1. ASSUME NEW e \in Emails PROVE HomeOf(e)' = HomeOf(e)
    BY <1>1, <1>2, <1>3 DEF HomeOf, Registered
  <2> QED
    BY <2>1, <1>1 DEF MembersAreHome, Registered, Exists
<1> QED
  BY <1>4, <1>5, <1>6, <1>7, <1>8, <1>9, <1>10

\* A request moves on or is answered; nothing is committed.
LEMMA IInvMove ==
  ASSUME IInv, Base', NEW r \in Reqs, NEW state, Goto(r, state),
         UNCHANGED <<now, tables, op, arg, source, expires>>,
         \/ /\ pc[r] = "checked" /\ state = "500"
         \/ /\ pc[r] = "checked" /\ state = "orgAdded"
            /\ ~Exists(arg[r].org) /\ \A q \in Reqs : ~HoldsSlug(q, arg[r].org)
         \/ /\ pc[r] \in {"orgAdded", "inviteRead"} /\ state \in {Refusal(r), "500"}
         \/ /\ pc[r] \in {"orgAdded", "inviteRead"} /\ state = "userAdded"
            /\ ~Registered(arg[r].email) /\ \A q \in Reqs : ~HoldsEmail(q, arg[r].email)
         \/ /\ pc[r] = "created" /\ state = "ok"
         \/ /\ pc[r] = "created" /\ op[r] = "accept" /\ state = "500"
  PROVE  IInv'
<1> USE OnboardingAssumption DEF IInv, Base, TypeOK
<1>1. /\ pc'[r] = state
      /\ \A q \in Reqs : q # r => pc'[q] = pc[q]
      /\ UNCHANGED <<now, orgBy, accountBy, member, open, op, arg, source, expires>>
  BY DEF Goto, tables
<1>2. /\ pc[r] \in {"checked", "orgAdded"} => op[r] = "signup"
      /\ pc[r] = "inviteRead" => op[r] = "accept"
      /\ pc[r] # "ok" /\ pc[r] # "idle" /\ op[r] # "invite"
  BY DEF Routes
<1>3. /\ \A e \in Emails : accountBy[e] = r => pc[r] = "created"
      /\ \A s \in Slugs : orgBy[s] = r => pc[r] = "created"
  BY DEF Owners, Registered, Exists
<1>4. Routes'
  BY <1>1, <1>2 DEF Routes, Refusal, Exists
<1>5. Owners'
  BY <1>1, <1>3 DEF Owners, Registered, Exists
<1>6. Exclusive'
  <2>1. ASSUME NEW e \in Emails, NEW q \in Reqs, HoldsEmail(q, e)'
        PROVE  ~Registered(e) /\ \A p \in Reqs : HoldsEmail(p, e)' => p = q
    <3>1. \A p \in Reqs : HoldsEmail(p, e)' =>
            HoldsEmail(p, e) \/ (p = r /\ arg[r].email = e /\ state = "userAdded")
      BY <1>1 DEF HoldsEmail
    <3> QED
      BY <2>1, <3>1 DEF Exclusive, Refusal
  <2>2. ASSUME NEW s \in Slugs, NEW q \in Reqs, HoldsSlug(q, s)'
        PROVE  ~Exists(s) /\ \A p \in Reqs : HoldsSlug(p, s)' => p = q
    <3>1. \A p \in Reqs : HoldsSlug(p, s)' =>
            HoldsSlug(p, s) \/ (p = r /\ arg[r].org = s /\ state = "orgAdded" /\ pc[r] = "checked")
      BY <1>1, <1>2 DEF HoldsSlug, Refusal
    <3> QED
      BY <2>2, <3>1 DEF Exclusive
  <2> QED
    BY <2>1, <2>2, <1>1 DEF Exclusive, Registered, Exists
<1>7. SignupIsAtomic'
  <2>1. op[r] = "signup" => arg[r].email \in Emails /\ arg[r].org \in Slugs
    BY <1>2 DEF ArgsKnown, Args
  <2> QED
    BY <2>1, <1>1, <1>2, <1>3 DEF SignupIsAtomic, Refusal
<1>8. AcceptedOnce'
  BY <1>1, <1>2 DEF AcceptedOnce, Refusal
<1>9. InviteNotWasted'
  <2> SUFFICES ASSUME NEW q \in Reqs, op[q] = "invite", pc'[q] = "ok", q \notin open
               PROVE  accountBy[arg[q].email] # NoReq \/ expires[q] < now
    BY <1>1 DEF InviteNotWasted, Registered, ExpiredInvite
  <2>1. q # r
    BY <1>2
  <2> QED
    BY <2>1, <1>1 DEF InviteNotWasted, Registered, ExpiredInvite
<1>10. MembersAreHome'
  BY <1>1 DEF MembersAreHome, HomeOf, Registered, Exists
<1> QED
  BY <1>4, <1>5, <1>6, <1>7, <1>8, <1>9, <1>10

\* What both commits share.  The account is new, nobody else is about to
\* insert it, and every other account stays as it is.
LEMMA CommitFacts ==
  ASSUME IInv, NEW r \in Reqs, pc[r] = "userAdded", InsertAccount(r),
         UNCHANGED <<op, arg, source, expires>>
  PROVE  /\ arg[r].email \in Emails /\ arg[r].org \in Slugs /\ arg[r].group = arg[r].org
         /\ op[r] \in {"signup", "accept"}
         /\ ~Registered(arg[r].email)
         /\ \A q \in Reqs : HoldsEmail(q, arg[r].email) => q = r
         /\ accountBy'[arg[r].email] = r
         /\ \A e \in Emails : e # arg[r].email => accountBy'[e] = accountBy[e]
         /\ member' = member \union {<<arg[r].email, arg[r].org>>}
<1> USE OnboardingAssumption DEF IInv, Base, TypeOK
<1>1. arg[r] \in Args /\ op[r] \in {"signup", "accept"}
  BY DEF ArgsKnown, Routes
<1>2. arg[r].group = arg[r].org
  BY <1>1 DEF Routes
<1>3. HoldsEmail(r, arg[r].email)
  BY DEF HoldsEmail
<1> QED
  BY <1>1, <1>2, <1>3 DEF Args, Exclusive, InsertAccount

LEMMA HomesKept ==
  ASSUME IInv, NEW r \in Reqs, pc[r] = "userAdded", InsertAccount(r),
         UNCHANGED <<op, arg, source, expires>>
  PROVE  /\ \A e \in Emails : e # arg[r].email => HomeOf(e)' = HomeOf(e)
         /\ HomeOf(arg[r].email)' = arg[r].org
         /\ HomeOf(arg[r].email) = NoOrg
         /\ \A m \in member' : HomeOf(m[1])' = m[2]
<1> USE OnboardingAssumption DEF IInv, Base, TypeOK
<1>1. /\ \A e \in Emails : e # arg[r].email => HomeOf(e)' = HomeOf(e)
      /\ HomeOf(arg[r].email)' = arg[r].org
      /\ HomeOf(arg[r].email) = NoOrg
  BY CommitFacts DEF HomeOf, Registered
<1>2. ASSUME NEW m \in member' PROVE HomeOf(m[1])' = m[2]
  <2>1. CASE m \in member
    <3>1. m[1] \in Emails /\ m[2] \in Slugs /\ HomeOf(m[1]) = m[2]
      BY <2>1 DEF MembersAreHome
    <3>2. m[1] # arg[r].email
      BY <3>1, <1>1
    <3> QED
      BY <3>1, <3>2, <1>1
  <2>2. CASE m = <<arg[r].email, arg[r].org>>
    BY <2>2, <1>1
  <2> QED
    BY <2>1, <2>2, CommitFacts
<1> QED
  BY <1>1, <1>2

LEMMA IInvCommitSignup ==
  ASSUME IInv, Base', NEW r \in Reqs, CommitSignup(r)
  PROVE  IInv'
<1> USE OnboardingAssumption DEF IInv, Base, TypeOK
<1> DEFINE e0 == arg[r].email
           s0 == arg[r].org
<1>1. /\ pc[r] = "userAdded" /\ op[r] = "signup" /\ InsertAccount(r)
      /\ pc'[r] = "created" /\ \A q \in Reqs : q # r => pc'[q] = pc[q]
      /\ UNCHANGED <<now, open, op, arg, source, expires>>
  BY DEF CommitSignup, Goto
<1>2. /\ e0 \in Emails /\ s0 \in Slugs /\ ~Registered(e0)
      /\ \A q \in Reqs : HoldsEmail(q, e0) => q = r
      /\ accountBy'[e0] = r
      /\ \A e \in Emails : e # e0 => accountBy'[e] = accountBy[e]
      /\ member' = member \union {<<e0, s0>>}
  BY <1>1, CommitFacts
<1>3. /\ ~Exists(s0) /\ \A q \in Reqs : HoldsSlug(q, s0) => q = r
      /\ orgBy'[s0] = r /\ \A s \in Slugs : s # s0 => orgBy'[s] = orgBy[s]
  <2>1. HoldsSlug(r, s0)
    BY <1>1 DEF HoldsSlug
  <2> QED
    BY <2>1, <1>2 DEF CommitSignup, Exclusive
<1>4. /\ \A e \in Emails : Registered(e)' <=> Registered(e) \/ e = e0
      /\ \A s \in Slugs : Exists(s)' <=> Exists(s) \/ s = s0
  BY <1>2, <1>3 DEF Registered, Exists
<1>5. Routes'
  <2>1. ASSUME NEW q \in Reqs, op[q] = "invite", pc[q] = "ok"
        PROVE  Exists(arg[q].org)'
    <3>1. arg[q].org \in Slugs /\ Exists(arg[q].org)
      BY <2>1 DEF Routes, ArgsKnown, Args
    <3> QED
      BY <3>1, <1>4, <1>1
  <2> QED
    BY <2>1, <1>1 DEF Routes
<1>6. Owners'
  BY <1>1, <1>2, <1>3, <1>4 DEF Owners, Registered, Exists
<1>7. Exclusive'
  <2>1. \A q \in Reqs, e \in Emails : HoldsEmail(q, e)' => HoldsEmail(q, e) /\ q # r /\ e # e0
    BY <1>1, <1>2 DEF HoldsEmail
  <2>2. \A q \in Reqs, s \in Slugs : HoldsSlug(q, s)' => HoldsSlug(q, s) /\ q # r /\ s # s0
    BY <1>1, <1>3 DEF HoldsSlug
  <2> QED
    BY <2>1, <2>2, <1>4 DEF Exclusive
<1>8. SignupIsAtomic'
  <2> SUFFICES ASSUME NEW q \in Reqs, op[q] = "signup"
               PROVE  /\ orgBy'[arg[q].org] = q <=> accountBy'[arg[q].email] = q
                      /\ orgBy'[arg[q].org] = q => <<arg[q].email, arg[q].org>> \in member'
                      /\ orgBy'[arg[q].org] = q => pc'[q] \in {"created", "ok", "lost"}
                      /\ pc'[q] \in {"created", "ok"} => orgBy'[arg[q].org] = q
    BY <1>1 DEF SignupIsAtomic
  <2>1. CASE q = r
    BY <2>1, <1>1, <1>2, <1>3
  <2>2. CASE q # r
    <3>1. arg[q].email \in Emails /\ arg[q].org \in Slugs
      BY DEF ArgsKnown, Args, Routes
    <3>2. /\ orgBy[arg[q].org] = q <=> accountBy[arg[q].email] = q
          /\ orgBy[arg[q].org] = q => <<arg[q].email, arg[q].org>> \in member
          /\ orgBy[arg[q].org] = q => pc[q] \in {"created", "ok", "lost"}
          /\ pc[q] \in {"created", "ok"} => orgBy[arg[q].org] = q
      BY DEF SignupIsAtomic
    <3> QED
      BY <2>2, <3>1, <3>2, <1>1, <1>2, <1>3 DEF Registered, Exists
  <2> QED
    BY <2>1, <2>2
<1>9. AcceptedOnce'
  <2> SUFFICES ASSUME NEW q \in Reqs, op[q] = "accept"
               PROVE  /\ accountBy'[arg[q].email] = q => source[q] \notin open
                      /\ pc'[q] \in {"created", "ok"} => accountBy'[arg[q].email] = q
    BY <1>1 DEF AcceptedOnce
  <2>1. q # r /\ arg[q].email \in Emails
    BY <1>1 DEF ArgsKnown, Args, Routes
  <2>2. /\ accountBy[arg[q].email] = q => source[q] \notin open
        /\ pc[q] \in {"created", "ok"} => accountBy[arg[q].email] = q
    BY DEF AcceptedOnce
  <2> QED
    BY <2>1, <2>2, <1>1, <1>2 DEF Registered
<1>10. InviteNotWasted'
  <2> SUFFICES ASSUME NEW q \in Reqs, op[q] = "invite", pc'[q] = "ok", q \notin open
               PROVE  Registered(arg[q].email)' \/ expires[q] < now
    BY <1>1 DEF InviteNotWasted, ExpiredInvite
  <2>1. q # r /\ pc[q] = "ok" /\ arg[q].email \in Emails
    BY <1>1 DEF ArgsKnown, Args, Routes
  <2>2. Registered(arg[q].email) \/ expires[q] < now
    BY <2>1 DEF InviteNotWasted, ExpiredInvite
  <2> QED
    BY <2>1, <2>2, <1>1, <1>4
<1>11. MembersAreHome'
  <2>1. \A m \in member' : HomeOf(m[1])' = m[2]
    BY <1>1, HomesKept
  <2>2. ASSUME NEW e \in Emails, Registered(e)' PROVE Exists(HomeOf(e))'
    <3>1. CASE e = e0
      BY <3>1, <1>1, <1>2, <1>4, HomesKept DEF Exists
    <3>2. CASE e # e0
      <4>1. HomeOf(e) \in Slugs /\ Exists(HomeOf(e))
        BY <2>2, <3>2, <1>4 DEF MembersAreHome, HomeOf, Registered, Owners, Routes,
           ArgsKnown, Args
      <4>2. HomeOf(e)' = HomeOf(e)
        BY <3>2, <1>1, HomesKept
      <4> QED
        BY <4>1, <4>2, <1>3 DEF Exists
    <3> QED
      BY <3>1, <3>2
  <2> QED
    BY <2>1, <2>2 DEF MembersAreHome
<1> QED
  BY <1>5, <1>6, <1>7, <1>8, <1>9, <1>10, <1>11

LEMMA IInvCommitAccept ==
  ASSUME IInv, Base', NEW r \in Reqs, CommitAccept(r)
  PROVE  IInv'
<1> USE OnboardingAssumption DEF IInv, Base, TypeOK
<1> DEFINE e0 == arg[r].email
           s0 == arg[r].org
<1>1. /\ pc[r] = "userAdded" /\ op[r] = "accept" /\ InsertAccount(r)
      /\ pc'[r] = "created" /\ \A q \in Reqs : q # r => pc'[q] = pc[q]
      /\ open' = open \ {source[r]}
      /\ UNCHANGED <<now, orgBy, op, arg, source, expires>>
  BY DEF CommitAccept, Goto
<1>2. /\ e0 \in Emails /\ s0 \in Slugs /\ ~Registered(e0)
      /\ \A q \in Reqs : HoldsEmail(q, e0) => q = r
      /\ accountBy'[e0] = r
      /\ \A e \in Emails : e # e0 => accountBy'[e] = accountBy[e]
  BY <1>1, CommitFacts
<1>3. /\ \A e \in Emails : Registered(e)' <=> Registered(e) \/ e = e0
      /\ \A s : Exists(s)' <=> Exists(s)
  BY <1>1, <1>2 DEF Registered, Exists
<1>4. /\ source[r] \in Reqs /\ op[source[r]] = "invite" /\ pc[source[r]] = "ok"
      /\ arg[source[r]] = arg[r] /\ Exists(s0)
  BY <1>1 DEF Routes
<1>5. Routes'
  BY <1>1, <1>3 DEF Routes, Exists
<1>6. Owners'
  BY <1>1, <1>2, <1>3 DEF Owners, Registered, Exists
<1>7. Exclusive'
  <2>1. \A q \in Reqs, e \in Emails : HoldsEmail(q, e)' => HoldsEmail(q, e) /\ q # r /\ e # e0
    BY <1>1, <1>2 DEF HoldsEmail
  <2>2. \A q \in Reqs, s \in Slugs : HoldsSlug(q, s)' => HoldsSlug(q, s)
    BY <1>1 DEF HoldsSlug
  <2> QED
    BY <2>1, <2>2, <1>3 DEF Exclusive
<1>8. SignupIsAtomic'
  <2> SUFFICES ASSUME NEW q \in Reqs, op[q] = "signup"
               PROVE  /\ orgBy[arg[q].org] = q <=> accountBy'[arg[q].email] = q
                      /\ orgBy[arg[q].org] = q => <<arg[q].email, arg[q].org>> \in member'
                      /\ orgBy[arg[q].org] = q => pc'[q] \in {"created", "ok", "lost"}
                      /\ pc'[q] \in {"created", "ok"} => orgBy[arg[q].org] = q
    BY <1>1 DEF SignupIsAtomic
  <2>1. q # r /\ arg[q].email \in Emails
    BY <1>1 DEF ArgsKnown, Args, Routes
  <2>2. /\ orgBy[arg[q].org] = q <=> accountBy[arg[q].email] = q
        /\ orgBy[arg[q].org] = q => <<arg[q].email, arg[q].org>> \in member
        /\ orgBy[arg[q].org] = q => pc[q] \in {"created", "ok", "lost"}
        /\ pc[q] \in {"created", "ok"} => orgBy[arg[q].org] = q
    BY DEF SignupIsAtomic
  <2>3. member \subseteq member'
    BY <1>1 DEF InsertAccount
  <2> QED
    BY <2>1, <2>2, <2>3, <1>1, <1>2 DEF Registered
<1>9. AcceptedOnce'
  <2> SUFFICES ASSUME NEW q \in Reqs, op[q] = "accept"
               PROVE  /\ accountBy'[arg[q].email] = q => source[q] \notin open'
                      /\ pc'[q] \in {"created", "ok"} => accountBy'[arg[q].email] = q
    BY <1>1 DEF AcceptedOnce
  <2>1. CASE q = r
    BY <2>1, <1>1, <1>2
  <2>2. CASE q # r
    <3>1. arg[q].email \in Emails
      BY DEF ArgsKnown, Args, Routes
    <3>2. /\ accountBy[arg[q].email] = q => source[q] \notin open
          /\ pc[q] \in {"created", "ok"} => accountBy[arg[q].email] = q
      BY DEF AcceptedOnce
    <3> QED
      BY <2>2, <3>1, <3>2, <1>1, <1>2 DEF Registered
  <2> QED
    BY <2>1, <2>2
<1>10. InviteNotWasted'
  <2> SUFFICES ASSUME NEW q \in Reqs, op[q] = "invite", pc'[q] = "ok", q \notin open'
               PROVE  Registered(arg[q].email)' \/ expires[q] < now
    BY <1>1 DEF InviteNotWasted, ExpiredInvite
  <2>1. q # r /\ pc[q] = "ok" /\ arg[q].email \in Emails
    BY <1>1 DEF ArgsKnown, Args, Routes
  <2>2. CASE q = source[r]
    BY <2>1, <2>2, <1>1, <1>3, <1>4
  <2>3. CASE q # source[r]
    <3>1. Registered(arg[q].email) \/ expires[q] < now
      BY <2>1, <2>3, <1>1 DEF InviteNotWasted, ExpiredInvite
    <3> QED
      BY <2>1, <3>1, <1>1, <1>3
  <2> QED
    BY <2>2, <2>3
<1>11. MembersAreHome'
  <2>1. \A m \in member' : HomeOf(m[1])' = m[2]
    BY <1>1, HomesKept
  <2>2. ASSUME NEW e \in Emails, Registered(e)' PROVE Exists(HomeOf(e))'
    <3>1. CASE e = e0
      <4>1. HomeOf(e)' = s0
        BY <3>1, <1>1, HomesKept
      <4> QED
        BY <4>1, <1>1, <1>4 DEF Exists
    <3>2. CASE e # e0
      <4>1. Exists(HomeOf(e)) /\ HomeOf(e)' = HomeOf(e)
        BY <2>2, <3>2, <1>1, <1>3, HomesKept DEF MembersAreHome
      <4> QED
        BY <4>1, <1>1 DEF Exists
    <3> QED
      BY <3>1, <3>2
  <2> QED
    BY <2>1, <2>2 DEF MembersAreHome
<1> QED
  BY <1>5, <1>6, <1>7, <1>8, <1>9, <1>10, <1>11

LEMMA IInvCrash ==
  ASSUME IInv, Base', Crash
  PROVE  IInv'
<1> USE OnboardingAssumption DEF IInv, Base, TypeOK
<1>1. /\ \A q \in Reqs : pc'[q] = IF pc[q] \in Working THEN "lost" ELSE pc[q]
      /\ UNCHANGED <<now, orgBy, accountBy, member, open, op, arg, source, expires>>
  BY DEF Crash, tables
<1>2. \A q \in Reqs : /\ pc'[q] = "lost" \/ pc'[q] = pc[q]
                      /\ pc'[q] = "ok" <=> pc[q] = "ok"
                      /\ pc'[q] = "idle" <=> pc[q] = "idle"
                      /\ pc'[q] # "userAdded" /\ pc'[q] # "orgAdded" /\ pc'[q] # "created"
  BY <1>1 DEF Working
<1>3. Routes'
  BY <1>1, <1>2 DEF Routes, Exists, Working
<1>4. Owners'
  <2>1. ASSUME NEW e \in Emails, Registered(e)
        PROVE  /\ op[accountBy[e]] = "signup" =>
                    pc'[accountBy[e]] \in {"created", "ok", "lost"}
               /\ op[accountBy[e]] = "accept" =>
                    pc'[accountBy[e]] \in {"created", "ok", "500", "lost"}
    <3>1. accountBy[e] \in Reqs
      BY <2>1 DEF Registered
    <3> QED
      BY <2>1, <3>1, <1>2 DEF Owners
  <2>2. ASSUME NEW s \in Slugs, Exists(s) PROVE pc'[orgBy[s]] \in {"created", "ok", "lost"}
    <3>1. orgBy[s] \in Reqs
      BY <2>2 DEF Exists
    <3> QED
      BY <2>2, <3>1, <1>2 DEF Owners
  <2> QED
    BY <2>1, <2>2, <1>1 DEF Owners, Registered, Exists
<1>5. Exclusive'
  BY <1>1, <1>2 DEF Exclusive, HoldsEmail, HoldsSlug
<1>6. SignupIsAtomic' /\ AcceptedOnce'
  BY <1>1, <1>2 DEF SignupIsAtomic, AcceptedOnce
<1>7. InviteNotWasted' /\ MembersAreHome'
  BY <1>1, <1>2
     DEF InviteNotWasted, MembersAreHome, HomeOf, Registered, Exists, ExpiredInvite
<1> QED
  BY <1>3, <1>4, <1>5, <1>6, <1>7

LEMMA IInvIdle ==
  ASSUME IInv, Base', Tick \/ UNCHANGED vars
  PROVE  IInv'
<1>1. UNCHANGED <<orgBy, accountBy, member, open, op, pc, arg, source, expires>>
  BY DEF Tick, vars, tables, locals
<1>2. now' >= now
  BY DEF Tick, vars, IInv, Base, TypeOK
<1>3. Routes' /\ Owners' /\ Exclusive'
  BY <1>1 DEF IInv, Routes, Owners, Exclusive, HoldsEmail, HoldsSlug, Registered, Exists
<1>4. SignupIsAtomic' /\ AcceptedOnce' /\ MembersAreHome'
  BY <1>1 DEF IInv, SignupIsAtomic, AcceptedOnce, MembersAreHome, HomeOf, Registered, Exists
<1>5. InviteNotWasted'
  BY <1>1, <1>2 DEF IInv, Base, TypeOK, InviteNotWasted, Registered, ExpiredInvite
<1> QED
  BY <1>3, <1>4, <1>5 DEF IInv

LEMMA IInvStep == IInv /\ [Next]_vars => IInv'
<1> SUFFICES ASSUME IInv, [Next]_vars PROVE IInv'
  OBVIOUS
<1>0. Base /\ Base'
  BY BaseStep DEF IInv
<1>1. ASSUME NEW r \in Reqs, NEW e \in Emails, NEW s \in Slugs, SignupCheck(r, e, s)
      PROVE  IInv'
  BY <1>0, <1>1, IInvArrive DEF SignupCheck, Args
<1>2. ASSUME NEW r \in Reqs, NEW a \in Args, CreateInvite(r, a) PROVE IInv'
  BY <1>0, <1>2, IInvArrive DEF CreateInvite
<1>3. ASSUME NEW r \in Reqs, NEW i \in Reqs, AcceptLookup(r, i) PROVE IInv'
  <2>1. arg[i] \in Args
    BY <1>0, <1>3 DEF Base, ArgsKnown, AcceptLookup
  <2>2. CASE Goto(r, "inviteRead")
    BY <1>0, <1>3, <2>1, <2>2, IInvArrive DEF AcceptLookup
  <2>3. CASE Goto(r, "400")
    BY <1>0, <1>3, <2>1, <2>3, IInvArrive DEF AcceptLookup
  <2> QED
    BY <1>3, <2>2, <2>3 DEF AcceptLookup
<1>4. ASSUME NEW r \in Reqs, AddOrg(r) PROVE IInv'
  BY <1>0, <1>4, IInvMove DEF AddOrg
<1>5. ASSUME NEW r \in Reqs, AddUser(r) \/ RefusePassword(r) PROVE IInv'
  BY <1>0, <1>5, IInvMove DEF AddUser, RefusePassword
<1>6. ASSUME NEW r \in Reqs, AnswerSignup(r) \/ IssueTokens(r) PROVE IInv'
  BY <1>0, <1>6, IInvMove DEF AnswerSignup, IssueTokens
<1>7. ASSUME NEW r \in Reqs, CommitSignup(r) PROVE IInv'
  BY <1>0, <1>7, IInvCommitSignup
<1>8. ASSUME NEW r \in Reqs, CommitAccept(r) PROVE IInv'
  BY <1>0, <1>8, IInvCommitAccept
<1>9. CASE Crash
  BY <1>0, <1>9, IInvCrash
<1>10. CASE Tick \/ UNCHANGED vars
  BY <1>0, <1>10, IInvIdle
<1> QED
  BY <1>1, <1>2, <1>3, <1>4, <1>5, <1>6, <1>7, <1>8, <1>9, <1>10 DEF Next, Arrive, Proceed

LEMMA IInvAlways == Spec => []IInv
  BY IInvInit, IInvStep, PTL DEF Spec

\* A sign-up leaves all of its rows or none: all when it is answered 200, none
\* when it is refused or fails.
THEOREM SignupIsAtomicHolds == Spec => []SignupIsAtomic
  BY IInvAlways, PTL DEF IInv

\* An invitation makes at most one account, and is gone once it has.
THEOREM AcceptedOnceHolds == Spec => []AcceptedOnce
  BY IInvAlways, PTL DEF IInv

\* An invitation leaves the table only for an account or because it expired.
THEOREM InviteNotWastedHolds == Spec => []InviteNotWasted
  BY IInvAlways, PTL DEF IInv

\* Accounts are only in groups of their own organization, which exists.
THEOREM MembersAreHomeHolds == Spec => []MembersAreHome
  BY IInvAlways, PTL DEF IInv

-----------------------------------------------------------------------------
(***************************************************************************)
(* The refinement.  Only the two commits change what Registration sees:    *)
(* CommitSignup is its SignUp, CommitAccept its Join, and Exclusive gives  *)
(* their guards.  Everything else stutters; a request that arrives sets    *)
(* its own arg, and no account is named by it yet.                         *)
(***************************************************************************)
LEMMA RegistryInit == Init => Registry!Init
  BY OnboardingAssumption DEF Init, Registry!Init, HomeOf, Registered, Exists

\* Steps that touch neither the rows nor what their owners are about.
LEMMA RegistryStutter ==
  ASSUME IInv, UNCHANGED <<orgBy, accountBy, member>>,
         \A q \in Reqs : pc[q] # "idle" => arg'[q] = arg[q]
  PROVE  UNCHANGED Registry!vars
<1>1. ASSUME NEW e \in Emails PROVE HomeOf(e)' = HomeOf(e)
  <2>1. Registered(e) => accountBy[e] \in Reqs /\ pc[accountBy[e]] # "idle"
    BY DEF IInv, Base, TypeOK, Owners, Registered
  <2> QED
    BY <2>1 DEF HomeOf, Registered
<1> QED
  BY <1>1 DEF Registry!vars, Exists

\* The account that is committed enters its organization.
LEMMA RegistryEnter ==
  ASSUME IInv, NEW r \in Reqs, pc[r] = "userAdded", InsertAccount(r),
         UNCHANGED <<op, arg, source, expires>>
  PROVE  Registry!Enter(arg[r].email, arg[r].org)
<1> DEFINE e0 == arg[r].email
           s0 == arg[r].org
           homes == [e \in Emails |-> HomeOf(e)]
<1>1. /\ e0 \in Emails /\ member' = member \union {<<e0, s0>>}
      /\ HomeOf(e0) = NoOrg /\ HomeOf(e0)' = s0
      /\ \A e \in Emails : e # e0 => HomeOf(e)' = HomeOf(e)
  BY CommitFacts, HomesKept
<1>2. homes' = [homes EXCEPT ![e0] = s0]
  BY <1>1
<1>3. homes[e0] = NoOrg
  BY <1>1
<1> QED
  BY <1>1, <1>2, <1>3 DEF Registry!Enter

LEMMA RegistryStep == IInv /\ [Next]_vars => [Registry!Next]_(Registry!vars)
<1> SUFFICES ASSUME IInv, [Next]_vars PROVE [Registry!Next]_(Registry!vars)
  OBVIOUS
<1> USE OnboardingAssumption
<1>0. IInv /\ Base /\ TypeOK
  BY DEF IInv, Base
<1>1. ASSUME NEW r \in Reqs, Arrive(r) PROVE UNCHANGED Registry!vars
  <2>1. /\ UNCHANGED <<orgBy, accountBy, member>>
        /\ \A q \in Reqs : pc[q] # "idle" => arg'[q] = arg[q]
    BY <1>0, <1>1 DEF Arrive, SignupCheck, CreateInvite, AcceptLookup, Begin, TypeOK
  <2> QED
    BY <2>1, <1>0, RegistryStutter
<1>2. ASSUME NEW r \in Reqs, AddOrg(r) \/ AddUser(r) \/ RefusePassword(r) \/ AnswerSignup(r)
                                \/ IssueTokens(r)
      PROVE  UNCHANGED Registry!vars
  BY <1>0, <1>2, RegistryStutter
     DEF AddOrg, AddUser, RefusePassword, AnswerSignup, IssueTokens, tables
<1>3. CASE Tick \/ Crash \/ UNCHANGED vars
  BY <1>0, <1>3, RegistryStutter DEF Tick, Crash, vars, tables, locals
<1>4. ASSUME NEW r \in Reqs, CommitSignup(r) PROVE Registry!Next
  <2> DEFINE e0 == arg[r].email
             s0 == arg[r].org
  <2>1. /\ pc[r] = "userAdded" /\ op[r] = "signup" /\ InsertAccount(r)
        /\ orgBy' = [orgBy EXCEPT ![s0] = r]
        /\ UNCHANGED <<op, arg, source, expires>>
    BY <1>4 DEF CommitSignup
  <2>2. e0 \in Emails /\ s0 \in Slugs /\ Registry!Enter(e0, s0)
    BY <1>0, <2>1, CommitFacts, RegistryEnter
  <2>3. HoldsSlug(r, s0)
    BY <2>1 DEF HoldsSlug
  <2>4. s0 \notin {s \in Slugs : Exists(s)}
    BY <1>0, <2>2, <2>3 DEF IInv, Exclusive
  <2>5. {s \in Slugs : Exists(s)}' = {s \in Slugs : Exists(s)} \union {s0}
    BY <1>0, <2>1, <2>2 DEF Exists, TypeOK
  <2>6. Registry!SignUp(e0, s0)
    BY <2>2, <2>4, <2>5 DEF Registry!SignUp
  <2> QED
    BY <2>2, <2>6 DEF Registry!Next
<1>5. ASSUME NEW r \in Reqs, CommitAccept(r) PROVE Registry!Next
  <2> DEFINE e0 == arg[r].email
             s0 == arg[r].org
  <2>1. /\ pc[r] = "userAdded" /\ op[r] = "accept" /\ InsertAccount(r)
        /\ UNCHANGED <<orgBy, op, arg, source, expires>>
    BY <1>5 DEF CommitAccept
  <2>2. e0 \in Emails /\ s0 \in Slugs /\ Registry!Enter(e0, s0)
    BY <1>0, <2>1, CommitFacts, RegistryEnter
  <2>3. source[r] \in Reqs /\ arg[source[r]] = arg[r] /\ Exists(s0)
    BY <1>0, <2>1 DEF IInv, Routes
  <2>4. {s \in Slugs : Exists(s)}' = {s \in Slugs : Exists(s)}
    BY <2>1 DEF Exists
  <2>5. Registry!Join(e0, s0)
    BY <2>2, <2>3, <2>4 DEF Registry!Join
  <2> QED
    BY <2>2, <2>5 DEF Registry!Next
<1> QED
  BY <1>1, <1>2, <1>3, <1>4, <1>5 DEF Next, Proceed

\* However sign-ups, invitations and acceptances interleave and crash, what is
\* committed changes only by whole registrations, in the order Registration allows.
THEOREM Refinement == Spec => ImplementsRegistration
  BY RegistryInit, RegistryStep, IInvAlways, PTL
     DEF Spec, ImplementsRegistration, Registry!Spec
-----------------------------------------------------------------------------
(***************************************************************************)
(* Waiting.  That everybody is answered in the end needs fairness and is   *)
(* left to TLC (EveryRequestIsAnswered); what it rests on is proved here.  *)
(* An INSERT waits for one transaction only, which itself waits for at     *)
(* most one, which waits for nobody: keys are taken in the order slug,     *)
(* e-mail on every route.  And no step takes a request back.               *)
(***************************************************************************)

\* The next INSERT of r is of a key that the open transaction of q holds.
WaitsFor(r, q) ==
    \/ pc[r] = "checked" /\ HoldsSlug(q, arg[r].org)
    \/ pc[r] \in {"orgAdded", "inviteRead"} /\ HoldsEmail(q, arg[r].email)

WaitsAreShort ==
    \A r, q \in Reqs : WaitsFor(r, q) =>
        /\ q # r /\ pc[q] \in Working
        /\ \A p \in Reqs : WaitsFor(r, p) => p = q
        /\ \A p \in Reqs : WaitsFor(q, p) => p # r /\ \A s \in Reqs : ~WaitsFor(p, s)

\* How far a request has come.
Stage(state) ==
    CASE state = "idle" -> 0
      [] state = "checked" -> 1
      [] state \in {"orgAdded", "inviteRead"} -> 2
      [] state = "userAdded" -> 3
      [] state = "created" -> 4
      [] OTHER -> 5

OnwardsOnly ==
    [][\A r \in Reqs : pc'[r] # pc[r] => Stage(pc'[r]) > Stage(pc[r])]_vars

LEMMA IInvWaits == IInv => WaitsAreShort
<1> SUFFICES ASSUME IInv, NEW r \in Reqs, NEW q \in Reqs, WaitsFor(r, q)
             PROVE  /\ q # r /\ pc[q] \in Working
                    /\ \A p \in Reqs : WaitsFor(r, p) => p = q
                    /\ \A p \in Reqs : WaitsFor(q, p) =>
                         p # r /\ \A s \in Reqs : ~WaitsFor(p, s)
  BY DEF WaitsAreShort
<1> USE DEF IInv, Base, TypeOK
<1>1. arg[r] \in Args
  BY DEF WaitsFor, ArgsKnown
<1>2. q # r /\ pc[q] \in Working
  BY DEF WaitsFor, HoldsSlug, HoldsEmail, Working
<1>3. ASSUME NEW p \in Reqs, WaitsFor(r, p) PROVE p = q
  BY <1>1, <1>3 DEF WaitsFor, Exclusive, Args
<1>4. ASSUME NEW p \in Reqs, WaitsFor(q, p)
      PROVE  p # r /\ \A s \in Reqs : ~WaitsFor(p, s)
  <2>1. pc[q] = "orgAdded" /\ pc[r] = "checked" /\ pc[p] = "userAdded"
    BY <1>4 DEF WaitsFor, HoldsSlug, HoldsEmail
  <2> QED
    BY <2>1 DEF WaitsFor
<1> QED
  BY <1>2, <1>3, <1>4

\* Nobody waits in a circle: whoever waits for a key waits for one transaction,
\* at most two links away from one that can commit.
THEOREM WaitsAreShortHolds == Spec => []WaitsAreShort
  BY IInvAlways, IInvWaits, PTL

LEMMA OnwardsStep ==
  ASSUME IInv, Next, NEW r \in Reqs, pc'[r] # pc[r]
  PROVE  Stage(pc'[r]) > Stage(pc[r])
<1> USE DEF IInv, Base, TypeOK, Goto, Stage
<1>1. ASSUME NEW q \in Reqs, Arrive(q) PROVE Stage(pc'[r]) > Stage(pc[r])
  BY <1>1 DEF Arrive, SignupCheck, CreateInvite, AcceptLookup, Begin
<1>2. ASSUME NEW q \in Reqs, Proceed(q) \/ RefusePassword(q)
      PROVE  Stage(pc'[r]) > Stage(pc[r])
  BY <1>2 DEF Proceed, AddOrg, AddUser, RefusePassword, Refusal, CommitSignup,
     AnswerSignup, CommitAccept, IssueTokens
<1>3. CASE Tick
  BY <1>3 DEF Tick, locals
<1>4. CASE Crash
  BY <1>4 DEF Crash, Working
<1> QED
  BY <1>1, <1>2, <1>3, <1>4 DEF Next

\* Every step of a request brings it nearer to its answer, so that each makes
\* at most five and none is repeated.
THEOREM OnwardsOnlyHolds == Spec => OnwardsOnly
<1>1. IInv /\ [Next]_vars =>
        [\A r \in Reqs : pc'[r] # pc[r] => Stage(pc'[r]) > Stage(pc[r])]_vars
  BY OnwardsStep
<1> QED
  BY <1>1, IInvAlways, PTL DEF Spec, OnwardsOnly
=============================================================================
