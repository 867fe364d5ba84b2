------------------------- MODULE AuthSessions_proofs -------------------------
(***************************************************************************)
(* Proofs about AuthSessions, for any users, any number of requests, any   *)
(* token lifetime and any number of crashes.                               *)
(***************************************************************************)
EXTENDS AuthSessions, FiniteSetTheorems, TLAPS

LEMMA TypeInit == Init => TypeOK
  BY AuthSessionsAssumption DEF Init, TypeOK

LEMMA SignType == ASSUME TypeOK, NEW u \in Users PROVE SignFor(u) \in Tok
  BY AuthSessionsAssumption DEF SignFor, Tok, TypeOK

LEMMA IssuedType == ASSUME TypeOK, NEW t \in Issued PROVE t \in Tok \union {NoTok}
  BY DEF TypeOK, Issued, Answered200

LEMMA TypeBegin ==
  ASSUME TypeOK, NEW r \in Reqs, NEW o \in {"login", "refresh", "logout"},
         NEW t \in Tok \union {NoTok}, Begin(r, o, t),
         NEW state \in {"sign", "401", "rotate", "revoke"}, Goto(r, state),
         entry' = entry \/ \E x \in Reqs : entry' = [entry EXCEPT ![r] = x]
  PROVE  TypeOK'
  BY DEF TypeOK, Begin, Goto, Working, Answers, Answered200

LEMMA TypeStep == TypeOK /\ [Next]_vars => TypeOK'
<1> SUFFICES ASSUME TypeOK, [Next]_vars PROVE TypeOK'
  OBVIOUS
<1> USE AuthSessionsAssumption
<1>1. ASSUME NEW r \in Reqs, Login(r) \/ LoginRefused(r) PROVE TypeOK'
  BY <1>1, TypeBegin DEF Login, LoginRefused
<1>2. ASSUME NEW r \in Reqs, NEW t \in Issued, Refresh(r, t) \/ Logout(r, t)
      PROVE  TypeOK'
  <2>1. t \in Tok \union {NoTok}
    BY IssuedType
  <2>2. CASE Refresh(r, t)
    <3>1. Begin(r, "refresh", t) /\ Find(r, t, ~Expired(t), "rotate")
      BY <2>2 DEF Refresh
    <3> QED
      BY <2>1, <3>1, TypeBegin DEF Find
  <2>3. CASE Logout(r, t)
    <3>1. Begin(r, "logout", t) /\ Find(r, t, TRUE, "revoke")
      BY <2>3 DEF Logout
    <3> QED
      BY <2>1, <3>1, TypeBegin DEF Find
  <2> QED
    BY <1>2, <2>2, <2>3
<1>3. ASSUME NEW r \in Reqs, Rotate(r) \/ Revoke(r) PROVE TypeOK'
  BY <1>3 DEF Rotate, Revoke, Goto, TypeOK, Working, Answers
<1>4. ASSUME NEW r \in Reqs, Sign(r) PROVE TypeOK'
  <2>1. SignFor(who[r]) \in Tok
    BY SignType DEF TypeOK
  <2> QED
    BY <1>4, <2>1 DEF Sign, Goto, TypeOK, Working, Answers
<1>5. ASSUME NEW r \in Reqs, Store(r) PROVE TypeOK'
  BY <1>5 DEF Store, Goto, TypeOK, Working, Answers
<1>6. CASE Tick
  BY <1>6 DEF Tick, TypeOK, locals
<1>7. ASSUME NEW u \in Users, DisableUser(u) PROVE TypeOK'
  BY <1>7 DEF DisableUser, TypeOK, locals
<1>8. CASE Crash
  BY <1>8 DEF Crash, TypeOK, Working, Answers
<1>9. CASE UNCHANGED vars
  BY <1>9 DEF vars, TypeOK, locals
<1> QED
  BY <1>1, <1>2, <1>3, <1>4, <1>5, <1>6, <1>7, <1>8, <1>9 DEF Next, Handle

\* The variables keep their types: in particular every row of the table holds a
\* well-formed token, and every answer is one of the four.
THEOREM TypeCorrect == Spec => []TypeOK
  BY TypeInit, TypeStep, PTL DEF Spec

-----------------------------------------------------------------------------
(***************************************************************************)
(* The inductive invariant.  It follows a row through its life: a row is   *)
(* in the table only once its request was answered, and holds the token    *)
(* that request signed (RowsOfAnswered); whoever found a row presented     *)
(* that token (EntriesWereRows); and once a request is past its delete,    *)
(* the row it found is gone (SpentRowsGone), for good, because only the    *)
(* request that names a row ever inserts it.                               *)
(***************************************************************************)
RowsOfAnswered ==
    \A x \in Reqs : row[x] # NoTok =>
        pc[x] = "ok" /\ op[x] # "logout" /\ row[x] = fresh[x]

EntriesWereRows ==
    \A r \in Reqs : entry[r] # NoRow =>
        /\ pc[entry[r]] = "ok" /\ op[entry[r]] # "logout"
        /\ presented[r] = fresh[entry[r]]

SpentRowsGone ==
    \A r \in Reqs :
        entry[r] # NoRow /\ pc[r] \in {"sign", "store", "ok", "500"}
        => row[entry[r]] = NoTok

HandlerLocals ==
    \A r \in Reqs :
        /\ pc[r] = "idle" => entry[r] = NoRow /\ before[r] = {}
        /\ pc[r] # "idle" => op[r] # "none"
        /\ pc[r] \in {"rotate", "revoke"} => entry[r] # NoRow
        /\ pc[r] \in {"rotate", "sign", "store"} => op[r] # "logout"
        /\ pc[r] = "revoke" => op[r] = "logout"
        /\ pc[r] = "store" \/ (pc[r] = "ok" /\ op[r] # "logout") => fresh[r] \in Tok

BeforeAnswered == \A r \in Reqs : \A q \in before[r] : pc[q] = "ok"

IInv ==
    /\ TypeOK
    /\ RowsOfAnswered
    /\ EntriesWereRows
    /\ SpentRowsGone
    /\ HandlerLocals
    /\ BeforeAnswered
    /\ ConsumedOnce
    /\ NoSilentLoss
    /\ FailureHasCause

LEMMA IInvInit == Init => IInv
  BY TypeInit DEF Init, IInv, RowsOfAnswered, EntriesWereRows, SpentRowsGone,
     HandlerLocals, BeforeAnswered, ConsumedOnce, NoSilentLoss, FailureHasCause,
     Issued, Answered200

\* NoSilentLoss, without the set of issued tokens.
LEMMA LossForm ==
  ASSUME TypeOK
  PROVE  NoSilentLoss <=>
           \A p \in Reqs : pc[p] = "ok" /\ op[p] # "logout" =>
             \/ \E x \in Reqs : row[x] = fresh[p]
             \/ \E r \in Reqs : presented[r] = fresh[p] /\ entry[r] # NoRow
  BY DEF NoSilentLoss, Issued, Answered200, Stored

\* A request's first step, whatever the route and the answer.
LEMMA IInvBegin ==
  ASSUME IInv, TypeOK', NEW r \in Reqs, NEW o \in {"login", "refresh", "logout"},
         NEW t \in Tok \union {NoTok}, Begin(r, o, t),
         NEW state \in {"sign", "401", "rotate", "revoke"}, Goto(r, state),
         state = "sign" => o = "login",
         state = "rotate" => o = "refresh",
         state = "revoke" => o = "logout",
         \/ entry' = entry /\ state \in {"sign", "401"}
         \/ /\ t # NoTok
            /\ state \in {"rotate", "revoke"}
            /\ \E x \in Reqs : row[x] = t /\ entry' = [entry EXCEPT ![r] = x]
  PROVE  IInv'
<1> USE AuthSessionsAssumption DEF IInv
<1>1. /\ pc[r] = "idle" /\ entry[r] = NoRow
      /\ pc' = [pc EXCEPT ![r] = state]
      /\ op' = [op EXCEPT ![r] = o]
      /\ presented' = [presented EXCEPT ![r] = t]
      /\ before' = [before EXCEPT ![r] = Answered200]
      /\ UNCHANGED <<row, fresh>>
  BY DEF Begin, Goto, HandlerLocals
<1>2. ASSUME NEW q \in Reqs, q # r
      PROVE  /\ pc'[q] = pc[q] /\ op'[q] = op[q] /\ presented'[q] = presented[q]
             /\ before'[q] = before[q] /\ entry'[q] = entry[q]
  BY <1>1, <1>2 DEF TypeOK
<1>3. pc'[r] = state /\ op'[r] = o /\ presented'[r] = t /\ before'[r] = Answered200
  BY <1>1 DEF TypeOK
<1>4. \/ entry'[r] = NoRow /\ state \in {"sign", "401"}
      \/ /\ state \in {"rotate", "revoke"} /\ t # NoTok
         /\ entry'[r] \in Reqs /\ row[entry'[r]] = t
  BY <1>1 DEF TypeOK
<1>5. RowsOfAnswered'
  BY <1>1, <1>2 DEF RowsOfAnswered
<1>6. ASSUME NEW x \in Reqs, row[x] # NoTok
      PROVE  x # r /\ pc[x] = "ok" /\ op[x] # "logout" /\ row[x] = fresh[x]
  BY <1>1, <1>6 DEF RowsOfAnswered
<1>7. EntriesWereRows'
  <2> SUFFICES ASSUME NEW q \in Reqs, entry'[q] # NoRow
               PROVE  /\ pc'[entry'[q]] = "ok" /\ op'[entry'[q]] # "logout"
                      /\ presented'[q] = fresh[entry'[q]]
    BY <1>1 DEF EntriesWereRows
  <2>1. CASE q = r
    BY <2>1, <1>2, <1>3, <1>4, <1>6
  <2>2. CASE q # r
    <3>1. /\ entry[q] \in Reqs /\ entry[q] # r
          /\ pc[entry[q]] = "ok" /\ op[entry[q]] # "logout"
          /\ presented[q] = fresh[entry[q]]
      BY <2>2, <1>1, <1>2 DEF EntriesWereRows, TypeOK
    <3> QED
      BY <3>1, <2>2, <1>2
  <2> QED
    BY <2>1, <2>2
<1>8. SpentRowsGone'
  BY <1>1, <1>2, <1>3, <1>4 DEF SpentRowsGone
<1>9. HandlerLocals'
  BY <1>1, <1>2, <1>3, <1>4 DEF HandlerLocals
<1>10. BeforeAnswered'
  <2> SUFFICES ASSUME NEW p \in Reqs, NEW q \in before'[p] PROVE pc'[q] = "ok"
    BY DEF BeforeAnswered
  <2>1. q \in Reqs /\ pc[q] = "ok"
    BY <1>2, <1>3 DEF BeforeAnswered, Answered200, TypeOK
  <2> QED
    BY <2>1, <1>1, <1>2
<1>11. ConsumedOnce'
  <2> SUFFICES ASSUME NEW q \in Reqs, NEW p \in Reqs,
                      q \in before'[p], entry'[q] # NoRow
               PROVE  entry'[p] # entry'[q]
    BY DEF ConsumedOnce
  <2>1. q # r /\ entry'[q] = entry[q] /\ pc[q] = "ok"
    BY <1>1, <1>2, <1>3 DEF BeforeAnswered, Answered200
  <2>2. CASE p = r
    BY <2>1, <2>2, <1>4 DEF SpentRowsGone
  <2>3. CASE p # r
    BY <2>1, <2>3, <1>2 DEF ConsumedOnce
  <2> QED
    BY <2>2, <2>3
<1>12. NoSilentLoss'
  <2> SUFFICES ASSUME NEW p \in Reqs, pc'[p] = "ok", op'[p] # "logout"
               PROVE  \/ \E x \in Reqs : row[x] = fresh[p]
                      \/ \E q \in Reqs : presented'[q] = fresh[p] /\ entry'[q] # NoRow
    BY <1>1, LossForm DEF NoSilentLoss, Issued, Answered200, Stored
  <2>1. \/ \E x \in Reqs : row[x] = fresh[p]
        \/ \E q \in Reqs : presented[q] = fresh[p] /\ entry[q] # NoRow
    BY <1>2, <1>3, LossForm
  <2> QED
    BY <2>1, <1>1, <1>2
<1>13. FailureHasCause'
  BY <1>1, <1>2, <1>3 DEF FailureHasCause, Answered200
<1> QED
  BY <1>5, <1>7, <1>8, <1>9, <1>10, <1>11, <1>12, <1>13

\* db.delete of the row a request found, and its commit.
LEMMA IInvDelete ==
  ASSUME IInv, TypeOK', NEW r \in Reqs, NEW state \in {"sign", "ok"},
         pc[r] \in {"rotate", "revoke"},
         pc[r] = "rotate" <=> state = "sign",
         row' = [row EXCEPT ![entry[r]] = NoTok], Goto(r, state),
         UNCHANGED <<who, op, presented, entry, fresh, before>>
  PROVE  IInv'
<1> USE AuthSessionsAssumption DEF IInv
<1> DEFINE e == entry[r]
<1>1. /\ e \in Reqs /\ e # r /\ pc[e] = "ok" /\ presented[r] = fresh[e]
      /\ op[r] = "logout" <=> state = "ok"
  BY DEF HandlerLocals, EntriesWereRows, TypeOK
<1>2. /\ pc'[r] = state
      /\ \A q \in Reqs : q # r => pc'[q] = pc[q]
      /\ row'[e] = NoTok
      /\ \A x \in Reqs : x # e => row'[x] = row[x]
      /\ UNCHANGED <<op, presented, entry, fresh, before>>
  BY <1>1 DEF Goto, TypeOK
<1>3. RowsOfAnswered'
  BY <1>1, <1>2 DEF RowsOfAnswered
<1>4. EntriesWereRows'
  <2> SUFFICES ASSUME NEW q \in Reqs, entry[q] # NoRow
               PROVE  pc'[entry[q]] = "ok"
    BY <1>2 DEF EntriesWereRows
  <2>1. entry[q] \in Reqs /\ pc[entry[q]] = "ok"
    BY DEF EntriesWereRows, TypeOK
  <2> QED
    BY <2>1, <1>2
<1>5. SpentRowsGone'
  BY <1>1, <1>2 DEF SpentRowsGone, TypeOK
<1>6. HandlerLocals'
  BY <1>1, <1>2 DEF HandlerLocals
<1>7. BeforeAnswered'
  <2> SUFFICES ASSUME NEW p \in Reqs, NEW q \in before[p] PROVE pc'[q] = "ok"
    BY <1>2 DEF BeforeAnswered
  <2>1. q \in Reqs /\ pc[q] = "ok"
    BY DEF BeforeAnswered, TypeOK
  <2> QED
    BY <2>1, <1>2
<1>8. ConsumedOnce'
  BY <1>2 DEF ConsumedOnce
<1>9. NoSilentLoss'
  <2> SUFFICES ASSUME NEW p \in Reqs, pc'[p] = "ok", op[p] # "logout"
               PROVE  \/ \E x \in Reqs : row'[x] = fresh[p]
                      \/ \E q \in Reqs : presented[q] = fresh[p] /\ entry[q] # NoRow
    BY <1>2 DEF NoSilentLoss, Issued, Answered200, Stored
  <2>1. p # r /\ pc[p] = "ok"
    BY <1>1, <1>2
  <2>2. CASE \E q \in Reqs : presented[q] = fresh[p] /\ entry[q] # NoRow
    BY <2>2
  <2>3. CASE \E x \in Reqs : row[x] = fresh[p]
    <3>1. PICK x \in Reqs : row[x] = fresh[p]
      BY <2>3
    <3>2. CASE x = e
      <4>1. fresh[p] # NoTok
        BY <2>1 DEF HandlerLocals
      <4>2. presented[r] = fresh[p]
        BY <3>1, <3>2, <4>1, <1>1 DEF RowsOfAnswered
      <4> QED
        BY <4>2, <1>1
    <3>3. CASE x # e
      BY <3>1, <3>3, <1>2
    <3> QED
      BY <3>2, <3>3
  <2> QED
    BY <2>1, <2>2, <2>3, LossForm
<1>10. FailureHasCause'
  <2> SUFFICES ASSUME NEW p \in Reqs, pc'[p] = "500"
               PROVE  \E q \in Reqs \ {p} : pc'[q] = "ok" /\ fresh[q] = fresh[p]
    BY <1>2 DEF FailureHasCause, Answered200
  <2>1. p # r /\ pc[p] = "500"
    BY <1>2
  <2>2. PICK q \in Reqs \ {p} : pc[q] = "ok" /\ fresh[q] = fresh[p]
    BY <2>1 DEF FailureHasCause, Answered200
  <2> QED
    BY <2>2, <1>2
<1> QED
  BY <1>3, <1>4, <1>5, <1>6, <1>7, <1>8, <1>9, <1>10

LEMMA IInvSign ==
  ASSUME IInv, TypeOK', NEW r \in Reqs, Sign(r)
  PROVE  IInv'
<1> USE AuthSessionsAssumption DEF IInv
<1>1. /\ pc[r] = "sign" /\ pc'[r] = "store" /\ fresh'[r] \in Tok
      /\ \A q \in Reqs : q # r => pc'[q] = pc[q] /\ fresh'[q] = fresh[q]
      /\ UNCHANGED <<row, op, presented, entry, before>>
  <2>1. SignFor(who[r]) \in Tok
    BY SignType DEF TypeOK
  <2> QED
    BY <2>1 DEF Sign, Goto, TypeOK
<1>2. RowsOfAnswered'
  BY <1>1 DEF RowsOfAnswered
<1>3. EntriesWereRows'
  <2> SUFFICES ASSUME NEW q \in Reqs, entry[q] # NoRow
               PROVE  /\ pc'[entry[q]] = "ok" /\ op[entry[q]] # "logout"
                      /\ presented[q] = fresh'[entry[q]]
    BY <1>1 DEF EntriesWereRows
  <2>1. /\ entry[q] \in Reqs /\ pc[entry[q]] = "ok" /\ op[entry[q]] # "logout"
        /\ presented[q] = fresh[entry[q]]
    BY DEF EntriesWereRows, TypeOK
  <2> QED
    BY <2>1, <1>1
<1>4. SpentRowsGone' /\ HandlerLocals'
  BY <1>1 DEF SpentRowsGone, HandlerLocals
<1>5. BeforeAnswered'
  <2> SUFFICES ASSUME NEW p \in Reqs, NEW q \in before[p] PROVE pc'[q] = "ok"
    BY <1>1 DEF BeforeAnswered
  <2>1. q \in Reqs /\ pc[q] = "ok"
    BY DEF BeforeAnswered, TypeOK
  <2> QED
    BY <2>1, <1>1
<1>6. ConsumedOnce'
  BY <1>1 DEF ConsumedOnce
<1>7. NoSilentLoss'
  <2> SUFFICES ASSUME NEW p \in Reqs, pc'[p] = "ok", op[p] # "logout"
               PROVE  \/ \E x \in Reqs : row[x] = fresh'[p]
                      \/ \E q \in Reqs : presented[q] = fresh'[p] /\ entry[q] # NoRow
    BY <1>1 DEF NoSilentLoss, Issued, Answered200, Stored
  <2>1. pc[p] = "ok" /\ fresh'[p] = fresh[p]
    BY <1>1
  <2> QED
    BY <2>1, LossForm
<1>8. FailureHasCause'
  <2> SUFFICES ASSUME NEW p \in Reqs, pc'[p] = "500"
               PROVE  \E q \in Reqs \ {p} : pc'[q] = "ok" /\ fresh'[q] = fresh'[p]
    BY DEF FailureHasCause, Answered200
  <2>1. p # r /\ pc[p] = "500"
    BY <1>1
  <2>2. PICK q \in Reqs \ {p} : pc[q] = "ok" /\ fresh[q] = fresh[p]
    BY <2>1 DEF FailureHasCause, Answered200
  <2> QED
    BY <2>1, <2>2, <1>1
<1> QED
  BY <1>2, <1>3, <1>4, <1>5, <1>6, <1>7, <1>8

LEMMA IInvStore ==
  ASSUME IInv, TypeOK', NEW r \in Reqs, Store(r)
  PROVE  IInv'
<1> USE AuthSessionsAssumption DEF IInv
<1>1. /\ pc[r] = "store" /\ fresh[r] \in Tok /\ op[r] # "logout"
      /\ \A q \in Reqs : q # r => pc'[q] = pc[q]
      /\ UNCHANGED <<op, presented, entry, fresh, before>>
      /\ row[r] = NoTok
  BY DEF Store, Goto, HandlerLocals, RowsOfAnswered, TypeOK
<1>2. \/ pc'[r] = "500" /\ row' = row /\ Stored(fresh[r])
      \/ /\ pc'[r] = "ok" /\ row'[r] = fresh[r]
         /\ \A x \in Reqs : x # r => row'[x] = row[x]
  BY DEF Store, Goto, TypeOK
<1>3. RowsOfAnswered'
  BY <1>1, <1>2 DEF RowsOfAnswered
<1>4. EntriesWereRows'
  <2> SUFFICES ASSUME NEW q \in Reqs, entry[q] # NoRow
               PROVE  pc'[entry[q]] = "ok"
    BY <1>1 DEF EntriesWereRows
  <2>1. entry[q] \in Reqs /\ pc[entry[q]] = "ok"
    BY DEF EntriesWereRows, TypeOK
  <2> QED
    BY <2>1, <1>1
<1>5. SpentRowsGone'
  <2> SUFFICES ASSUME NEW q \in Reqs, entry[q] # NoRow,
                      pc'[q] \in {"sign", "store", "ok", "500"}
               PROVE  row'[entry[q]] = NoTok
    BY <1>1 DEF SpentRowsGone
  <2>1. entry[q] \in Reqs /\ entry[q] # r
    BY <1>1 DEF EntriesWereRows, TypeOK
  <2>2. row[entry[q]] = NoTok
    BY <1>1 DEF SpentRowsGone
  <2> QED
    BY <2>1, <2>2, <1>2
<1>6. HandlerLocals'
  BY <1>1, <1>2 DEF HandlerLocals
<1>7. BeforeAnswered'
  <2> SUFFICES ASSUME NEW p \in Reqs, NEW q \in before[p] PROVE pc'[q] = "ok"
    BY <1>1 DEF BeforeAnswered
  <2>1. q \in Reqs /\ pc[q] = "ok"
    BY DEF BeforeAnswered, TypeOK
  <2> QED
    BY <2>1, <1>1
<1>8. ConsumedOnce'
  BY <1>1 DEF ConsumedOnce
<1>9. NoSilentLoss'
  <2> SUFFICES ASSUME NEW p \in Reqs, pc'[p] = "ok", op[p] # "logout"
               PROVE  \/ \E x \in Reqs : row'[x] = fresh[p]
                      \/ \E q \in Reqs : presented[q] = fresh[p] /\ entry[q] # NoRow
    BY <1>1 DEF NoSilentLoss, Issued, Answered200, Stored
  <2>1. CASE p = r
    BY <2>1, <1>2
  <2>2. CASE p # r
    <3>1. \/ \E x \in Reqs : row[x] = fresh[p]
          \/ \E q \in Reqs : presented[q] = fresh[p] /\ entry[q] # NoRow
      BY <2>2, <1>1, LossForm
    <3>2. fresh[p] # NoTok
      BY <2>2, <1>1 DEF HandlerLocals
    <3> QED
      BY <3>1, <3>2, <1>1, <1>2
  <2> QED
    BY <2>1, <2>2
<1>10. FailureHasCause'
  <2> SUFFICES ASSUME NEW p \in Reqs, pc'[p] = "500"
               PROVE  \E q \in Reqs \ {p} : pc'[q] = "ok" /\ fresh[q] = fresh[p]
    BY <1>1 DEF FailureHasCause, Answered200
  <2>1. CASE p = r
    <3>1. PICK x \in Reqs : row[x] = fresh[r]
      BY <2>1, <1>2 DEF Stored
    <3>2. x # r /\ pc[x] = "ok" /\ fresh[x] = fresh[r]
      BY <3>1, <1>1 DEF RowsOfAnswered
    <3> QED
      BY <2>1, <3>2, <1>1
  <2>2. CASE p # r
    <3>1. PICK q \in Reqs \ {p} : pc[q] = "ok" /\ fresh[q] = fresh[p]
      BY <2>2, <1>1 DEF FailureHasCause, Answered200
    <3> QED
      BY <3>1, <1>1
  <2> QED
    BY <2>1, <2>2
<1> QED
  BY <1>3, <1>4, <1>5, <1>6, <1>7, <1>8, <1>9, <1>10

LEMMA IInvCrash ==
  ASSUME IInv, TypeOK', Crash
  PROVE  IInv'
<1> USE AuthSessionsAssumption DEF IInv
<1>1. /\ \A q \in Reqs : pc'[q] = IF pc[q] \in Working THEN "lost" ELSE pc[q]
      /\ UNCHANGED <<row, op, presented, entry, fresh, before>>
  BY DEF Crash
<1>2. \A q \in Reqs : /\ pc[q] = "ok" <=> pc'[q] = "ok"
                      /\ pc'[q] = pc[q] \/ (pc'[q] = "lost" /\ pc[q] # "idle")
  BY <1>1 DEF Working
<1>3. RowsOfAnswered' /\ SpentRowsGone' /\ HandlerLocals' /\ ConsumedOnce'
  BY <1>1, <1>2 DEF RowsOfAnswered, SpentRowsGone, HandlerLocals, ConsumedOnce
<1>4. EntriesWereRows' /\ BeforeAnswered'
  <2>1. \A q \in Reqs : /\ entry[q] # NoRow => entry[q] \in Reqs
                        /\ before[q] \subseteq Reqs
    BY DEF TypeOK
  <2> QED
    BY <1>1, <1>2, <2>1 DEF EntriesWereRows, BeforeAnswered
<1>5. NoSilentLoss'
  BY <1>1, <1>2 DEF NoSilentLoss, Issued, Answered200, Stored
<1>6. FailureHasCause'
  BY <1>1, <1>2 DEF FailureHasCause, Answered200
<1> QED
  BY <1>3, <1>4, <1>5, <1>6

\* Ticks, operators' changes and stuttering leave the requests and rows alone.
LEMMA IInvIdle ==
  ASSUME IInv, TypeOK', UNCHANGED <<row, locals>>
  PROVE  IInv'
  BY DEF IInv, locals, RowsOfAnswered, EntriesWereRows, SpentRowsGone, HandlerLocals,
     BeforeAnswered, ConsumedOnce, NoSilentLoss, FailureHasCause, Issued,
     Answered200, Stored

LEMMA IInvFind ==
  ASSUME IInv, TypeOK', NEW r \in Reqs, NEW t \in Issued,
         Refresh(r, t) \/ Logout(r, t)
  PROVE  IInv'
<1>1. t \in Tok /\ t # NoTok
  BY AuthSessionsAssumption DEF IInv, Issued, Answered200, HandlerLocals
<1>2. CASE Refresh(r, t)
  <2>1. Begin(r, "refresh", t) /\ Find(r, t, ~Expired(t), "rotate")
    BY <1>2 DEF Refresh
  <2>2. CASE Goto(r, "rotate") /\ \E x \in Reqs : row[x] = t /\ entry' = [entry EXCEPT ![r] = x]
    BY <1>1, <2>1, <2>2, IInvBegin
  <2>3. CASE Goto(r, "401") /\ entry' = entry
    BY <1>1, <2>1, <2>3, IInvBegin
  <2> QED
    BY <2>1, <2>2, <2>3 DEF Find
<1>3. CASE Logout(r, t)
  <2>1. Begin(r, "logout", t) /\ Find(r, t, TRUE, "revoke")
    BY <1>3 DEF Logout
  <2>2. CASE Goto(r, "revoke") /\ \E x \in Reqs : row[x] = t /\ entry' = [entry EXCEPT ![r] = x]
    BY <1>1, <2>1, <2>2, IInvBegin
  <2>3. CASE Goto(r, "401") /\ entry' = entry
    BY <1>1, <2>1, <2>3, IInvBegin
  <2> QED
    BY <2>1, <2>2, <2>3 DEF Find
<1> QED
  BY <1>2, <1>3

LEMMA IInvStep == IInv /\ [Next]_vars => IInv'
<1> SUFFICES ASSUME IInv, [Next]_vars PROVE IInv'
  OBVIOUS
<1>0. TypeOK'
  BY TypeStep DEF IInv
<1>1. ASSUME NEW r \in Reqs, Login(r) PROVE IInv'
  BY <1>0, <1>1, IInvBegin DEF Login
<1>2. ASSUME NEW r \in Reqs, LoginRefused(r) PROVE IInv'
  BY <1>0, <1>2, IInvBegin DEF LoginRefused
<1>3. ASSUME NEW r \in Reqs, NEW t \in Issued, Refresh(r, t) \/ Logout(r, t)
      PROVE  IInv'
  BY <1>0, <1>3, IInvFind
<1>4. ASSUME NEW r \in Reqs, Rotate(r) \/ Revoke(r) PROVE IInv'
  BY <1>0, <1>4, IInvDelete DEF Rotate, Revoke
<1>5. ASSUME NEW r \in Reqs, Sign(r) PROVE IInv'
  BY <1>0, <1>5, IInvSign
<1>6. ASSUME NEW r \in Reqs, Store(r) PROVE IInv'
  BY <1>0, <1>6, IInvStore
<1>7. CASE Crash
  BY <1>0, <1>7, IInvCrash
<1>8. ASSUME \/ Tick \/ UNCHANGED vars
             \/ \E u \in Users : DisableUser(u)
      PROVE  IInv'
  BY <1>0, <1>8, IInvIdle DEF Tick, DisableUser, vars
<1> QED
  BY <1>1, <1>2, <1>3, <1>4, <1>5, <1>6, <1>7, <1>8 DEF Next, Handle

LEMMA IInvAlways == Spec => []IInv
  BY IInvInit, IInvStep, PTL DEF Spec

\* Calls that do not overlap consume a session row at most once.
THEOREM ConsumedOnceHolds == Spec => []ConsumedOnce
  BY IInvAlways, PTL DEF IInv

\* A refresh token that was handed out stays in the table until some call
\* presents it.
THEOREM NoSilentLossHolds == Spec => []NoSilentLoss
  BY IInvAlways, PTL DEF IInv

\* A 500 of login or refresh is always the collision of two tokens signed for
\* one user in one second.
THEOREM FailureHasCauseHolds == Spec => []FailureHasCause
  BY IInvAlways, PTL DEF IInv

-----------------------------------------------------------------------------
(***************************************************************************)
(* Revocation is for good.  A dead token can come back only by being       *)
(* stored, so it would have to be signed first; but a token signed now     *)
(* expires later than any dead one.                                        *)
(***************************************************************************)
LEMMA DeadStep ==
  ASSUME IInv, [Next]_vars, NEW t \in Issued, Dead(t)
  PROVE  Dead(t)'
<1> USE AuthSessionsAssumption DEF IInv
<1>0. t \in Tok /\ t # NoTok
  BY DEF Issued, Answered200, HandlerLocals
<1>1. ASSUME UNCHANGED <<now, row, fresh>>,
             \A q \in Reqs : pc'[q] = "store" => pc[q] = "store"
      PROVE  Dead(t)'
  BY <1>1 DEF Dead, Stored
<1>2. ASSUME NEW r \in Reqs, NEW o, NEW s, Begin(r, o, s), NEW state, Goto(r, state),
             state # "store"
      PROVE  Dead(t)'
  BY <1>1, <1>2 DEF Begin, Goto, TypeOK
<1>3. ASSUME NEW r \in Reqs, Login(r) \/ LoginRefused(r) PROVE Dead(t)'
  BY <1>2, <1>3 DEF Login, LoginRefused
<1>4. ASSUME NEW r \in Reqs, NEW s \in Issued, Refresh(r, s) \/ Logout(r, s)
      PROVE  Dead(t)'
  BY <1>2, <1>4 DEF Refresh, Logout, Find
<1>5. ASSUME NEW r \in Reqs, Rotate(r) \/ Revoke(r) PROVE Dead(t)'
  BY <1>0, <1>5 DEF Rotate, Revoke, Goto, Dead, Stored, TypeOK
<1>6. ASSUME NEW r \in Reqs, Sign(r) PROVE Dead(t)'
  <2>1. SignFor(who[r]) # t
    BY DEF SignFor, Dead, TypeOK
  <2> QED
    BY <1>6, <2>1 DEF Sign, Goto, Dead, Stored, TypeOK
<1>7. ASSUME NEW r \in Reqs, Store(r) PROVE Dead(t)'
  BY <1>7 DEF Store, Goto, Dead, Stored, TypeOK
<1>8. CASE Tick
  BY <1>0, <1>8 DEF Tick, locals, Dead, Stored, Tok, TypeOK
<1>9. CASE Crash
  BY <1>1, <1>9 DEF Crash, Working
<1>10. ASSUME \/ UNCHANGED vars
              \/ \E u \in Users : DisableUser(u)
       PROVE  Dead(t)'
  BY <1>1, <1>10 DEF DisableUser, vars, locals
<1> QED
  BY <1>3, <1>4, <1>5, <1>6, <1>7, <1>8, <1>9, <1>10 DEF Next, Handle

\* A token that was handed out, has left the table and was signed in an earlier
\* second is never stored again.
THEOREM RevokedStaysRevokedHolds == Spec => RevokedStaysRevoked
<1>1. IInv /\ [Next]_vars => [\A t \in Issued : Dead(t) => Dead(t)']_vars
  BY DeadStep
<1> QED
  BY <1>1, IInvAlways, PTL DEF Spec, RevokedStaysRevoked

-----------------------------------------------------------------------------
(***************************************************************************)
(* The accounts of a user.  A refresh deletes its row before it inserts    *)
(* the next, so for a while a session is in no row but in the hands of a   *)
(* handler.  Holders counts both, and the rotations that are bound to      *)
(* delete nothing because another call has found the same row; Budget      *)
(* counts what justifies them.  Every step that adds a holder adds to the  *)
(* budget, or moves the session: a rotation whose row nobody else found    *)
(* still finds it in the table (GoneBecauseSpent) and takes its place.     *)
(* No bound on the number of requests is needed: at any time only finitely *)
(* many have arrived.                                                      *)
(***************************************************************************)
SharedRow(r) == entry[r] # NoRow /\ \E q \in Reqs \ {r} : entry[q] = entry[r]

Holders(u) ==
    {r \in Reqs : /\ who[r] = u
                  /\ \/ row[r] # NoTok
                     \/ op[r] = "refresh" /\ pc[r] \in {"sign", "store"}
                     \/ op[r] = "refresh" /\ pc[r] = "rotate" /\ SharedRow(r)}

Budget(u) ==
    {r \in Reqs : /\ who[r] = u
                  /\ \/ op[r] = "login" /\ pc[r] = "ok"
                     \/ op[r] = "refresh" /\ SharedRow(r)}

Started == {r \in Reqs : pc[r] # "idle"}

\* Users hold, and present, tokens of their own.
OwnTokens ==
    \A r \in Reqs :
        /\ fresh[r] # NoTok => fresh[r].sub = who[r]
        /\ entry[r] # NoRow => who[entry[r]] = who[r]

\* A row that is gone was found by a call that is past its delete.
GoneBecauseSpent ==
    \A x \in Reqs : pc[x] = "ok" /\ op[x] # "logout" /\ row[x] = NoTok =>
        \E q \in Reqs : entry[q] = x /\ pc[q] \notin {"rotate", "revoke"}

AccountsBalance ==
    \A u \in Users : Cardinality(Holders(u)) <= Cardinality(Budget(u))

AInv ==
    /\ IInv
    /\ IsFiniteSet(Started)
    /\ OwnTokens
    /\ GoneBecauseSpent
    /\ AccountsBalance

\* Adding to a set only what is added to one that is no smaller.
LEMMA GrowTogether ==
  ASSUME NEW H, NEW H1, NEW B, NEW B1,
         IsFiniteSet(H), IsFiniteSet(B1), B \subseteq B1,
         Cardinality(H) <= Cardinality(B), H1 \subseteq H \union (B1 \ B)
  PROVE  Cardinality(H1) <= Cardinality(B1)
<1> DEFINE D == B1 \ B
<1>1. IsFiniteSet(B) /\ Cardinality(B) \in Nat /\ Cardinality(H) \in Nat
  BY FS_Subset, FS_CardinalityType
<1>2. B1 \intersect B = B
  OBVIOUS
<1>3. IsFiniteSet(D) /\ Cardinality(D) = Cardinality(B1) - Cardinality(B)
  BY <1>2, FS_Difference
<1>4. /\ IsFiniteSet(H \union D)
      /\ Cardinality(H \union D) =
           Cardinality(H) + Cardinality(D) - Cardinality(H \intersect D)
  BY <1>3, FS_Union
<1>5. Cardinality(H \intersect D) \in Nat /\ Cardinality(D) \in Nat
      /\ Cardinality(B1) \in Nat
  BY <1>3, FS_Intersection, FS_CardinalityType
<1>6. IsFiniteSet(H1) /\ Cardinality(H1) <= Cardinality(H \union D)
  BY <1>4, FS_Subset
<1>7. Cardinality(H1) \in Nat
  BY <1>6, FS_CardinalityType
<1> QED
  BY <1>1, <1>3, <1>4, <1>5, <1>6, <1>7

\* One element of a finite set making place for another.
LEMMA Replace ==
  ASSUME NEW H, NEW H1, NEW e \in H, NEW r, IsFiniteSet(H),
         H1 \subseteq (H \ {e}) \union {r}
  PROVE  Cardinality(H1) <= Cardinality(H)
<1>1. IsFiniteSet(H \ {e}) /\ Cardinality(H \ {e}) = Cardinality(H) - 1
  BY FS_RemoveElement
<1>2. /\ IsFiniteSet((H \ {e}) \union {r})
      /\ Cardinality((H \ {e}) \union {r}) <= Cardinality(H \ {e}) + 1
  BY <1>1, FS_AddElement, FS_CardinalityType
<1>3. IsFiniteSet(H1) /\ Cardinality(H1) <= Cardinality((H \ {e}) \union {r})
  BY <1>2, FS_Subset
<1> QED
  BY <1>1, <1>2, <1>3, FS_CardinalityType

LEMMA AccountsFinite ==
  ASSUME IInv, IsFiniteSet(Started), NEW u
  PROVE  IsFiniteSet(Holders(u)) /\ IsFiniteSet(Budget(u))
<1>1. Holders(u) \subseteq Started /\ Budget(u) \subseteq Started
  BY DEF IInv, HandlerLocals, RowsOfAnswered, Holders, Budget, Started, SharedRow
<1> QED
  BY <1>1, FS_Subset

\* Steps that add no holder without adding to the budget.
LEMMA KeepBalance ==
  ASSUME AInv, IInv', IsFiniteSet(Started)',
         \A u \in Users : /\ Budget(u) \subseteq Budget(u)'
                          /\ Holders(u)' \subseteq
                               Holders(u) \union (Budget(u)' \ Budget(u))
  PROVE  AccountsBalance'
<1> SUFFICES ASSUME NEW u \in Users
             PROVE  Cardinality(Holders(u)') <= Cardinality(Budget(u)')
  BY DEF AccountsBalance
<1>1. IsFiniteSet(Holders(u)) /\ IsFiniteSet(Budget(u)')
  <2>1. Budget(u)' \subseteq Started'
    BY DEF IInv, HandlerLocals, Budget, Started, SharedRow
  <2> QED
    BY <2>1, AccountsFinite, FS_Subset DEF AInv
<1>2. Cardinality(Holders(u)) <= Cardinality(Budget(u))
  BY DEF AInv, AccountsBalance
<1> QED
  BY <1>1, <1>2, GrowTogether

\* One more request, at most, has arrived after a step.
LEMMA FiniteAfter ==
  ASSUME IsFiniteSet(Started), NEW r, Started' \subseteq Started \union {r}
  PROVE  IsFiniteSet(Started)'
  BY FS_AddElement, FS_Subset

\* A request that arrives and finds no row, or looks for none.
LEMMA AccBegin ==
  ASSUME AInv, IInv', NEW r \in Reqs, NEW o, NEW t, Begin(r, o, t), entry' = entry,
         NEW state \in {"sign", "401"}, Goto(r, state), state = "sign" => o = "login"
  PROVE  AInv'
<1> USE AuthSessionsAssumption DEF AInv, IInv, TypeOK
<1>1. /\ pc[r] = "idle" /\ entry[r] = NoRow /\ row[r] = NoTok
      /\ pc'[r] = state /\ op'[r] = o
      /\ UNCHANGED <<row, who, fresh, entry>>
  BY DEF Begin, Goto, HandlerLocals, RowsOfAnswered
<1>2. \A q \in Reqs : q # r => pc'[q] = pc[q] /\ op'[q] = op[q]
  BY DEF Begin, Goto
<1>3. IsFiniteSet(Started)'
  <2>1. Started' \subseteq Started \union {r}
    BY <1>2 DEF Started
  <2> QED
    BY <2>1, FiniteAfter
<1>4. OwnTokens'
  BY <1>1 DEF OwnTokens
<1>5. GoneBecauseSpent'
  BY <1>1, <1>2 DEF GoneBecauseSpent
<1>6. ASSUME NEW u \in Users
      PROVE  Budget(u) \subseteq Budget(u)' /\ Holders(u)' \subseteq Holders(u)
  BY <1>1, <1>2 DEF Budget, Holders, SharedRow
<1>7. AccountsBalance'
  BY <1>3, <1>6, KeepBalance
<1> QED
  BY <1>3, <1>4, <1>5, <1>7

\* A request that arrives and finds the row of x: whoever shares a row from now
\* on is in the budget from now on.
LEMMA AccFind ==
  ASSUME AInv, IInv', NEW r \in Reqs, NEW x \in Reqs, NEW o \in {"refresh", "logout"},
         Begin(r, o, row[x]), row[x] \in Tok, row[x].sub = who[r],
         entry' = [entry EXCEPT ![r] = x],
         NEW state \in {"rotate", "revoke"}, Goto(r, state)
  PROVE  AInv'
<1> USE AuthSessionsAssumption DEF AInv, IInv, TypeOK
<1>1. /\ pc[r] = "idle" /\ entry[r] = NoRow /\ row[r] = NoTok
      /\ pc'[r] = state /\ op'[r] = o /\ entry'[r] = x
      /\ UNCHANGED <<row, who, fresh>>
  BY DEF Begin, Goto, HandlerLocals, RowsOfAnswered
<1>2. \A q \in Reqs : q # r => pc'[q] = pc[q] /\ op'[q] = op[q] /\ entry'[q] = entry[q]
  BY DEF Begin, Goto
<1>3. IsFiniteSet(Started)'
  <2>1. Started' \subseteq Started \union {r}
    BY <1>2 DEF Started
  <2> QED
    BY <2>1, FiniteAfter
<1>4. OwnTokens'
  <2>1. row[x] = fresh[x] /\ who[x] = who[r]
    BY DEF RowsOfAnswered, OwnTokens
  <2> QED
    BY <2>1, <1>1, <1>2 DEF OwnTokens
<1>5. GoneBecauseSpent'
  <2> SUFFICES ASSUME NEW y \in Reqs, pc'[y] = "ok", op'[y] # "logout", row[y] = NoTok
               PROVE  \E q \in Reqs : entry'[q] = y /\ pc'[q] \notin {"rotate", "revoke"}
    BY <1>1 DEF GoneBecauseSpent
  <2>1. y # r /\ pc[y] = "ok" /\ op[y] # "logout"
    BY <1>1, <1>2
  <2>2. PICK q \in Reqs : entry[q] = y /\ pc[q] \notin {"rotate", "revoke"}
    BY <2>1 DEF GoneBecauseSpent
  <2> QED
    BY <2>2, <1>1, <1>2
<1>6. ASSUME NEW q \in Reqs, SharedRow(q) PROVE SharedRow(q)'
  <2>1. PICK p \in Reqs \ {q} : entry[p] = entry[q] /\ entry[q] # NoRow
    BY <1>6 DEF SharedRow
  <2> QED
    BY <2>1, <1>1, <1>2 DEF SharedRow
<1>7. ASSUME NEW u \in Users
      PROVE  /\ Budget(u) \subseteq Budget(u)'
             /\ Holders(u)' \subseteq Holders(u) \union (Budget(u)' \ Budget(u))
  <2>1. ASSUME NEW q \in Budget(u) PROVE q \in Budget(u)'
    <3>1. q \in Reqs /\ q # r /\ who'[q] = u /\ pc'[q] = pc[q] /\ op'[q] = op[q]
      BY <1>1, <1>2 DEF Budget, SharedRow
    <3> QED
      BY <3>1, <1>6 DEF Budget
  <2>2. ASSUME NEW q \in Holders(u)', q \notin Holders(u)
        PROVE  q \in Budget(u)' \ Budget(u)
    <3>1. q \in Reqs /\ who[q] = u /\ row[q] = NoTok /\ op'[q] = "refresh"
      BY <2>2, <1>1 DEF Holders
    <3>2. pc'[q] = "rotate" /\ SharedRow(q)'
      BY <2>2, <3>1, <1>1, <1>2 DEF Holders
    <3>3. ~SharedRow(q) /\ (q # r => op[q] = "refresh")
      BY <2>2, <3>1, <3>2, <1>1, <1>2 DEF Holders, SharedRow
    <3> QED
      BY <3>1, <3>2, <3>3, <1>1, <1>2 DEF Budget
  <2> QED
    BY <2>1, <2>2
<1>8. AccountsBalance'
  BY <1>3, <1>7, KeepBalance
<1> QED
  BY <1>3, <1>4, <1>5, <1>8

\* What a delete leaves as it is, whichever handler makes it.
LEMMA AccDeleted ==
  ASSUME AInv, IInv', NEW r \in Reqs, NEW state \in {"sign", "ok"},
         pc[r] \in {"rotate", "revoke"}, state = "ok" => op[r] = "logout",
         row' = [row EXCEPT ![entry[r]] = NoTok], Goto(r, state),
         UNCHANGED <<who, op, entry, fresh>>
  PROVE  IsFiniteSet(Started)' /\ OwnTokens' /\ GoneBecauseSpent'
<1> USE DEF AInv, IInv, TypeOK
<1>1. /\ entry[r] # NoRow /\ pc'[r] = state
      /\ \A q \in Reqs : q # r => pc'[q] = pc[q]
      /\ \A y \in Reqs : y # entry[r] => row'[y] = row[y]
  BY DEF Goto, HandlerLocals
<1>2. IsFiniteSet(Started)'
  <2>1. Started' \subseteq Started
    BY <1>1 DEF Started
  <2> QED
    BY <2>1, FS_Subset
<1>3. GoneBecauseSpent'
  <2> SUFFICES ASSUME NEW y \in Reqs, pc'[y] = "ok", op[y] # "logout", row'[y] = NoTok
               PROVE  \E q \in Reqs : entry[q] = y /\ pc'[q] \notin {"rotate", "revoke"}
    BY DEF GoneBecauseSpent
  <2>1. CASE y = entry[r]
    BY <2>1, <1>1
  <2>2. CASE y # entry[r]
    <3>1. pc[y] = "ok" /\ row[y] = NoTok
      BY <2>2, <1>1
    <3>2. PICK q \in Reqs : entry[q] = y /\ pc[q] \notin {"rotate", "revoke"}
      BY <3>1 DEF GoneBecauseSpent
    <3> QED
      BY <3>2, <1>1
  <2> QED
    BY <2>1, <2>2
<1> QED
  BY <1>2, <1>3 DEF OwnTokens

\* A rotation that found a row nobody else found moves the session; one that
\* shares its row is a holder already.
LEMMA AccRotate ==
  ASSUME AInv, IInv', NEW r \in Reqs, Rotate(r)
  PROVE  AInv'
<1> USE AuthSessionsAssumption DEF AInv, IInv, TypeOK
<1> DEFINE e == entry[r]
<1>1. /\ pc[r] = "rotate" /\ pc'[r] = "sign" /\ op[r] # "logout"
      /\ e \in Reqs /\ e # r /\ pc[e] = "ok" /\ op[e] # "logout" /\ who[e] = who[r]
      /\ UNCHANGED <<who, op, entry, fresh>>
  BY DEF Rotate, Goto, HandlerLocals, EntriesWereRows, OwnTokens
<1>2. /\ \A q \in Reqs : q # r => pc'[q] = pc[q]
      /\ \A y \in Reqs : y # e => row'[y] = row[y]
      /\ row'[e] = NoTok
  BY <1>1 DEF Rotate, Goto
<1>3. IsFiniteSet(Started)' /\ OwnTokens' /\ GoneBecauseSpent'
  BY <1>1, AccDeleted DEF Rotate
<1>4. ASSUME NEW u \in Users
      PROVE  /\ Budget(u)' = Budget(u)
             /\ Holders(u)' \subseteq Holders(u) \union {r}
             /\ e \notin Holders(u)'
             /\ r \in Holders(u)' => who[r] = u /\ op[r] = "refresh"
  <2>1. \A q \in Reqs : SharedRow(q)' <=> SharedRow(q)
    BY <1>1 DEF SharedRow
  <2>2. row[r] = NoTok
    BY <1>1 DEF RowsOfAnswered
  <2> QED
    BY <2>1, <2>2, <1>1, <1>2 DEF Budget, Holders
<1>5. ASSUME NEW u \in Users
      PROVE  Cardinality(Holders(u)') <= Cardinality(Budget(u)')
  <2>1. /\ Cardinality(Holders(u)) <= Cardinality(Budget(u))
        /\ IsFiniteSet(Holders(u)) /\ IsFiniteSet(Budget(u))
        /\ Cardinality(Holders(u)) \in Nat /\ Cardinality(Budget(u)) \in Nat
    BY AccountsFinite, FS_CardinalityType DEF AccountsBalance
  <2>2. CASE Holders(u)' \subseteq Holders(u)
    <3>1. /\ IsFiniteSet(Holders(u)')
          /\ Cardinality(Holders(u)') <= Cardinality(Holders(u))
      BY <2>1, <2>2, FS_Subset
    <3> QED
      BY <2>1, <3>1, <1>4, FS_CardinalityType
  <2>3. CASE ~(Holders(u)' \subseteq Holders(u))
    <3>1. r \in Holders(u)' /\ r \notin Holders(u)
      BY <2>3, <1>4
    <3>2. who[r] = u /\ ~SharedRow(r)
      BY <3>1, <1>1, <1>4 DEF Holders
    <3>3. row[e] # NoTok
      <4> SUFFICES ASSUME row[e] = NoTok PROVE FALSE
        OBVIOUS
      <4>1. PICK q \in Reqs : entry[q] = e /\ pc[q] \notin {"rotate", "revoke"}
        BY <1>1 DEF GoneBecauseSpent
      <4> QED
        BY <4>1, <3>2, <1>1 DEF SharedRow
    <3>4. e \in Holders(u)
      BY <3>2, <3>3, <1>1 DEF Holders
    <3>5. Holders(u)' \subseteq (Holders(u) \ {e}) \union {r}
      BY <1>4
    <3>6. Cardinality(Holders(u)') <= Cardinality(Holders(u))
      BY <2>1, <3>4, <3>5, Replace
    <3>7. IsFiniteSet(Holders(u)')
      <4>1. IsFiniteSet((Holders(u) \ {e}) \union {r})
        BY <2>1, FS_AddElement, FS_RemoveElement
      <4> QED
        BY <3>5, <4>1, FS_Subset
    <3> QED
      BY <2>1, <3>6, <3>7, <1>4, FS_CardinalityType
  <2> QED
    BY <2>2, <2>3
<1> QED
  BY <1>3, <1>5 DEF AccountsBalance

LEMMA AccRevoke ==
  ASSUME AInv, IInv', NEW r \in Reqs, Revoke(r)
  PROVE  AInv'
<1> USE AuthSessionsAssumption DEF AInv, IInv, TypeOK
<1>1. /\ pc[r] = "revoke" /\ pc'[r] = "ok" /\ op[r] = "logout"
      /\ \A q \in Reqs : q # r => pc'[q] = pc[q]
      /\ \A y \in Reqs : row'[y] # NoTok => row[y] # NoTok
      /\ UNCHANGED <<who, op, entry, fresh>>
  BY DEF Revoke, Goto, HandlerLocals
<1>2. IsFiniteSet(Started)' /\ OwnTokens' /\ GoneBecauseSpent'
  BY <1>1, AccDeleted DEF Revoke
<1>3. ASSUME NEW u \in Users
      PROVE  Budget(u) \subseteq Budget(u)' /\ Holders(u)' \subseteq Holders(u)
  BY <1>1 DEF Budget, Holders, SharedRow
<1>4. AccountsBalance'
  BY <1>2, <1>3, KeepBalance
<1> QED
  BY <1>2, <1>4

LEMMA AccSign ==
  ASSUME AInv, IInv', NEW r \in Reqs, Sign(r)
  PROVE  AInv'
<1> USE AuthSessionsAssumption DEF AInv, IInv, TypeOK
<1>1. /\ pc[r] = "sign" /\ pc'[r] = "store"
      /\ \A q \in Reqs : q # r => pc'[q] = pc[q]
      /\ fresh' = [fresh EXCEPT ![r] = SignFor(who[r])]
      /\ UNCHANGED <<row, who, op, entry>>
  BY DEF Sign, Goto
<1>2. IsFiniteSet(Started)'
  <2>1. Started' \subseteq Started
    BY <1>1 DEF Started
  <2> QED
    BY <2>1, FS_Subset
<1>3. OwnTokens'
  BY <1>1 DEF OwnTokens, SignFor
<1>4. GoneBecauseSpent'
  BY <1>1 DEF GoneBecauseSpent
<1>5. ASSUME NEW u \in Users
      PROVE  Budget(u) \subseteq Budget(u)' /\ Holders(u)' \subseteq Holders(u)
  BY <1>1 DEF Budget, Holders, SharedRow
<1>6. AccountsBalance'
  BY <1>2, <1>5, KeepBalance
<1> QED
  BY <1>2, <1>3, <1>4, <1>6

\* A login that is stored adds to both sides; a refresh was a holder before.
LEMMA AccStore ==
  ASSUME AInv, IInv', NEW r \in Reqs, Store(r)
  PROVE  AInv'
<1> USE AuthSessionsAssumption DEF AInv, IInv, TypeOK
<1>1. /\ pc[r] = "store" /\ op[r] # "logout"
      /\ \A q \in Reqs : q # r => pc'[q] = pc[q] /\ row'[q] = row[q]
      /\ UNCHANGED <<who, op, entry, fresh>>
      /\ \/ pc'[r] = "500" /\ row'[r] = row[r]
         \/ pc'[r] = "ok" /\ row'[r] = fresh[r] /\ fresh[r] \in Tok
      /\ row[r] = NoTok
  BY DEF Store, Goto, HandlerLocals, RowsOfAnswered
<1>2. IsFiniteSet(Started)'
  <2>1. Started' \subseteq Started
    BY <1>1 DEF Started
  <2> QED
    BY <2>1, FS_Subset
<1>3. OwnTokens'
  BY <1>1 DEF OwnTokens
<1>4. GoneBecauseSpent'
  BY <1>1 DEF GoneBecauseSpent
<1>5. op[r] \in {"login", "refresh"}
  BY DEF Store, HandlerLocals
<1>6. ASSUME NEW u \in Users
      PROVE  /\ Budget(u) \subseteq Budget(u)'
             /\ Holders(u)' \subseteq Holders(u) \union (Budget(u)' \ Budget(u))
  BY <1>1, <1>5 DEF Budget, Holders, SharedRow
<1>7. AccountsBalance'
  BY <1>2, <1>6, KeepBalance
<1> QED
  BY <1>2, <1>3, <1>4, <1>7

LEMMA AccCrash ==
  ASSUME AInv, IInv', Crash
  PROVE  AInv'
<1> USE AuthSessionsAssumption DEF AInv, IInv, TypeOK
<1>1. /\ \A q \in Reqs : pc'[q] = IF pc[q] \in Working THEN "lost" ELSE pc[q]
      /\ UNCHANGED <<row, who, op, entry, fresh>>
  BY DEF Crash
<1>2. IsFiniteSet(Started)'
  <2>1. Started' \subseteq Started
    BY <1>1 DEF Started, Working
  <2> QED
    BY <2>1, FS_Subset
<1>3. OwnTokens' /\ GoneBecauseSpent'
  BY <1>1 DEF OwnTokens, GoneBecauseSpent, Working
<1>4. ASSUME NEW u \in Users
      PROVE  Budget(u) \subseteq Budget(u)' /\ Holders(u)' \subseteq Holders(u)
  BY <1>1 DEF Budget, Holders, SharedRow, Working
<1>5. AccountsBalance'
  BY <1>2, <1>4, KeepBalance
<1> QED
  BY <1>2, <1>3, <1>5

LEMMA AInvInit == Init => AInv
<1> SUFFICES ASSUME Init PROVE AInv
  OBVIOUS
<1>1. IInv
  BY IInvInit
<1>2. Started = {} /\ \A u \in Users : Holders(u) = {} /\ Budget(u) = {}
  BY DEF Init, Started, Holders, Budget, SharedRow
<1>3. IsFiniteSet(Started) /\ AccountsBalance
  BY <1>2, FS_EmptySet DEF AccountsBalance
<1>4. OwnTokens /\ GoneBecauseSpent
  BY DEF Init, OwnTokens, GoneBecauseSpent
<1> QED
  BY <1>1, <1>3, <1>4 DEF AInv

LEMMA AInvStep == AInv /\ [Next]_vars => AInv'
<1> SUFFICES ASSUME AInv, [Next]_vars PROVE AInv'
  OBVIOUS
<1>0. IInv /\ IInv'
  BY IInvStep DEF AInv
<1>1. ASSUME NEW r \in Reqs, Login(r) \/ LoginRefused(r) PROVE AInv'
  BY <1>0, <1>1, AccBegin DEF Login, LoginRefused
<1>2. ASSUME NEW r \in Reqs, NEW t \in Issued, Refresh(r, t) \/ Logout(r, t)
      PROVE  AInv'
  <2>1. t \in Tok
    BY <1>0 DEF IInv, HandlerLocals, Issued, Answered200
  <2>2. PICK o \in {"refresh", "logout"}, acc \in BOOLEAN, state \in {"rotate", "revoke"} :
          t.sub = who[r] /\ Begin(r, o, t) /\ Find(r, t, acc, state)
    BY <1>2 DEF Refresh, Logout
  <2>3. CASE Goto(r, "401") /\ entry' = entry
    BY <1>0, <2>2, <2>3, AccBegin
  <2>4. CASE Goto(r, state) /\ \E x \in Reqs : row[x] = t /\ entry' = [entry EXCEPT ![r] = x]
    BY <1>0, <2>1, <2>2, <2>4, AccFind
  <2> QED
    BY <2>2, <2>3, <2>4 DEF Find
<1>3. ASSUME NEW r \in Reqs, Rotate(r) PROVE AInv'
  BY <1>0, <1>3, AccRotate
<1>4. ASSUME NEW r \in Reqs, Revoke(r) PROVE AInv'
  BY <1>0, <1>4, AccRevoke
<1>5. ASSUME NEW r \in Reqs, Sign(r) PROVE AInv'
  BY <1>0, <1>5, AccSign
<1>6. ASSUME NEW r \in Reqs, Store(r) PROVE AInv'
  BY <1>0, <1>6, AccStore
<1>7. CASE Crash
  BY <1>0, <1>7, AccCrash
<1>8. ASSUME \/ Tick \/ UNCHANGED vars
             \/ \E u \in Users : DisableUser(u)
      PROVE  AInv'
  <2>1. UNCHANGED <<row, locals>>
    BY <1>8 DEF Tick, DisableUser, vars
  <2> QED
    BY <1>0, <2>1 DEF AInv, locals, Started, OwnTokens, GoneBecauseSpent, AccountsBalance,
       Holders, Budget, SharedRow
<1> QED
  BY <1>1, <1>2, <1>3, <1>4, <1>5, <1>6, <1>7, <1>8 DEF Next, Handle

\* The rows are among the holders, and the budget is made of logins and forks.
LEMMA AInvAccounts == AInv => SessionsAccountedFor
<1> SUFFICES ASSUME AInv, NEW u \in Users
             PROVE  Cardinality({x \in Reqs : row[x] # NoTok /\ who[x] = u})
                      <= Cardinality({r \in Answered200 : op[r] = "login" /\ who[r] = u})
                       + Cardinality({r \in Reqs : /\ op[r] = "refresh" /\ who[r] = u
                                                   /\ entry[r] # NoRow
                                                   /\ \E q \in Reqs \ {r} : entry[q] = entry[r]})
  BY DEF SessionsAccountedFor
<1> DEFINE Rows   == {x \in Reqs : row[x] # NoTok /\ who[x] = u}
           Logins == {r \in Answered200 : op[r] = "login" /\ who[r] = u}
           Forks  == {r \in Reqs : /\ op[r] = "refresh" /\ who[r] = u
                                   /\ entry[r] # NoRow
                                   /\ \E q \in Reqs \ {r} : entry[q] = entry[r]}
<1>1. /\ IsFiniteSet(Holders(u)) /\ IsFiniteSet(Budget(u))
      /\ Cardinality(Holders(u)) <= Cardinality(Budget(u))
  BY AccountsFinite DEF AInv, AccountsBalance
<1>2. Rows \subseteq Holders(u) /\ Budget(u) = Logins \union Forks
  BY DEF Holders, Budget, SharedRow, Answered200
<1> HIDE DEF Rows, Logins, Forks
<1>3. IsFiniteSet(Rows) /\ Cardinality(Rows) <= Cardinality(Holders(u))
  BY <1>1, <1>2, FS_Subset
<1>4. IsFiniteSet(Logins) /\ IsFiniteSet(Forks)
  BY <1>1, <1>2, FS_Subset
<1>5. Cardinality(Budget(u)) =
        Cardinality(Logins) + Cardinality(Forks) - Cardinality(Logins \intersect Forks)
  BY <1>2, <1>4, FS_Union
<1>6. /\ Cardinality(Rows) \in Nat /\ Cardinality(Holders(u)) \in Nat
      /\ Cardinality(Logins) \in Nat /\ Cardinality(Forks) \in Nat
      /\ Cardinality(Logins \intersect Forks) \in Nat
  BY <1>1, <1>3, <1>4, FS_CardinalityType, FS_Intersection
<1>7. Cardinality(Rows) <= Cardinality(Logins) + Cardinality(Forks)
  BY <1>1, <1>3, <1>5, <1>6
<1> QED
  BY <1>7 DEF Rows, Logins, Forks

\* Nobody ends up with more sessions than logins, except by refreshes that
\* overlapped with another call and found the same row.
THEOREM SessionsAccountedForHolds == Spec => []SessionsAccountedFor
  BY AInvInit, AInvStep, AInvAccounts, PTL DEF Spec
-----------------------------------------------------------------------------
(***************************************************************************)
(* The refinement.  Tokens are strings that may be equal, rows are looked  *)
(* up by string and deleted later, and yet it is as if every session were  *)
(* named and handed on in one step: Rotate is Move, or Fork if the row has *)
(* gone since it was found; what comes before it only asks, and what comes *)
(* after it settles the new session or fails.                              *)
(***************************************************************************)
Asked(r)   == IF pc[r] \in {"rotate", "revoke"} THEN entry[r] ELSE NoRow
Live(r)    == row[r] # NoTok \/ pc[r] \in {"sign", "store"}
Settled(r) == pc[r] = "ok" /\ op[r] # "logout"

LEMMA LedgerInit == Init => Ledger!Init
  BY DEF Init, Ledger!Init, Answered200

\* Steps that no client and no session notices.
LEMMA LedgerStutter ==
  ASSUME who' = who,
         \A q \in Reqs : /\ pc'[q] = "idle" <=> pc[q] = "idle"
                         /\ Asked(q)' = Asked(q)
                         /\ Live(q)' = Live(q)
                         /\ Settled(q)' = Settled(q)
  PROVE  UNCHANGED Ledger!vars
  BY DEF Ledger!vars, Asked, Live, Settled, Answered200

\* What the arrival of r leaves alone, whatever its route and answer.
LEMMA LedgerArrives ==
  ASSUME IInv, NEW r \in Reqs, NEW o, NEW t, Begin(r, o, t),
         NEW state \in {"sign", "401", "rotate", "revoke"}, Goto(r, state)
  PROVE  /\ Ledger!Arrives(r)
         /\ row[r] = NoTok /\ row' = row
         /\ pc[r] = "idle" /\ pc'[r] = state
         /\ \A q \in Reqs : q # r => pc'[q] = pc[q]
<1> USE DEF IInv, TypeOK
<1>1. /\ pc[r] = "idle" /\ pc'[r] = state /\ op'[r] = o
      /\ \A q \in Reqs : q # r => pc'[q] = pc[q] /\ op'[q] = op[q]
      /\ row' = row /\ who' = who
  BY DEF Begin, Goto
<1>2. row[r] = NoTok
  BY <1>1 DEF RowsOfAnswered
<1>3. {q \in Reqs : pc[q] # "idle"}' = {q \in Reqs : pc[q] # "idle"} \union {r}
  BY <1>1
<1>4. {q \in Answered200 : op[q] # "logout"}' = {q \in Answered200 : op[q] # "logout"}
  BY <1>1 DEF Answered200
<1>5. Ledger!Arrives(r)
  BY <1>1, <1>3, <1>4 DEF Ledger!Arrives
<1> QED
  BY <1>1, <1>2, <1>5

\* A login, or a request that is refused.
LEMMA LedgerRefuse ==
  ASSUME IInv, NEW r \in Reqs, NEW o, NEW t, Begin(r, o, t), entry' = entry,
         NEW state \in {"sign", "401"}, Goto(r, state)
  PROVE  IF state = "sign" THEN Ledger!Open(r) ELSE Ledger!Refuse(r)
<1> DEFINE asks == [q \in Reqs |-> IF pc[q] \in {"rotate", "revoke"} THEN entry[q] ELSE NoRow]
           lives == {q \in Reqs : row[q] # NoTok \/ pc[q] \in {"sign", "store"}}
<1>1. /\ Ledger!Arrives(r)
      /\ row[r] = NoTok /\ row' = row
      /\ pc[r] = "idle" /\ pc'[r] = state
      /\ \A q \in Reqs : q # r => pc'[q] = pc[q]
  BY LedgerArrives
<1>2. asks' = asks
  BY <1>1
<1>3. lives' = IF state = "sign" THEN lives \union {r} ELSE lives
  BY <1>1
<1> QED
  BY <1>1, <1>2, <1>3 DEF Ledger!Open, Ledger!Refuse

LEMMA LedgerAdmit ==
  ASSUME AInv, NEW r \in Reqs, NEW x \in Reqs, NEW o, Begin(r, o, row[x]),
         row[x] \in Tok, row[x].sub = who[r],
         entry' = [entry EXCEPT ![r] = x],
         NEW state \in {"rotate", "revoke"}, Goto(r, state)
  PROVE  Ledger!Admit(r, x)
<1> DEFINE asks == [q \in Reqs |-> IF pc[q] \in {"rotate", "revoke"} THEN entry[q] ELSE NoRow]
           lives == {q \in Reqs : row[q] # NoTok \/ pc[q] \in {"sign", "store"}}
<1> USE AuthSessionsAssumption DEF AInv, IInv, TypeOK
<1>1. /\ Ledger!Arrives(r)
      /\ row[r] = NoTok /\ row' = row
      /\ pc[r] = "idle" /\ pc'[r] = state
      /\ \A q \in Reqs : q # r => pc'[q] = pc[q]
  BY LedgerArrives
<1>2. asks' = [asks EXCEPT ![r] = x]
  BY <1>1
<1>3. lives' = lives
  BY <1>1
<1>4. pc[x] = "ok" /\ op[x] # "logout" /\ row[x] = fresh[x] /\ who[x] = who[r]
  BY DEF RowsOfAnswered, OwnTokens
<1>5. x \in lives \intersect {q \in Answered200 : op[q] # "logout"}
  BY <1>4 DEF Answered200
<1> QED
  BY <1>1, <1>2, <1>3, <1>4, <1>5 DEF Ledger!Admit

\* A delete is the moment the session changes hands, or ends.
LEMMA LedgerDelete ==
  ASSUME IInv, NEW r \in Reqs, Rotate(r) \/ Revoke(r)
  PROVE  Ledger!Move(r) \/ Ledger!Fork(r) \/ Ledger!End(r)
<1> DEFINE asks == [q \in Reqs |-> IF pc[q] \in {"rotate", "revoke"} THEN entry[q] ELSE NoRow]
           lives == {q \in Reqs : row[q] # NoTok \/ pc[q] \in {"sign", "store"}}
           e == entry[r]
<1> USE AuthSessionsAssumption DEF IInv, TypeOK
<1>1. /\ pc[r] \in {"rotate", "revoke"} /\ e \in Reqs
      /\ pc'[r] = IF pc[r] = "rotate" THEN "sign" ELSE "ok"
      /\ pc[r] = "rotate" => op[r] # "logout"
      /\ pc[r] = "revoke" => op[r] = "logout"
      /\ \A q \in Reqs : q # r => pc'[q] = pc[q]
      /\ row'[e] = NoTok /\ \A q \in Reqs : q # e => row'[q] = row[q]
      /\ UNCHANGED <<who, op, entry>>
  BY DEF Rotate, Revoke, Goto, HandlerLocals
<1>2. pc[e] = "ok" /\ row[r] = NoTok /\ asks[r] = e
  BY <1>1 DEF EntriesWereRows, RowsOfAnswered
<1>3. asks' = [asks EXCEPT ![r] = NoRow]
  BY <1>1
<1>4. {q \in Reqs : pc[q] # "idle"}' = {q \in Reqs : pc[q] # "idle"}
  BY <1>1
<1>5. {q \in Answered200 : op[q] # "logout"}' = {q \in Answered200 : op[q] # "logout"}
  BY <1>1 DEF Answered200
<1>6. Ledger!Acts(r)
  BY <1>1, <1>2, <1>3, <1>4, <1>5 DEF Ledger!Acts
<1>7. e \in lives <=> row[e] # NoTok
  BY <1>1, <1>2
<1>8. CASE pc[r] = "rotate"
  <2>1. lives' = (lives \ {e}) \union {r}
    BY <1>1, <1>2, <1>8
  <2>2. CASE e \in lives
    BY <1>2, <1>6, <2>1, <2>2 DEF Ledger!Move
  <2>3. CASE e \notin lives
    BY <1>2, <1>6, <2>1, <2>3 DEF Ledger!Fork
  <2> QED
    BY <2>2, <2>3
<1>9. CASE pc[r] = "revoke"
  <2>1. lives' = lives \ {e}
    BY <1>1, <1>2, <1>9
  <2> QED
    BY <1>2, <1>6, <2>1 DEF Ledger!End
<1> QED
  BY <1>1, <1>8, <1>9

\* The sessions that are not settled are those of handlers at work.
LEMMA LedgerFail ==
  ASSUME IInv, NEW lost \in SUBSET Reqs,
         \A q \in lost : pc[q] \in Working /\ pc'[q] \in {"lost", "500"},
         \A q \in Reqs \ lost : pc'[q] = pc[q],
         UNCHANGED <<who, op, row, entry>>
  PROVE  Ledger!Fail(lost)
<1> DEFINE asks == [q \in Reqs |-> IF pc[q] \in {"rotate", "revoke"} THEN entry[q] ELSE NoRow]
           lives == {q \in Reqs : row[q] # NoTok \/ pc[q] \in {"sign", "store"}}
<1>1. \A q \in lost : row[q] = NoTok
  BY DEF IInv, RowsOfAnswered, Working
<1>2. lives' = lives \ lost
  BY <1>1
<1>3. asks' = [q \in Reqs |-> IF q \in lost THEN NoRow ELSE asks[q]]
  OBVIOUS
<1>4. {q \in Reqs : pc[q] # "idle"}' = {q \in Reqs : pc[q] # "idle"}
  BY DEF Working
<1>5. /\ {q \in Answered200 : op[q] # "logout"}' = {q \in Answered200 : op[q] # "logout"}
      /\ lost \intersect {q \in Answered200 : op[q] # "logout"} = {}
  BY DEF Answered200, Working
<1> QED
  BY <1>2, <1>3, <1>4, <1>5 DEF Ledger!Fail

LEMMA LedgerSettle ==
  ASSUME IInv, NEW r \in Reqs, pc[r] = "store", Goto(r, "ok"),
         row' = [row EXCEPT ![r] = fresh[r]], UNCHANGED <<who, op, entry>>
  PROVE  Ledger!Settle(r)
<1> DEFINE asks == [q \in Reqs |-> IF pc[q] \in {"rotate", "revoke"} THEN entry[q] ELSE NoRow]
           lives == {q \in Reqs : row[q] # NoTok \/ pc[q] \in {"sign", "store"}}
<1> USE AuthSessionsAssumption DEF IInv, TypeOK
<1>1. /\ pc'[r] = "ok" /\ op[r] # "logout" /\ row'[r] # NoTok
      /\ \A q \in Reqs : q # r => pc'[q] = pc[q] /\ row'[q] = row[q]
  BY DEF Goto, HandlerLocals
<1>2. lives' = lives /\ asks' = asks /\ r \in lives
  BY <1>1
<1>3. {q \in Reqs : pc[q] # "idle"}' = {q \in Reqs : pc[q] # "idle"}
  BY <1>1
<1>4. /\ r \notin {q \in Answered200 : op[q] # "logout"}
      /\ {q \in Answered200 : op[q] # "logout"}' =
           {q \in Answered200 : op[q] # "logout"} \union {r}
  BY <1>1 DEF Answered200
<1> QED
  BY <1>2, <1>3, <1>4 DEF Ledger!Settle

LEMMA LedgerStep == AInv /\ [Next]_vars => [Ledger!Next]_(Ledger!vars)
<1> SUFFICES ASSUME AInv, [Next]_vars PROVE [Ledger!Next]_(Ledger!vars)
  OBVIOUS
<1>0. IInv /\ TypeOK
  BY DEF AInv, IInv
<1>1. ASSUME NEW r \in Reqs, Login(r) \/ LoginRefused(r) PROVE Ledger!Next
  <2>1. Ledger!Open(r) \/ Ledger!Refuse(r)
    BY <1>0, <1>1, LedgerRefuse DEF Login, LoginRefused
  <2> QED
    BY <2>1 DEF Ledger!Next
<1>2. ASSUME NEW r \in Reqs, NEW t \in Issued, Refresh(r, t) \/ Logout(r, t)
      PROVE  Ledger!Next
  <2>1. t \in Tok
    BY <1>0 DEF IInv, HandlerLocals, Issued, Answered200
  <2>2. PICK o \in {"refresh", "logout"}, acc \in BOOLEAN, state \in {"rotate", "revoke"} :
          t.sub = who[r] /\ Begin(r, o, t) /\ Find(r, t, acc, state)
    BY <1>2 DEF Refresh, Logout
  <2>3. CASE Goto(r, "401") /\ entry' = entry
    <3>1. Ledger!Refuse(r)
      BY <1>0, <2>2, <2>3, LedgerRefuse
    <3> QED
      BY <3>1 DEF Ledger!Next
  <2>4. CASE Goto(r, state) /\ \E x \in Reqs : row[x] = t /\ entry' = [entry EXCEPT ![r] = x]
    <3>1. PICK x \in Reqs : row[x] = t /\ entry' = [entry EXCEPT ![r] = x]
      BY <2>4
    <3>2. Ledger!Admit(r, x)
      BY <2>1, <2>2, <2>4, <3>1, LedgerAdmit
    <3> QED
      BY <3>2 DEF Ledger!Next
  <2> QED
    BY <2>2, <2>3, <2>4 DEF Find
<1>3. ASSUME NEW r \in Reqs, Rotate(r) \/ Revoke(r) PROVE Ledger!Next
  <2>1. Ledger!Move(r) \/ Ledger!Fork(r) \/ Ledger!End(r)
    BY <1>0, <1>3, LedgerDelete
  <2> QED
    BY <2>1 DEF Ledger!Next
<1>4. ASSUME NEW r \in Reqs, Sign(r) PROVE UNCHANGED Ledger!vars
  <2>1. /\ pc[r] = "sign" /\ pc'[r] = "store"
        /\ \A q \in Reqs : q # r => pc'[q] = pc[q]
        /\ UNCHANGED <<who, row, op, entry>>
    BY <1>0, <1>4 DEF Sign, Goto, TypeOK
  <2> QED
    BY <2>1, LedgerStutter DEF Asked, Live, Settled
<1>5. ASSUME NEW r \in Reqs, Store(r) PROVE Ledger!Next
  <2>1. pc[r] = "store" /\ UNCHANGED <<who, op, entry>>
    BY <1>5 DEF Store
  <2>2. CASE Goto(r, "ok") /\ row' = [row EXCEPT ![r] = fresh[r]]
    <3>1. Ledger!Settle(r)
      BY <1>0, <2>1, <2>2, LedgerSettle
    <3> QED
      BY <3>1 DEF Ledger!Next
  <2>3. CASE Goto(r, "500") /\ row' = row
    <3>1. /\ \A q \in {r} : pc[q] \in Working /\ pc'[q] \in {"lost", "500"}
          /\ \A q \in Reqs \ {r} : pc'[q] = pc[q]
      BY <1>0, <2>1, <2>3 DEF Goto, TypeOK, Working
    <3>2. Ledger!Fail({r})
      BY <1>0, <2>1, <2>3, <3>1, LedgerFail
    <3> QED
      BY <3>2 DEF Ledger!Next
  <2> QED
    BY <1>5, <2>2, <2>3 DEF Store
<1>6. CASE Crash
  <2>1. PICK lost \in SUBSET Reqs : lost = {q \in Reqs : pc[q] \in Working}
    OBVIOUS
  <2>2. /\ \A q \in lost : pc[q] \in Working /\ pc'[q] \in {"lost", "500"}
        /\ \A q \in Reqs \ lost : pc'[q] = pc[q]
        /\ UNCHANGED <<who, op, row, entry>>
    BY <1>6, <2>1 DEF Crash
  <2>3. Ledger!Fail(lost)
    BY <1>0, <2>2, LedgerFail
  <2> QED
    BY <2>3 DEF Ledger!Next
<1>7. ASSUME \/ Tick \/ UNCHANGED vars
             \/ \E u \in Users : DisableUser(u)
      PROVE  UNCHANGED Ledger!vars
  <2>1. UNCHANGED <<row, locals>>
    BY <1>7 DEF Tick, DisableUser, vars
  <2> QED
    BY <2>1, LedgerStutter DEF locals, Asked, Live, Settled
<1> QED
  BY <1>1, <1>2, <1>3, <1>4, <1>5, <1>6, <1>7 DEF Next, Handle

\* To clients, logins, refreshes and logouts act on named sessions in single
\* steps, in spite of equal tokens, overlapping calls and crashes.
THEOREM LedgerRefinement == Spec => ImplementsLedger
  BY LedgerInit, LedgerStep, AInvInit, AInvStep, PTL DEF Spec, ImplementsLedger, Ledger!Spec
=============================================================================
