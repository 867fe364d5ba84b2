------------------------ MODULE BrowserSession_proofs ------------------------
(***************************************************************************)
(* Proofs about BrowserSession, for any number of calls, lifetimes of the  *)
(* tokens, faults and changes of membership.                               *)
(***************************************************************************)
EXTENDS BrowserSession, TLAPS

-----------------------------------------------------------------------------
(* The inductive invariant *)

AtGateway == {"gateway", "act", "acted", "revoke", "delete"}
AtAuth    == {"find", "rotate", "groups", "sign"}

\* Where the services can be while the browser waits, and what a call in that
\* state has got.
Phases ==
    \A c \in Calls :
        /\ op[c] = "none" <=> pc[c] = "idle"
        /\ pc[c] = "idle" => service[c] = "none"
        /\ pc[c] = "signingIn" => service[c] \in {"groups", "sign", "200", "500"}
        /\ pc[c] \in {"calling", "retrying"} => service[c] \in AtGateway \union Answers
        /\ pc[c] = "refreshing" => /\ service[c] \in AtAuth \union {"200", "401", "500"}
                                   /\ presented[c] # None
        /\ pc[c] \in {"idle", "signingIn", "calling"} => presented[c] = None
        /\ service[c] \in {"find", "rotate"} => presented[c] # None
        /\ body[c] # None => op[c] = "signOut"
        /\ service[c] \in {"revoke", "delete"} => body[c] # None
        /\ op[c] = "signOut" /\ pc[c] \in {"calling", "refreshing"} => body[c] # None

\* Unless there was a fault, the services only work on what somebody waits for.
Awaited ==
    faults = 0 => \A c \in Calls :
        /\ service[c] # "500" /\ pc[c] # "failed"
        /\ service[c] \in AtGateway => pc[c] \in {"calling", "retrying"}
        /\ service[c] \in {"find", "rotate"} => pc[c] = "refreshing"
        /\ service[c] \in {"groups", "sign"} => pc[c] \in {"signingIn", "refreshing"}

\* The groups claim of t, if it names admin, was read while the user was one.
Genuine(t) == groups[t] => \E i \in wasMember : began[t] <= i /\ i <= signed[t]

\* t is a pair that the browser has stored, and that is not signed again.
Token(t) ==
    /\ t \in Calls
    /\ pc[t] \notin {"idle", "signingIn", "calling", "refreshing"}
    /\ service[t] \notin AtAuth
    /\ Genuine(t)

\* Whatever is stored or sent is such a pair, and the items of localStorage
\* belong together.
Tokens ==
    /\ access = refresh
    /\ refresh # None => Token(refresh)
    /\ rendered # None => Token(rendered)
    /\ \A c \in Calls :
         /\ bearer[c] # None => Token(bearer[c])
         /\ body[c] # None => Token(body[c])
         /\ presented[c] # None => Token(presented[c])

\* A login or refresh under way, and one whose pair is not stored yet.
Signer(c) ==
    /\ began[c] <= now
    /\ service[c] = "sign" /\ groups[c] => \E i \in wasMember : began[c] <= i /\ i <= now
    /\ pc[c] \in {"signingIn", "refreshing"} /\ service[c] = "200" => Genuine(c) /\ c \in rows

Signing ==
    /\ member => now \in wasMember
    /\ \A c \in Calls : Signer(c)

\* The writes that the gateway let pass, and those that were carried out.
Acting ==
    \A c \in Calls :
        /\ service[c] = "act" =>
             bearer[c] # None /\ admitted[c] <= signed[bearer[c]] + ACCESS_TTL
        /\ acted[c] > 0 =>
             /\ acted[c] = 1 /\ service[c] \in {"acted", "200", "500"}
             /\ pc[c] \notin {"idle", "signingIn", "refreshing"}
             /\ bearer[c] # None

\* d has removed the row of t, and the browser does not know yet.
Taker(d, t) ==
    \/ /\ presented[d] = t
       /\ pc[d] = "refreshing" /\ service[d] \in {"groups", "sign", "200"}
    \/ /\ body[d] = t
       /\ pc[d] \in {"calling", "retrying"} /\ service[d] = "200"

\* Another call uses the token that c refreshes with, and had not ended then.
Rival(c) ==
    \E d \in Calls \ {c} : /\ d \notin over[c]
                           /\ presented[d] = presented[c] \/ body[d] = presented[c]

Expired(c) == now > signed[presented[c]] + REFRESH_TTL

\* Unless there was a fault: the stored token has a row, or somebody has just
\* taken it; nobody who is through has used it.
StoredIsGood ==
    refresh # None =>
        /\ refresh \in rows \/ \E d \in Calls : Taker(d, refresh)
        /\ \A d \in Calls : pc[d] \in Ended \union {"retrying"} => presented[d] # refresh
        /\ \A d \in Calls : pc[d] \in Ended => body[d] # refresh

\* Unless there was a fault: refresh c finds no row, fails, or has failed, for a
\* cause.
FailsForCause(c) ==
    /\ service[c] = "find" /\ presented[c] \notin rows => Rival(c)
    /\ pc[c] = "refreshing" /\ service[c] = "401" => Expired(c) \/ Rival(c)
    /\ pc[c] = "login" /\ presented[c] # None => Expired(c) \/ Rival(c)

Sharing ==
    /\ \A c \in Calls : \A d \in over[c] : pc[d] \in Ended
    /\ faults = 0 => StoredIsGood /\ \A c \in Calls : FailsForCause(c)

IInv ==
    /\ TypeOK
    /\ Phases
    /\ Awaited
    /\ Tokens
    /\ Signing
    /\ Acting
    /\ AdminForCause
    /\ Sharing

-----------------------------------------------------------------------------
LEMMA InitIInv == Init => IInv
<1> SUFFICES ASSUME Init PROVE IInv
  OBVIOUS
<1> USE BrowserSessionAssumption DEF BrowserSessionAssumption, Init
<1>1. TypeOK
  BY DEF TypeOK, Times
<1>2. Phases /\ Awaited
  BY DEF Phases, Awaited, AtGateway, AtAuth
<1>3. Tokens
  BY DEF Tokens
<1>4. Signing
  BY DEF Signing, Signer
<1>5. Acting /\ AdminForCause
  BY DEF Acting, AdminForCause
<1>6. Sharing
  BY DEF Sharing, StoredIsGood, FailsForCause
<1> QED
  BY <1>1, <1>2, <1>3, <1>4, <1>5, <1>6 DEF IInv

-----------------------------------------------------------------------------
(* Every step preserves it *)

\* The claims of token t stay as they are, and it stays a token.
Stays(t) == /\ began'[t] = began[t] /\ signed'[t] = signed[t] /\ groups'[t] = groups[t]
            /\ Token(t)'

-----------------------------------------------------------------------------
(* The browser *)

LEMMA SignInKeeps == ASSUME IInv, NEW c \in Calls, SignIn(c) PROVE IInv'
<1> USE DEF SignIn, world, storage, history, Send, Start
<1>1. TypeOK'
  BY DEF IInv, TypeOK, Ended, Answers
<1>2. \A t \in Calls : Token(t) => Stays(t)
  BY DEF IInv, TypeOK, Token, Stays, Genuine, AtAuth, Ended, Answers
<1>3. Phases'
  BY DEF IInv, TypeOK, Phases, AtGateway, AtAuth, Ended, Answers
<1>4. Awaited'
  BY DEF IInv, TypeOK, Phases, Awaited, AtGateway, AtAuth, Ended, Answers
<1>5. Tokens'
  BY <1>2 DEF IInv, TypeOK, Tokens, Stays, Token
<1>6. Signing'
  <2>1. (member => now \in wasMember)'
    BY DEF IInv, Signing
  <2>2. \A x \in Calls \ {c} : Signer(x)'
    BY DEF IInv, TypeOK, Signing, Signer, Genuine
  <2>3. Signer(c)'
    BY BrowserSessionAssumption
       DEF BrowserSessionAssumption, IInv, TypeOK, Times, Signing, Signer, Genuine, Phases,
           Answers, AtAuth
  <2> QED
    BY <2>1, <2>2, <2>3 DEF Signing
<1>7. Acting'
  BY <1>2 DEF IInv, TypeOK, Acting, Phases, Tokens, Stays, Token
<1>8. AdminForCause'
  BY <1>2 DEF IInv, TypeOK, AdminForCause, Acting, Tokens, Stays
<1>9. Sharing'
  BY <1>2 DEF IInv, TypeOK, Sharing, StoredIsGood, FailsForCause, Phases, Awaited, Tokens,
     Token, Stays, Taker, Rival, Expired, AtGateway, AtAuth, Ended, Answers
<1> QED
  BY <1>1, <1>3, <1>4, <1>5, <1>6, <1>7, <1>8, <1>9 DEF IInv

LEMMA WriteKeeps == ASSUME IInv, NEW c \in Calls, Write(c) PROVE IInv'
<1> USE DEF Write, world, storage, claims, history, Send, Start, Route
<1>1. TypeOK'
  BY DEF IInv, TypeOK, Ended, Answers
<1>2. \A t \in Calls : Token(t) => Stays(t)
  BY DEF IInv, TypeOK, Token, Stays, Genuine, AtAuth, Ended, Answers
<1>3. Phases'
  BY DEF IInv, TypeOK, Phases, AtGateway, AtAuth, Ended, Answers
<1>4. Awaited'
  BY DEF IInv, TypeOK, Phases, Awaited, AtGateway, AtAuth, Ended, Answers
<1>5. Tokens'
  BY <1>2 DEF IInv, TypeOK, Tokens, Stays, Token
<1>6. Signing'
  BY DEF IInv, TypeOK, Signing, Signer, Phases, Genuine, Answers, AtAuth
<1>7. Acting'
  BY <1>2 DEF IInv, TypeOK, Acting, Phases, Tokens, Stays, Token
<1>8. AdminForCause'
  BY <1>2 DEF IInv, TypeOK, AdminForCause, Acting, Tokens, Stays
<1>9. Sharing'
  BY <1>2 DEF IInv, TypeOK, Sharing, StoredIsGood, FailsForCause, Phases, Awaited, Tokens,
     Token, Stays, Taker, Rival, Expired, AtGateway, AtAuth, Ended, Answers
<1> QED
  BY <1>1, <1>3, <1>4, <1>5, <1>6, <1>7, <1>8, <1>9 DEF IInv

LEMMA SignOutKeeps == ASSUME IInv, NEW c \in Calls, SignOut(c) PROVE IInv'
<1> USE DEF SignOut, world, storage, claims, history, Send, Start, Route
<1>1. TypeOK'
  BY DEF IInv, TypeOK, Ended, Answers
<1>2. \A t \in Calls : Token(t) => Stays(t)
  BY DEF IInv, TypeOK, Token, Stays, Genuine, AtAuth, Ended, Answers
<1>3. Phases'
  BY DEF IInv, TypeOK, Phases, AtGateway, AtAuth, Ended, Answers
<1>4. Awaited'
  BY DEF IInv, TypeOK, Phases, Awaited, AtGateway, AtAuth, Ended, Answers
<1>5. Tokens'
  BY <1>2 DEF IInv, TypeOK, Tokens, Stays, Token
<1>6. Signing'
  BY DEF IInv, TypeOK, Signing, Signer, Phases, Genuine, Answers, AtAuth
<1>7. Acting'
  BY <1>2 DEF IInv, TypeOK, Acting, Phases, Tokens, Stays, Token
<1>8. AdminForCause'
  BY <1>2 DEF IInv, TypeOK, AdminForCause, Acting, Tokens, Stays
<1>9. Sharing'
  BY <1>2 DEF IInv, TypeOK, Sharing, StoredIsGood, FailsForCause, Phases, Awaited, Tokens,
     Token, Stays, Taker, Rival, Expired, AtGateway, AtAuth, Ended, Answers
<1> QED
  BY <1>1, <1>3, <1>4, <1>5, <1>6, <1>7, <1>8, <1>9 DEF IInv

LEMMA SignOutWithoutTokenKeeps == ASSUME IInv, NEW c \in Calls, SignOutWithoutToken(c) PROVE IInv'
<1> USE DEF SignOutWithoutToken, world, claims, history, Start, End, clearTokens
<1>1. TypeOK'
  BY DEF IInv, TypeOK, Ended, Answers
<1>2. \A t \in Calls : Token(t) => Stays(t)
  BY DEF IInv, TypeOK, Token, Stays, Genuine, AtAuth, Ended, Answers
<1>3. Phases'
  BY DEF IInv, TypeOK, Phases, AtGateway, AtAuth, Ended, Answers
<1>4. Awaited'
  BY DEF IInv, TypeOK, Phases, Awaited, AtGateway, AtAuth, Ended, Answers
<1>5. Tokens'
  BY <1>2 DEF IInv, TypeOK, Tokens, Stays, Token
<1>6. Signing'
  BY DEF IInv, TypeOK, Signing, Signer, Phases, Genuine, Answers, AtAuth
<1>7. Acting'
  BY <1>2 DEF IInv, TypeOK, Acting, Phases, Tokens, Stays, Token
<1>8. AdminForCause'
  BY <1>2 DEF IInv, TypeOK, AdminForCause, Acting, Tokens, Stays
<1>9. Sharing'
  BY <1>2 DEF IInv, TypeOK, Sharing, StoredIsGood, FailsForCause, Phases, Awaited, Tokens,
     Token, Stays, Taker, Rival, Expired, AtGateway, AtAuth, Ended, Answers
<1> QED
  BY <1>1, <1>3, <1>4, <1>5, <1>6, <1>7, <1>8, <1>9 DEF IInv

LEMMA SignedInKeeps == ASSUME IInv, NEW c \in Calls, SignedIn(c) PROVE IInv'
<1> USE DEF SignedIn, world, storage, claims, history, End, setTokens
<1>1. TypeOK'
  BY DEF IInv, TypeOK, Ended, Answers
<1>2. \A t \in Calls : Token(t) => Stays(t)
  BY DEF IInv, TypeOK, Token, Stays, Genuine, AtAuth, Ended, Answers
<1>3. Phases'
  BY DEF IInv, TypeOK, Phases, AtGateway, AtAuth, Ended, Answers
<1>4. Awaited'
  BY DEF IInv, TypeOK, Phases, Awaited, AtGateway, AtAuth, Ended, Answers
<1>5. Tokens'
  <2>1. service[c] = "200" => Token(c)'
    BY DEF IInv, TypeOK, Signing, Signer, Token, Genuine, AtGateway, AtAuth, Ended
  <2> QED
    BY <1>2, <2>1 DEF IInv, TypeOK, Tokens, Stays
<1>6. Signing'
  BY DEF IInv, TypeOK, Signing, Signer, Phases, Genuine, Answers, AtAuth
<1>7. Acting'
  BY <1>2 DEF IInv, TypeOK, Acting, Phases, Tokens, Stays, Token
<1>8. AdminForCause'
  BY <1>2 DEF IInv, TypeOK, AdminForCause, Acting, Tokens, Stays
<1>9. Sharing'
  <2>1. ~Token(c)
    BY DEF Token
  <2>2. \A d \in Calls : presented[d] # c /\ body[d] # c
    BY <2>1, BrowserSessionAssumption DEF BrowserSessionAssumption, IInv, Tokens
  <2>3. service[c] = "200" => c \in rows
    BY DEF IInv, Signing, Signer
  <2>4. \A x \in Calls : \A d \in over'[x] : pc'[d] \in Ended
    BY DEF IInv, TypeOK, Sharing, Ended
  <2> SUFFICES ASSUME faults = 0 PROVE StoredIsGood' /\ \A x \in Calls : FailsForCause(x)'
    BY <2>4 DEF Sharing
  <2>5. StoredIsGood'
    <3>1. CASE service[c] = "200"
      BY <2>2, <2>3, <3>1 DEF StoredIsGood
    <3>2. CASE service[c] # "200"
      BY <3>2 DEF IInv, TypeOK, Phases, Awaited, Answers
    <3> QED
      BY <3>1, <3>2
  <2>6. ASSUME NEW x \in Calls PROVE FailsForCause(x)'
    <3>1. FailsForCause(x) /\ (pc'[x] = pc[x] \/ pc'[x] \notin {"refreshing", "login"})
      BY DEF IInv, TypeOK, Sharing, Ended
    <3>2. service[x] = "find" => service'[x] = "find"
      BY DEF IInv, TypeOK, Phases, Answers
    <3>3. service'[x] \in {"find", "401"} /\ x # c => service[x] = service'[x]
      BY DEF IInv, TypeOK
    <3> QED
      BY <1>2, <3>1, <3>2, <3>3
         DEF IInv, TypeOK, Phases, FailsForCause, Rival, Expired, Tokens, Stays, AtGateway
  <2> QED
    BY <2>5, <2>6
<1> QED
  BY <1>1, <1>3, <1>4, <1>5, <1>6, <1>7, <1>8, <1>9 DEF IInv

LEMMA AnsweredKeeps == ASSUME IInv, NEW c \in Calls, Answered(c) PROVE IInv'
<1> USE DEF Answered, world, storage, claims, history, Finish, End, clearTokens, Denied
<1>1. TypeOK'
  BY DEF IInv, TypeOK, Ended, Answers
<1>2. \A t \in Calls : Token(t) => Stays(t)
  BY DEF IInv, TypeOK, Token, Stays, Genuine, AtAuth, Ended, Answers
<1>3. Phases'
  BY DEF IInv, TypeOK, Phases, AtGateway, AtAuth, Ended, Answers
<1>4. Awaited'
  BY DEF IInv, TypeOK, Phases, Awaited, AtGateway, AtAuth, Ended, Answers
<1>5. Tokens'
  BY <1>2 DEF IInv, TypeOK, Tokens, Stays, Token
<1>6. Signing'
  BY DEF IInv, TypeOK, Signing, Signer, Phases, Genuine, Answers, AtAuth
<1>7. Acting'
  BY <1>2 DEF IInv, TypeOK, Acting, Phases, Tokens, Stays, Token
<1>8. AdminForCause'
  BY <1>2 DEF IInv, TypeOK, AdminForCause, Acting, Tokens, Stays
<1>9. Sharing'
  BY <1>2 DEF IInv, TypeOK, Sharing, StoredIsGood, FailsForCause, Phases, Awaited, Tokens,
     Token, Stays, Taker, Rival, Expired, AtGateway, AtAuth, Ended, Answers
<1> QED
  BY <1>1, <1>3, <1>4, <1>5, <1>6, <1>7, <1>8, <1>9 DEF IInv

LEMMA UnrefreshableKeeps == ASSUME IInv, NEW c \in Calls, Unrefreshable(c) PROVE IInv'
<1> USE DEF Unrefreshable, world, claims, history, Denied, End, clearTokens
<1>1. TypeOK'
  BY DEF IInv, TypeOK, Ended, Answers
<1>2. \A t \in Calls : Token(t) => Stays(t)
  BY DEF IInv, TypeOK, Token, Stays, Genuine, AtAuth, Ended, Answers
<1>3. Phases'
  BY DEF IInv, TypeOK, Phases, AtGateway, AtAuth, Ended, Answers
<1>4. Awaited'
  BY DEF IInv, TypeOK, Phases, Awaited, AtGateway, AtAuth, Ended, Answers
<1>5. Tokens'
  BY <1>2 DEF IInv, TypeOK, Tokens, Stays, Token
<1>6. Signing'
  BY DEF IInv, TypeOK, Signing, Signer, Phases, Genuine, Answers, AtAuth
<1>7. Acting'
  BY <1>2 DEF IInv, TypeOK, Acting, Phases, Tokens, Stays, Token
<1>8. AdminForCause'
  BY <1>2 DEF IInv, TypeOK, AdminForCause, Acting, Tokens, Stays
<1>9. Sharing'
  BY <1>2 DEF IInv, TypeOK, Sharing, StoredIsGood, FailsForCause, Phases, Awaited, Tokens,
     Token, Stays, Taker, Rival, Expired, AtGateway, AtAuth, Ended, Answers
<1> QED
  BY <1>1, <1>3, <1>4, <1>5, <1>6, <1>7, <1>8, <1>9 DEF IInv

LEMMA RefreshKeeps == ASSUME IInv, NEW c \in Calls, Refresh(c) PROVE IInv'
<1> USE DEF Refresh, world, storage, Denied, Send
<1>1. TypeOK'
  BY DEF IInv, TypeOK, Ended, Answers
<1>2. \A t \in Calls : Token(t) => Stays(t)
  BY DEF IInv, TypeOK, Token, Stays, Genuine, AtAuth, Ended, Answers
<1>3. Phases'
  BY DEF IInv, TypeOK, Phases, AtGateway, AtAuth, Ended, Answers
<1>4. Awaited'
  BY DEF IInv, TypeOK, Phases, Awaited, AtGateway, AtAuth, Ended, Answers
<1>5. Tokens'
  BY <1>2 DEF IInv, TypeOK, Tokens, Stays, Token
<1>6. Signing'
  <2>1. (member => now \in wasMember)'
    BY DEF IInv, Signing
  <2>2. \A x \in Calls \ {c} : Signer(x)'
    BY DEF IInv, TypeOK, Signing, Signer, Genuine
  <2>3. Signer(c)'
    BY BrowserSessionAssumption
       DEF BrowserSessionAssumption, IInv, TypeOK, Times, Signing, Signer, Genuine, Phases,
           Answers, AtAuth
  <2> QED
    BY <2>1, <2>2, <2>3 DEF Signing
<1>7. Acting'
  BY <1>2 DEF IInv, TypeOK, Acting, Phases, Tokens, Stays, Token
<1>8. AdminForCause'
  BY <1>2 DEF IInv, TypeOK, AdminForCause, Acting, Tokens, Stays
<1>9. Sharing'
  BY <1>2 DEF IInv, TypeOK, Sharing, StoredIsGood, FailsForCause, Phases, Awaited, Tokens,
     Token, Stays, Taker, Rival, Expired, AtGateway, AtAuth, Ended, Answers
<1> QED
  BY <1>1, <1>3, <1>4, <1>5, <1>6, <1>7, <1>8, <1>9 DEF IInv

LEMMA RefreshedKeeps == ASSUME IInv, NEW c \in Calls, Refreshed(c) PROVE IInv'
<1> USE DEF Refreshed, world, claims, history, Send, setTokens, Route
<1>1. TypeOK'
  BY DEF IInv, TypeOK, Ended, Answers
<1>2. \A t \in Calls : Token(t) => Stays(t)
  BY DEF IInv, TypeOK, Token, Stays, Genuine, AtAuth, Ended, Answers
<1>3. Phases'
  BY DEF IInv, TypeOK, Phases, AtGateway, AtAuth, Ended, Answers
<1>4. Awaited'
  BY DEF IInv, TypeOK, Phases, Awaited, AtGateway, AtAuth, Ended, Answers
<1>5. Tokens'
  <2>1. service[c] = "200" => Token(c)'
    BY DEF IInv, TypeOK, Signing, Signer, Token, Genuine, AtGateway, AtAuth, Ended
  <2> QED
    BY <1>2, <2>1 DEF IInv, TypeOK, Tokens, Stays
<1>6. Signing'
  BY DEF IInv, TypeOK, Signing, Signer, Phases, Genuine, Answers, AtAuth
<1>7. Acting'
  BY <1>2 DEF IInv, TypeOK, Acting, Phases, Tokens, Stays, Token
<1>8. AdminForCause'
  BY <1>2 DEF IInv, TypeOK, AdminForCause, Acting, Tokens, Stays
<1>9. Sharing'
  <2>1. ~Token(c)
    BY DEF Token
  <2>2. \A d \in Calls : presented[d] # c /\ body[d] # c
    BY <2>1, BrowserSessionAssumption DEF BrowserSessionAssumption, IInv, Tokens
  <2>3. service[c] = "200" => c \in rows
    BY DEF IInv, Signing, Signer
  <2>4. \A x \in Calls : \A d \in over'[x] : pc'[d] \in Ended
    BY DEF IInv, TypeOK, Sharing, Ended
  <2> SUFFICES ASSUME faults = 0 PROVE StoredIsGood' /\ \A x \in Calls : FailsForCause(x)'
    BY <2>4 DEF Sharing
  <2>5. StoredIsGood'
    <3>1. CASE service[c] = "200"
      BY <2>2, <2>3, <3>1 DEF StoredIsGood
    <3>2. CASE service[c] # "200"
      BY <3>2 DEF IInv, TypeOK, Phases, Awaited, Answers
    <3> QED
      BY <3>1, <3>2
  <2>6. ASSUME NEW x \in Calls PROVE FailsForCause(x)'
    <3>1. FailsForCause(x) /\ (pc'[x] = pc[x] \/ pc'[x] \notin {"refreshing", "login"})
      BY DEF IInv, TypeOK, Sharing, Ended
    <3>2. service[x] = "find" => service'[x] = "find"
      BY DEF IInv, TypeOK, Phases, Answers
    <3>3. service'[x] \in {"find", "401"} /\ x # c => service[x] = service'[x]
      BY DEF IInv, TypeOK
    <3> QED
      BY <1>2, <3>1, <3>2, <3>3
         DEF IInv, TypeOK, Phases, FailsForCause, Rival, Expired, Tokens, Stays, AtGateway
  <2> QED
    BY <2>5, <2>6
<1> QED
  BY <1>1, <1>3, <1>4, <1>5, <1>6, <1>7, <1>8, <1>9 DEF IInv

LEMMA RefreshFailsKeeps == ASSUME IInv, NEW c \in Calls, RefreshFails(c) PROVE IInv'
<1> USE DEF RefreshFails, world, claims, history, clearTokens, End
<1>1. TypeOK'
  BY DEF IInv, TypeOK, Ended, Answers
<1>2. \A t \in Calls : Token(t) => Stays(t)
  BY DEF IInv, TypeOK, Token, Stays, Genuine, AtAuth, Ended, Answers
<1>3. Phases'
  BY DEF IInv, TypeOK, Phases, AtGateway, AtAuth, Ended, Answers
<1>4. Awaited'
  BY DEF IInv, TypeOK, Phases, Awaited, AtGateway, AtAuth, Ended, Answers
<1>5. Tokens'
  BY <1>2 DEF IInv, TypeOK, Tokens, Stays, Token
<1>6. Signing'
  BY DEF IInv, TypeOK, Signing, Signer, Phases, Genuine, Answers, AtAuth
<1>7. Acting'
  BY <1>2 DEF IInv, TypeOK, Acting, Phases, Tokens, Stays, Token
<1>8. AdminForCause'
  BY <1>2 DEF IInv, TypeOK, AdminForCause, Acting, Tokens, Stays
<1>9. Sharing'
  BY <1>2 DEF IInv, TypeOK, Sharing, StoredIsGood, FailsForCause, Phases, Awaited, Tokens,
     Token, Stays, Taker, Rival, Expired, AtGateway, AtAuth, Ended, Answers
<1> QED
  BY <1>1, <1>3, <1>4, <1>5, <1>6, <1>7, <1>8, <1>9 DEF IInv

LEMMA GivesUpKeeps == ASSUME IInv, NEW c \in Calls, GivesUp(c) PROVE IInv'
<1> USE DEF GivesUp, storage, claims, history, Fault, clearTokens, End
<1>1. TypeOK'
  <2>1. faults' \in 0..MaxEvents
    BY BrowserSessionAssumption DEF BrowserSessionAssumption, IInv, TypeOK
  <2> QED
    BY <2>1 DEF IInv, TypeOK, Ended, Answers
<1>2. \A t \in Calls : Token(t) => Stays(t)
  BY DEF IInv, TypeOK, Token, Stays, Genuine, AtAuth, Ended, Answers
<1>3. Phases'
  BY DEF IInv, TypeOK, Phases, AtGateway, AtAuth, Ended, Answers
<1>4. Awaited'
  BY DEF IInv, TypeOK, Phases, Awaited, AtGateway, AtAuth, Ended, Answers
<1>5. Tokens'
  BY <1>2 DEF IInv, TypeOK, Tokens, Stays, Token
<1>6. Signing'
  BY DEF IInv, TypeOK, Signing, Signer, Phases, Genuine, Answers, AtAuth
<1>7. Acting'
  BY <1>2 DEF IInv, TypeOK, Acting, Phases, Tokens, Stays, Token
<1>8. AdminForCause'
  BY <1>2 DEF IInv, TypeOK, AdminForCause, Acting, Tokens, Stays
<1>9. Sharing'
  BY <1>2 DEF IInv, TypeOK, Sharing, StoredIsGood, FailsForCause, Phases, Awaited, Tokens,
     Token, Stays, Taker, Rival, Expired, AtGateway, AtAuth, Ended, Answers
<1> QED
  BY <1>1, <1>3, <1>4, <1>5, <1>6, <1>7, <1>8, <1>9 DEF IInv

-----------------------------------------------------------------------------
(* The gateway and the services *)

LEMMA GatewayAdmitsKeeps == ASSUME IInv, NEW c \in Calls, GatewayAdmits(c) PROVE IInv'
<1> USE DEF GatewayAdmits, world, storage, claims, Becomes, Valid
<1>1. TypeOK'
  BY DEF IInv, TypeOK, Ended, Answers
<1>2. \A t \in Calls : Token(t) => Stays(t)
  BY DEF IInv, TypeOK, Token, Stays, Genuine, AtAuth, Ended, Answers
<1>3. Phases'
  BY DEF IInv, TypeOK, Phases, AtGateway, AtAuth, Ended, Answers
<1>4. Awaited'
  BY DEF IInv, TypeOK, Phases, Awaited, AtGateway, AtAuth, Ended, Answers
<1>5. Tokens'
  BY <1>2 DEF IInv, TypeOK, Tokens, Stays, Token
<1>6. Signing'
  BY DEF IInv, TypeOK, Signing, Signer, Phases, Genuine, Answers, AtAuth
<1>7. Acting'
  BY <1>2 DEF IInv, TypeOK, Acting, Phases, Tokens, Stays, Token
<1>8. AdminForCause'
  BY <1>2 DEF IInv, TypeOK, AdminForCause, Acting, Tokens, Stays
<1>9. Sharing'
  BY <1>2 DEF IInv, TypeOK, Sharing, StoredIsGood, FailsForCause, Phases, Awaited, Tokens,
     Token, Stays, Taker, Rival, Expired, AtGateway, AtAuth, Ended, Answers
<1> QED
  BY <1>1, <1>3, <1>4, <1>5, <1>6, <1>7, <1>8, <1>9 DEF IInv

LEMMA GatewayDeniesKeeps == ASSUME IInv, NEW c \in Calls, GatewayDenies(c) PROVE IInv'
<1> USE DEF GatewayDenies, world, storage, claims, Becomes
<1>1. TypeOK'
  BY DEF IInv, TypeOK, Ended, Answers
<1>2. \A t \in Calls : Token(t) => Stays(t)
  BY DEF IInv, TypeOK, Token, Stays, Genuine, AtAuth, Ended, Answers
<1>3. Phases'
  BY DEF IInv, TypeOK, Phases, AtGateway, AtAuth, Ended, Answers
<1>4. Awaited'
  BY DEF IInv, TypeOK, Phases, Awaited, AtGateway, AtAuth, Ended, Answers
<1>5. Tokens'
  BY <1>2 DEF IInv, TypeOK, Tokens, Stays, Token
<1>6. Signing'
  BY DEF IInv, TypeOK, Signing, Signer, Phases, Genuine, Answers, AtAuth
<1>7. Acting'
  BY <1>2 DEF IInv, TypeOK, Acting, Phases, Tokens, Stays, Token
<1>8. AdminForCause'
  BY <1>2 DEF IInv, TypeOK, AdminForCause, Acting, Tokens, Stays
<1>9. Sharing'
  BY <1>2 DEF IInv, TypeOK, Sharing, StoredIsGood, FailsForCause, Phases, Awaited, Tokens,
     Token, Stays, Taker, Rival, Expired, AtGateway, AtAuth, Ended, Answers
<1> QED
  BY <1>1, <1>3, <1>4, <1>5, <1>6, <1>7, <1>8, <1>9 DEF IInv

LEMMA ActsKeeps == ASSUME IInv, NEW c \in Calls, Acts(c) PROVE IInv'
<1> USE DEF Acts, world, storage, claims, Becomes
<1>1. TypeOK'
  BY DEF IInv, TypeOK, Ended, Answers
<1>2. \A t \in Calls : Token(t) => Stays(t)
  BY DEF IInv, TypeOK, Token, Stays, Genuine, AtAuth, Ended, Answers
<1>3. Phases'
  BY DEF IInv, TypeOK, Phases, AtGateway, AtAuth, Ended, Answers
<1>4. Awaited'
  BY DEF IInv, TypeOK, Phases, Awaited, AtGateway, AtAuth, Ended, Answers
<1>5. Tokens'
  BY <1>2 DEF IInv, TypeOK, Tokens, Stays, Token
<1>6. Signing'
  BY DEF IInv, TypeOK, Signing, Signer, Phases, Genuine, Answers, AtAuth
<1>7. Acting'
  <2>1. acted[c] = 0
    BY DEF IInv, TypeOK, Acting
  <2>2. \A x \in Calls \ {c} : acted'[x] = acted[x] /\ service'[x] = service[x]
    BY DEF IInv, TypeOK
  <2>3. acted'[c] > 0 => acted'[c] = 1 /\ service'[c] = "acted"
    BY <2>1 DEF IInv, TypeOK
  <2>4. service'[c] # "act" /\ bearer[c] # None /\ pc[c] \notin {"idle", "signingIn", "refreshing"}
    BY DEF IInv, TypeOK, Acting, Phases, AtAuth
  <2> QED
    BY <2>2, <2>3, <2>4 DEF IInv, Acting
<1>8. AdminForCause'
  <2>1. \A x \in Calls \ {c} : acted'[x] = acted[x]
    BY DEF IInv, TypeOK
  <2>2. acted'[c] > 0 => groups[bearer[c]]
    BY DEF IInv, TypeOK, Acting
  <2>3. Genuine(bearer[c]) /\ admitted[c] <= signed[bearer[c]] + ACCESS_TTL
    BY DEF IInv, Acting, Tokens, Token
  <2> QED
    BY <2>1, <2>2, <2>3 DEF IInv, AdminForCause, Genuine
<1>9. Sharing'
  BY <1>2 DEF IInv, TypeOK, Sharing, StoredIsGood, FailsForCause, Phases, Awaited, Tokens,
     Token, Stays, Taker, Rival, Expired, AtGateway, AtAuth, Ended, Answers
<1> QED
  BY <1>1, <1>3, <1>4, <1>5, <1>6, <1>7, <1>8, <1>9 DEF IInv

LEMMA RepliesKeeps == ASSUME IInv, NEW c \in Calls, Replies(c) PROVE IInv'
<1> USE DEF Replies, world, storage, claims, Becomes
<1>1. TypeOK'
  BY DEF IInv, TypeOK, Ended, Answers
<1>2. \A t \in Calls : Token(t) => Stays(t)
  BY DEF IInv, TypeOK, Token, Stays, Genuine, AtAuth, Ended, Answers
<1>3. Phases'
  BY DEF IInv, TypeOK, Phases, AtGateway, AtAuth, Ended, Answers
<1>4. Awaited'
  BY DEF IInv, TypeOK, Phases, Awaited, AtGateway, AtAuth, Ended, Answers
<1>5. Tokens'
  BY <1>2 DEF IInv, TypeOK, Tokens, Stays, Token
<1>6. Signing'
  BY DEF IInv, TypeOK, Signing, Signer, Phases, Genuine, Answers, AtAuth
<1>7. Acting'
  BY <1>2 DEF IInv, TypeOK, Acting, Phases, Tokens, Stays, Token
<1>8. AdminForCause'
  BY <1>2 DEF IInv, TypeOK, AdminForCause, Acting, Tokens, Stays
<1>9. Sharing'
  BY <1>2 DEF IInv, TypeOK, Sharing, StoredIsGood, FailsForCause, Phases, Awaited, Tokens,
     Token, Stays, Taker, Rival, Expired, AtGateway, AtAuth, Ended, Answers
<1> QED
  BY <1>1, <1>3, <1>4, <1>5, <1>6, <1>7, <1>8, <1>9 DEF IInv

LEMMA FindsKeeps == ASSUME IInv, NEW c \in Calls, Finds(c) PROVE IInv'
<1> USE DEF Finds, world, storage, claims, Becomes
<1>1. TypeOK'
  BY DEF IInv, TypeOK, Ended, Answers
<1>2. \A t \in Calls : Token(t) => Stays(t)
  BY DEF IInv, TypeOK, Token, Stays, Genuine, AtAuth, Ended, Answers
<1>3. Phases'
  BY DEF IInv, TypeOK, Phases, AtGateway, AtAuth, Ended, Answers
<1>4. Awaited'
  BY DEF IInv, TypeOK, Phases, Awaited, AtGateway, AtAuth, Ended, Answers
<1>5. Tokens'
  BY <1>2 DEF IInv, TypeOK, Tokens, Stays, Token
<1>6. Signing'
  BY DEF IInv, TypeOK, Signing, Signer, Phases, Genuine, Answers, AtAuth
<1>7. Acting'
  BY <1>2 DEF IInv, TypeOK, Acting, Phases, Tokens, Stays, Token
<1>8. AdminForCause'
  BY <1>2 DEF IInv, TypeOK, AdminForCause, Acting, Tokens, Stays
<1>9. Sharing'
  <2>1. \A x \in Calls \ {c} : service'[x] = service[x]
    BY DEF IInv, TypeOK
  <2>2. presented[c] \in rows \/ (faults = 0 => Rival(c))
    BY DEF IInv, Sharing, FailsForCause
  <2>3. service'[c] = "401" /\ faults = 0 => Expired(c) \/ Rival(c)
    <3>1. now \in Nat /\ signed[presented[c]] \in Nat
      BY BrowserSessionAssumption
         DEF BrowserSessionAssumption, IInv, TypeOK, Times, Phases, Tokens, Token
    <3> QED
      BY <2>2, <3>1, BrowserSessionAssumption DEF BrowserSessionAssumption, IInv, TypeOK, Expired
  <2>4. service'[c] \in {"rotate", "401"}
    BY DEF IInv, TypeOK
  <2>5. faults = 0 => StoredIsGood'
    BY <2>1, <2>4 DEF IInv, Sharing, StoredIsGood, Taker
  <2>6. faults = 0 => FailsForCause(c)'
    BY <2>3, <2>4 DEF IInv, Awaited, FailsForCause, Rival, Expired
  <2>7. faults = 0 => \A x \in Calls \ {c} : FailsForCause(x)'
    BY <2>1 DEF IInv, Sharing, FailsForCause, Rival, Expired
  <2> QED
    BY <2>5, <2>6, <2>7 DEF IInv, Sharing
<1> QED
  BY <1>1, <1>3, <1>4, <1>5, <1>6, <1>7, <1>8, <1>9 DEF IInv

LEMMA RotatesKeeps == ASSUME IInv, NEW c \in Calls, Rotates(c) PROVE IInv'
<1> USE DEF Rotates, world, storage, claims, Becomes
<1>1. TypeOK'
  BY DEF IInv, TypeOK, Ended, Answers
<1>2. \A t \in Calls : Token(t) => Stays(t)
  BY DEF IInv, TypeOK, Token, Stays, Genuine, AtAuth, Ended, Answers
<1>3. Phases'
  BY DEF IInv, TypeOK, Phases, AtGateway, AtAuth, Ended, Answers
<1>4. Awaited'
  BY DEF IInv, TypeOK, Phases, Awaited, AtGateway, AtAuth, Ended, Answers
<1>5. Tokens'
  BY <1>2 DEF IInv, TypeOK, Tokens, Stays, Token
<1>6. Signing'
  <2>1. (member => now \in wasMember)'
    BY DEF IInv, Signing
  <2>2. ASSUME NEW x \in Calls \ {c} PROVE Signer(x)'
    <3>1. Signer(x) /\ pc'[x] = pc[x] /\ service'[x] = service[x]
      BY DEF IInv, TypeOK, Signing
    <3>2. pc[x] \in {"signingIn", "refreshing"} /\ x \in rows => x \in rows'
      BY DEF IInv, Phases, Tokens, Token
    <3> QED
      BY <3>1, <3>2 DEF Signer, Genuine
  <2>3. Signer(c)'
    BY BrowserSessionAssumption
       DEF BrowserSessionAssumption, IInv, TypeOK, Times, Signing, Signer, Genuine, Phases,
           Answers, AtAuth
  <2> QED
    BY <2>1, <2>2, <2>3 DEF Signing
<1>7. Acting'
  BY <1>2 DEF IInv, TypeOK, Acting, Phases, Tokens, Stays, Token
<1>8. AdminForCause'
  BY <1>2 DEF IInv, TypeOK, AdminForCause, Acting, Tokens, Stays
<1>9. Sharing'
  BY <1>2 DEF IInv, TypeOK, Sharing, StoredIsGood, FailsForCause, Phases, Awaited, Tokens,
     Token, Stays, Taker, Rival, Expired, AtGateway, AtAuth, Ended, Answers
<1> QED
  BY <1>1, <1>3, <1>4, <1>5, <1>6, <1>7, <1>8, <1>9 DEF IInv

LEMMA ReadsGroupsKeeps == ASSUME IInv, NEW c \in Calls, ReadsGroups(c) PROVE IInv'
<1> USE DEF ReadsGroups, world, storage, Becomes
<1>1. TypeOK'
  BY DEF IInv, TypeOK, Ended, Answers
<1>2. \A t \in Calls : Token(t) => Stays(t)
  BY DEF IInv, TypeOK, Token, Stays, Genuine, AtAuth, Ended, Answers
<1>3. Phases'
  BY DEF IInv, TypeOK, Phases, AtGateway, AtAuth, Ended, Answers
<1>4. Awaited'
  BY DEF IInv, TypeOK, Phases, Awaited, AtGateway, AtAuth, Ended, Answers
<1>5. Tokens'
  BY <1>2 DEF IInv, TypeOK, Tokens, Stays, Token
<1>6. Signing'
  <2>1. (member => now \in wasMember)'
    BY DEF IInv, Signing
  <2>2. \A x \in Calls \ {c} : Signer(x)'
    BY DEF IInv, TypeOK, Signing, Signer, Genuine
  <2>3. Signer(c)'
    BY BrowserSessionAssumption
       DEF BrowserSessionAssumption, IInv, TypeOK, Times, Signing, Signer, Genuine, Phases,
           Answers, AtAuth
  <2> QED
    BY <2>1, <2>2, <2>3 DEF Signing
<1>7. Acting'
  BY <1>2 DEF IInv, TypeOK, Acting, Phases, Tokens, Stays, Token
<1>8. AdminForCause'
  BY <1>2 DEF IInv, TypeOK, AdminForCause, Acting, Tokens, Stays
<1>9. Sharing'
  BY <1>2 DEF IInv, TypeOK, Sharing, StoredIsGood, FailsForCause, Phases, Awaited, Tokens,
     Token, Stays, Taker, Rival, Expired, AtGateway, AtAuth, Ended, Answers
<1> QED
  BY <1>1, <1>3, <1>4, <1>5, <1>6, <1>7, <1>8, <1>9 DEF IInv

LEMMA SignsKeeps == ASSUME IInv, NEW c \in Calls, Signs(c) PROVE IInv'
<1> USE DEF Signs, world, storage, Becomes
<1>1. TypeOK'
  BY DEF IInv, TypeOK, Ended, Answers
<1>2. \A t \in Calls : Token(t) => Stays(t)
  BY DEF IInv, TypeOK, Token, Stays, Genuine, AtAuth, Ended, Answers
<1>3. Phases'
  BY DEF IInv, TypeOK, Phases, AtGateway, AtAuth, Ended, Answers
<1>4. Awaited'
  BY DEF IInv, TypeOK, Phases, Awaited, AtGateway, AtAuth, Ended, Answers
<1>5. Tokens'
  BY <1>2 DEF IInv, TypeOK, Tokens, Stays, Token
<1>6. Signing'
  <2>1. (member => now \in wasMember)'
    BY DEF IInv, Signing
  <2>2. \A x \in Calls \ {c} : Signer(x)'
    BY DEF IInv, TypeOK, Signing, Signer, Genuine
  <2>3. Signer(c)'
    BY BrowserSessionAssumption
       DEF BrowserSessionAssumption, IInv, TypeOK, Times, Signing, Signer, Genuine, Phases,
           Answers, AtAuth
  <2> QED
    BY <2>1, <2>2, <2>3 DEF Signing
<1>7. Acting'
  BY <1>2 DEF IInv, TypeOK, Acting, Phases, Tokens, Stays, Token
<1>8. AdminForCause'
  BY <1>2 DEF IInv, TypeOK, AdminForCause, Acting, Tokens, Stays
<1>9. Sharing'
  BY <1>2 DEF IInv, TypeOK, Sharing, StoredIsGood, FailsForCause, Phases, Awaited, Tokens,
     Token, Stays, Taker, Rival, Expired, AtGateway, AtAuth, Ended, Answers
<1> QED
  BY <1>1, <1>3, <1>4, <1>5, <1>6, <1>7, <1>8, <1>9 DEF IInv

LEMMA FindsToRevokeKeeps == ASSUME IInv, NEW c \in Calls, FindsToRevoke(c) PROVE IInv'
<1> USE DEF FindsToRevoke, world, storage, claims, Becomes
<1>1. TypeOK'
  BY DEF IInv, TypeOK, Ended, Answers
<1>2. \A t \in Calls : Token(t) => Stays(t)
  BY DEF IInv, TypeOK, Token, Stays, Genuine, AtAuth, Ended, Answers
<1>3. Phases'
  BY DEF IInv, TypeOK, Phases, AtGateway, AtAuth, Ended, Answers
<1>4. Awaited'
  BY DEF IInv, TypeOK, Phases, Awaited, AtGateway, AtAuth, Ended, Answers
<1>5. Tokens'
  BY <1>2 DEF IInv, TypeOK, Tokens, Stays, Token
<1>6. Signing'
  BY DEF IInv, TypeOK, Signing, Signer, Phases, Genuine, Answers, AtAuth
<1>7. Acting'
  BY <1>2 DEF IInv, TypeOK, Acting, Phases, Tokens, Stays, Token
<1>8. AdminForCause'
  BY <1>2 DEF IInv, TypeOK, AdminForCause, Acting, Tokens, Stays
<1>9. Sharing'
  BY <1>2 DEF IInv, TypeOK, Sharing, StoredIsGood, FailsForCause, Phases, Awaited, Tokens,
     Token, Stays, Taker, Rival, Expired, AtGateway, AtAuth, Ended, Answers
<1> QED
  BY <1>1, <1>3, <1>4, <1>5, <1>6, <1>7, <1>8, <1>9 DEF IInv

LEMMA RevokesKeeps == ASSUME IInv, NEW c \in Calls, Revokes(c) PROVE IInv'
<1> USE DEF Revokes, world, storage, claims, Becomes
<1>1. TypeOK'
  BY DEF IInv, TypeOK, Ended, Answers
<1>2. \A t \in Calls : Token(t) => Stays(t)
  BY DEF IInv, TypeOK, Token, Stays, Genuine, AtAuth, Ended, Answers
<1>3. Phases'
  BY DEF IInv, TypeOK, Phases, AtGateway, AtAuth, Ended, Answers
<1>4. Awaited'
  BY DEF IInv, TypeOK, Phases, Awaited, AtGateway, AtAuth, Ended, Answers
<1>5. Tokens'
  BY <1>2 DEF IInv, TypeOK, Tokens, Stays, Token
<1>6. Signing'
  <2>1. (member => now \in wasMember)'
    BY DEF IInv, Signing
  <2>2. ASSUME NEW x \in Calls \ {c} PROVE Signer(x)'
    <3>1. Signer(x) /\ pc'[x] = pc[x] /\ service'[x] = service[x]
      BY DEF IInv, TypeOK, Signing
    <3>2. pc[x] \in {"signingIn", "refreshing"} /\ x \in rows => x \in rows'
      BY DEF IInv, Phases, Tokens, Token
    <3> QED
      BY <3>1, <3>2 DEF Signer, Genuine
  <2>3. Signer(c)'
    BY BrowserSessionAssumption
       DEF BrowserSessionAssumption, IInv, TypeOK, Times, Signing, Signer, Genuine, Phases,
           Answers, AtAuth
  <2> QED
    BY <2>1, <2>2, <2>3 DEF Signing
<1>7. Acting'
  BY <1>2 DEF IInv, TypeOK, Acting, Phases, Tokens, Stays, Token
<1>8. AdminForCause'
  BY <1>2 DEF IInv, TypeOK, AdminForCause, Acting, Tokens, Stays
<1>9. Sharing'
  BY <1>2 DEF IInv, TypeOK, Sharing, StoredIsGood, FailsForCause, Phases, Awaited, Tokens,
     Token, Stays, Taker, Rival, Expired, AtGateway, AtAuth, Ended, Answers
<1> QED
  BY <1>1, <1>3, <1>4, <1>5, <1>6, <1>7, <1>8, <1>9 DEF IInv

LEMMA ServiceFailsKeeps == ASSUME IInv, NEW c \in Calls, ServiceFails(c) PROVE IInv'
<1> USE DEF ServiceFails, storage, claims, Fault, Becomes
<1>1. TypeOK'
  <2>1. faults' \in 0..MaxEvents
    BY BrowserSessionAssumption DEF BrowserSessionAssumption, IInv, TypeOK
  <2> QED
    BY <2>1 DEF IInv, TypeOK, Ended, Answers
<1>2. \A t \in Calls : Token(t) => Stays(t)
  BY DEF IInv, TypeOK, Token, Stays, Genuine, AtAuth, Ended, Answers
<1>3. Phases'
  BY DEF IInv, TypeOK, Phases, AtGateway, AtAuth, Ended, Answers
<1>4. Awaited'
  BY DEF IInv, TypeOK, Phases, Awaited, AtGateway, AtAuth, Ended, Answers
<1>5. Tokens'
  BY <1>2 DEF IInv, TypeOK, Tokens, Stays, Token
<1>6. Signing'
  BY DEF IInv, TypeOK, Signing, Signer, Phases, Genuine, Answers, AtAuth
<1>7. Acting'
  BY <1>2 DEF IInv, TypeOK, Acting, Phases, Tokens, Stays, Token
<1>8. AdminForCause'
  BY <1>2 DEF IInv, TypeOK, AdminForCause, Acting, Tokens, Stays
<1>9. Sharing'
  BY <1>2 DEF IInv, TypeOK, Sharing, StoredIsGood, FailsForCause, Phases, Awaited, Tokens,
     Token, Stays, Taker, Rival, Expired, AtGateway, AtAuth, Ended, Answers
<1> QED
  BY <1>1, <1>3, <1>4, <1>5, <1>6, <1>7, <1>8, <1>9 DEF IInv

-----------------------------------------------------------------------------
(* The environment *)

LEMMA RenderKeeps == ASSUME IInv, Render PROVE IInv'
<1> USE DEF Render, world, claims, history
<1>1. TypeOK'
  BY DEF IInv, TypeOK, Ended, Answers
<1>2. \A t \in Calls : Token(t) => Stays(t)
  BY DEF IInv, TypeOK, Token, Stays, Genuine, AtAuth, Ended, Answers
<1>3. Phases'
  BY DEF IInv, TypeOK, Phases, AtGateway, AtAuth, Ended, Answers
<1>4. Awaited'
  BY DEF IInv, TypeOK, Phases, Awaited, AtGateway, AtAuth, Ended, Answers
<1>5. Tokens'
  BY <1>2 DEF IInv, TypeOK, Tokens, Stays, Token
<1>6. Signing'
  BY DEF IInv, TypeOK, Signing, Signer, Phases, Genuine, Answers, AtAuth
<1>7. Acting'
  BY <1>2 DEF IInv, TypeOK, Acting, Phases, Tokens, Stays, Token
<1>8. AdminForCause'
  BY <1>2 DEF IInv, TypeOK, AdminForCause, Acting, Tokens, Stays
<1>9. Sharing'
  BY <1>2 DEF IInv, TypeOK, Sharing, StoredIsGood, FailsForCause, Phases, Awaited, Tokens,
     Token, Stays, Taker, Rival, Expired, AtGateway, AtAuth, Ended, Answers
<1> QED
  BY <1>1, <1>3, <1>4, <1>5, <1>6, <1>7, <1>8, <1>9 DEF IInv

LEMMA RegroupKeeps == ASSUME IInv, Regroup PROVE IInv'
<1> USE DEF Regroup, storage, claims, history
<1>1. TypeOK'
  <2>1. regroups' \in 0..MaxEvents
    BY BrowserSessionAssumption DEF BrowserSessionAssumption, IInv, TypeOK
  <2> QED
    BY <2>1 DEF IInv, TypeOK
<1>2. \A t \in Calls : Token(t) => Stays(t)
  BY DEF IInv, TypeOK, Token, Stays, Genuine, AtAuth, Ended, Answers
<1>3. Phases'
  BY DEF IInv, TypeOK, Phases, AtGateway, AtAuth, Ended, Answers
<1>4. Awaited'
  BY DEF IInv, TypeOK, Phases, Awaited, AtGateway, AtAuth, Ended, Answers
<1>5. Tokens'
  BY <1>2 DEF IInv, TypeOK, Tokens, Stays, Token
<1>6. Signing'
  BY DEF IInv, TypeOK, Signing, Signer, Phases, Genuine, Answers, AtAuth
<1>7. Acting'
  BY <1>2 DEF IInv, TypeOK, Acting, Phases, Tokens, Stays, Token
<1>8. AdminForCause'
  BY <1>2 DEF IInv, TypeOK, AdminForCause, Acting, Tokens, Stays
<1>9. Sharing'
  BY <1>2 DEF IInv, TypeOK, Sharing, StoredIsGood, FailsForCause, Phases, Awaited, Tokens,
     Token, Stays, Taker, Rival, Expired, AtGateway, AtAuth, Ended, Answers
<1> QED
  BY <1>1, <1>3, <1>4, <1>5, <1>6, <1>7, <1>8, <1>9 DEF IInv

LEMMA TickKeeps == ASSUME IInv, Tick PROVE IInv'
<1> USE DEF Tick, storage, claims, history
<1>1. TypeOK'
  <2>1. now' \in Times /\ wasMember' \subseteq Times
    BY BrowserSessionAssumption DEF BrowserSessionAssumption, IInv, TypeOK, Times
  <2> QED
    BY <2>1 DEF IInv, TypeOK
<1>2. \A t \in Calls : Token(t) => Stays(t)
  BY DEF IInv, TypeOK, Token, Stays, Genuine, AtAuth, Ended, Answers
<1>3. Phases'
  BY DEF IInv, TypeOK, Phases, AtGateway, AtAuth, Ended, Answers
<1>4. Awaited'
  BY DEF IInv, TypeOK, Phases, Awaited, AtGateway, AtAuth, Ended, Answers
<1>5. Tokens'
  BY <1>2 DEF IInv, TypeOK, Tokens, Stays, Token
<1>6. Signing'
  <2>1. \A i \in Times : i <= now => i <= now'
    BY BrowserSessionAssumption DEF BrowserSessionAssumption, IInv, TypeOK, Times
  <2> QED
    BY <2>1 DEF IInv, TypeOK, Signing, Signer, Genuine
<1>7. Acting'
  BY <1>2 DEF IInv, TypeOK, Acting, Phases, Tokens, Stays, Token
<1>8. AdminForCause'
  BY <1>2 DEF IInv, TypeOK, AdminForCause, Acting, Tokens, Stays
<1>9. Sharing'
  <2>1. \A i \in Nat : now > i => now' > i
    BY BrowserSessionAssumption DEF BrowserSessionAssumption, IInv, TypeOK, Times
  <2>2. \A x \in Calls : presented[x] # None => (Expired(x) => Expired(x)')
    BY <2>1, BrowserSessionAssumption
       DEF BrowserSessionAssumption, IInv, TypeOK, Times, Tokens, Token, Expired
  <2>3. \A x \in Calls : FailsForCause(x) => FailsForCause(x)'
    BY <2>2 DEF IInv, Phases, FailsForCause, Rival
  <2> QED
    BY <2>3 DEF IInv, Sharing, StoredIsGood, Taker
<1> QED
  BY <1>1, <1>3, <1>4, <1>5, <1>6, <1>7, <1>8, <1>9 DEF IInv

-----------------------------------------------------------------------------
(* The theorems *)

LEMMA CallKeeps ==
  ASSUME IInv, NEW c \in Calls,
         Starts(c) \/ Browser(c) \/ Serves(c) \/ GivesUp(c) \/ ServiceFails(c)
  PROVE  IInv'
<1>1. CASE Starts(c)
  BY <1>1, SignInKeeps, WriteKeeps, SignOutKeeps, SignOutWithoutTokenKeeps DEF Starts
<1>2. CASE Browser(c)
  BY <1>2, SignedInKeeps, AnsweredKeeps, UnrefreshableKeeps, RefreshKeeps, RefreshedKeeps,
     RefreshFailsKeeps DEF Browser
<1>3. CASE Serves(c)
  BY <1>3, GatewayAdmitsKeeps, GatewayDeniesKeeps, ActsKeeps, RepliesKeeps, FindsKeeps,
     RotatesKeeps, ReadsGroupsKeeps, SignsKeeps, FindsToRevokeKeeps, RevokesKeeps DEF Serves
<1>4. CASE GivesUp(c) \/ ServiceFails(c)
  BY <1>4, GivesUpKeeps, ServiceFailsKeeps
<1> QED
  BY <1>1, <1>2, <1>3, <1>4

LEMMA StutterKeeps == ASSUME IInv, UNCHANGED vars PROVE IInv'
<1> USE DEF vars, world, storage, claims, history
<1>1. TypeOK' /\ Phases' /\ Awaited'
  BY DEF IInv, TypeOK, Phases, Awaited
<1>2. Tokens' /\ Signing'
  BY DEF IInv, Tokens, Token, Signing, Signer, Genuine
<1>3. Acting' /\ AdminForCause'
  BY DEF IInv, Acting, AdminForCause
<1>4. Sharing'
  BY DEF IInv, Sharing, StoredIsGood, FailsForCause, Taker, Rival, Expired
<1> QED
  BY <1>1, <1>2, <1>3, <1>4 DEF IInv

LEMMA Invariance == Spec => []IInv
<1>1. ASSUME IInv, [Next]_vars PROVE IInv'
  BY <1>1, CallKeeps, RenderKeeps, RegroupKeeps, TickKeeps, StutterKeeps DEF Next
<1> QED
  BY InitIInv, <1>1, PTL DEF Spec

\* Every reachable state is well typed.
THEOREM TypeCorrect == Spec => []TypeOK
<1>1. IInv => TypeOK
  BY DEF IInv
<1> QED
  BY <1>1, Invariance, PTL

\* Whoever writes as an admin was one while the token was made, and the token
\* was good when the gateway let the write pass, for any number of tabs.
THEOREM AdminForCauseHolds == Spec => []AdminForCause
<1>1. IInv => AdminForCause
  BY DEF IInv
<1> QED
  BY <1>1, Invariance, PTL

\* apiFetch never has a write carried out twice.
THEOREM WrittenOnceHolds == Spec => []WrittenOnce
<1>1. IInv => WrittenOnce
  <2> SUFFICES ASSUME IInv, NEW c \in Calls PROVE acted[c] <= 1
    BY DEF WrittenOnce
  <2>1. acted[c] \in Nat /\ (acted[c] > 0 => acted[c] = 1)
    BY DEF IInv, TypeOK, Acting
  <2> QED
    BY <2>1
<1> QED
  BY <1>1, Invariance, PTL

\* Without faults a user is sent to the login page only when the session is
\* over, or when two uses of one refresh token overlap.
THEOREM SentToLoginForCauseHolds == Spec => []SentToLoginForCause
<1>1. IInv => SentToLoginForCause
  BY DEF IInv, Sharing, FailsForCause, Rival, Expired, SentToLoginForCause
<1> QED
  BY <1>1, Invariance, PTL

\* Without faults, once all calls are through, localStorage holds a usable pair
\* or nothing.
THEOREM StoredSessionIsLiveHolds == Spec => []StoredSessionIsLive
<1>1. IInv => StoredSessionIsLive
  BY DEF IInv, Tokens, Sharing, StoredIsGood, Taker, Ended, StoredSessionIsLive
<1> QED
  BY <1>1, Invariance, PTL

-----------------------------------------------------------------------------
(***************************************************************************)
(* The refinement: the requests that calls make of the auth-service are    *)
(* those of a ledger of sessions, the one that AuthSessions implements.    *)
(***************************************************************************)

\* What kind of call is in touch with which handler, and that apiFetch makes
\* its second request only after it has refreshed.
Contacts ==
    \A c \in Calls :
        /\ pc[c] = "signingIn" => op[c] = "signIn"
        /\ op[c] = "signIn" => /\ pc[c] \in {"signingIn"} \union Ended
                               /\ service[c] \in {"groups", "sign", "200", "500"}
        /\ Again(c) => presented[c] # None
        /\ service[c] \in AtGateway /\ presented[c] # None => Again(c)
        /\ service[c] \in {"groups", "sign"} => op[c] = "signIn" \/ presented[c] # None

\* What is in the table, and what the browser holds or sends, was given to it.
HeldWasGiven ==
    /\ \A c \in rows : Given(Session(c))
    /\ refresh # None => Given(Session(refresh))
    /\ rendered # None => Given(Session(rendered))
    /\ \A c \in Calls : /\ presented[c] # None => Given(Session(presented[c]))
                        /\ body[c] # None => Given(Session(body[c]))

LInv == IInv /\ Contacts /\ HeldWasGiven

LEMMA InitLInv == Init => LInv
  BY InitIInv, BrowserSessionAssumption
     DEF LInv, Contacts, HeldWasGiven, Init, Again, BrowserSessionAssumption, AtGateway

\* What a step on behalf of c leaves alone.
Frame(c) ==
    \A d \in Calls \ {c} : /\ op'[d] = op[d] /\ pc'[d] = pc[d] /\ service'[d] = service[d]
                           /\ bearer'[d] = bearer[d] /\ body'[d] = body[d]
                           /\ presented'[d] = presented[d]

LEMMA FrameHolds ==
  ASSUME TypeOK, NEW c \in Calls,
         Starts(c) \/ Browser(c) \/ Serves(c) \/ GivesUp(c) \/ ServiceFails(c)
  PROVE  Frame(c)
<1> USE DEF TypeOK, Frame, Start, Send, End, Becomes
<1>1. CASE Starts(c)
  BY <1>1 DEF Starts, SignIn, Write, SignOut, SignOutWithoutToken
<1>2. CASE Browser(c)
  BY <1>2 DEF Browser, SignedIn, Answered, Finish, Unrefreshable, Refresh, Refreshed, RefreshFails
<1>3. CASE Serves(c)
  BY <1>3 DEF Serves, GatewayAdmits, GatewayDenies, Acts, Replies, Finds, Rotates, ReadsGroups,
     Signs, FindsToRevoke, Revokes
<1>4. CASE GivesUp(c) \/ ServiceFails(c)
  BY <1>4 DEF GivesUp, ServiceFails
<1> QED
  BY <1>1, <1>2, <1>3, <1>4

\* A pair that was given stays so.
LEMMA GivenStays ==
  ASSUME LInv, NEW c \in Calls, NEW t \in Calls, Given(Session(t)),
         Starts(c) \/ Browser(c) \/ Serves(c) \/ GivesUp(c) \/ ServiceFails(c)
  PROVE  Given(Session(t))'
<1> USE DEF LInv, IInv, TypeOK, Given, Session, Again, Start, Send, End, Becomes
<1>1. CASE t # c
  BY <1>1, FrameHolds DEF Frame
<1>2. ASSUME t = c, Starts(c) PROVE Given(Session(t))'
  <2>1. pc[c] = "idle"
    BY <1>2 DEF Starts, SignIn, Write, SignOut, SignOutWithoutToken
  <2>2. service[c] = "none" /\ ~Token(c)
    BY <2>1 DEF Phases, Token
  <2>3. bearer[c] # c
    BY <2>2, BrowserSessionAssumption DEF Tokens, BrowserSessionAssumption
  <2> QED
    BY <1>2, <2>2, <2>3
<1>3. ASSUME t = c, Browser(c) PROVE Given(Session(t))'
  BY <1>3 DEF Browser, SignedIn, Answered, Finish, Unrefreshable, Refresh, Refreshed, RefreshFails,
     Denied, Tokens, Token
<1>4. ASSUME t = c, Serves(c) PROVE Given(Session(t))'
  BY <1>4 DEF Serves, GatewayAdmits, GatewayDenies, Acts, Replies, Finds, Rotates, ReadsGroups,
     Signs, FindsToRevoke, Revokes
<1>5. ASSUME t = c, GivesUp(c) \/ ServiceFails(c) PROVE Given(Session(t))'
  BY <1>5 DEF GivesUp, ServiceFails, Answers
<1> QED
  BY <1>1, <1>2, <1>3, <1>4, <1>5

LEMMA ContactsKeeps ==
  ASSUME LInv, NEW c \in Calls,
         Starts(c) \/ Browser(c) \/ Serves(c) \/ GivesUp(c) \/ ServiceFails(c)
  PROVE  Contacts'
<1> DEFINE Contact(d) ==
             /\ pc[d] = "signingIn" => op[d] = "signIn"
             /\ op[d] = "signIn" => /\ pc[d] \in {"signingIn"} \union Ended
                                    /\ service[d] \in {"groups", "sign", "200", "500"}
             /\ Again(d) => presented[d] # None
             /\ service[d] \in AtGateway /\ presented[d] # None => Again(d)
             /\ service[d] \in {"groups", "sign"} => op[d] = "signIn" \/ presented[d] # None
<1> USE DEF LInv, IInv, TypeOK, Again, Ended, AtGateway
<1>1. \A d \in Calls : Contact(d)
  BY DEF Contacts
<1>2. ASSUME NEW d \in Calls \ {c} PROVE Contact(d)'
  <2>1. Contact(d) /\ Frame(c)
    BY <1>1, FrameHolds
  <2> QED
    BY <2>1 DEF Frame
<1> USE DEF Start, Send, End, Becomes
<1>3. ASSUME Starts(c) PROVE Contact(c)'
  <2>1. pc[c] = "idle"
    BY <1>3 DEF Starts, SignIn, Write, SignOut, SignOutWithoutToken
  <2>2. service[c] = "none" /\ presented[c] = None /\ ~Token(c)
    BY <2>1 DEF Phases, Token
  <2>3. bearer'[c] # c
    <3>1. bearer[c] # c /\ access # c
      BY <2>2, BrowserSessionAssumption DEF Tokens, BrowserSessionAssumption
    <3> QED
      BY <1>3, <3>1 DEF Starts, SignIn, Write, SignOut, SignOutWithoutToken
  <2> QED
    BY <1>3, <2>2, <2>3 DEF Starts, SignIn, Write, SignOut, SignOutWithoutToken, Route, claims, history
<1>4. ASSUME Browser(c) PROVE Contact(c)'
  BY <1>1, <1>4 DEF Browser, SignedIn, Answered, Finish, Unrefreshable, Refresh, Refreshed,
     RefreshFails, Denied, Phases, Route
<1>5. ASSUME Serves(c) PROVE Contact(c)'
  BY <1>1, <1>5 DEF Serves, GatewayAdmits, GatewayDenies, Acts, Replies, Finds, Rotates,
     ReadsGroups, Signs, FindsToRevoke, Revokes, Phases
<1>6. ASSUME GivesUp(c) \/ ServiceFails(c) PROVE Contact(c)'
  BY <1>1, <1>6 DEF GivesUp, ServiceFails, Answers
<1> QED
  BY <1>2, <1>3, <1>4, <1>5, <1>6 DEF Contacts

\* How the pairs that are held change by a step of c.
LEMMA HeldChanges ==
  ASSUME LInv, NEW c \in Calls,
         Starts(c) \/ Browser(c) \/ Serves(c) \/ GivesUp(c) \/ ServiceFails(c)
  PROVE  /\ \A t \in rows' : t \in rows \/ (t = c /\ Given(Session(c))')
         /\ refresh' \in {refresh, None} \/ (refresh' = c /\ Given(Session(c))')
         /\ rendered' = rendered
         /\ presented'[c] \in {presented[c], refresh}
         /\ body'[c] \in {body[c], rendered}
<1> USE DEF LInv, IInv, TypeOK, Given, Session, Again, Start, Send, End, Becomes, setTokens,
            clearTokens, storage
<1>1. CASE Starts(c)
  BY <1>1 DEF Starts, SignIn, Write, SignOut, SignOutWithoutToken, claims, history
<1>2. CASE Browser(c)
  BY <1>2 DEF Browser, SignedIn, Answered, Finish, Unrefreshable, Refresh, Refreshed,
     RefreshFails, Contacts
<1>3. CASE Serves(c)
  BY <1>3 DEF Serves, GatewayAdmits, GatewayDenies, Acts, Replies, Finds, Rotates, ReadsGroups,
     Signs, FindsToRevoke, Revokes, Contacts
<1>4. CASE GivesUp(c) \/ ServiceFails(c)
  BY <1>4 DEF GivesUp, ServiceFails
<1> QED
  BY <1>1, <1>2, <1>3, <1>4

LEMMA LInvStep == LInv /\ [Next]_vars => LInv'
<1> SUFFICES ASSUME LInv, [Next]_vars PROVE LInv'
  OBVIOUS
<1>1. ASSUME NEW c \in Calls,
             Starts(c) \/ Browser(c) \/ Serves(c) \/ GivesUp(c) \/ ServiceFails(c)
      PROVE  LInv'
  <2>1. \A t \in Calls : Given(Session(t)) => Given(Session(t))'
    BY <1>1, GivenStays
  <2>2. IInv' /\ Contacts' /\ Frame(c)
    BY <1>1, CallKeeps, ContactsKeeps, FrameHolds DEF LInv, IInv
  <2>3. /\ \A t \in rows' : t \in rows \/ (t = c /\ Given(Session(c))')
        /\ refresh' \in {refresh, None} \/ (refresh' = c /\ Given(Session(c))')
        /\ rendered' = rendered
        /\ presented'[c] \in {presented[c], refresh}
        /\ body'[c] \in {body[c], rendered}
    BY <1>1, HeldChanges
  <2>4. HeldWasGiven'
    BY <2>1, <2>2, <2>3 DEF LInv, IInv, TypeOK, HeldWasGiven, Frame
  <2> QED
    BY <2>2, <2>4 DEF LInv
<1>2. ASSUME Render \/ Regroup \/ Tick \/ UNCHANGED vars PROVE LInv'
  <2>1. /\ UNCHANGED <<rows, refresh, op, pc, service, bearer, body, presented>>
        /\ rendered' \in {rendered, refresh}
    BY <1>2 DEF Render, Regroup, Tick, vars, storage
  <2>2. Contacts' /\ HeldWasGiven'
    BY <2>1 DEF LInv, Contacts, HeldWasGiven, Given, Session, Again
  <2>3. IInv'
    BY <1>2, RenderKeeps, RegroupKeeps, TickKeeps, StutterKeeps DEF LInv
  <2> QED
    BY <2>2, <2>3 DEF LInv
<1> QED
  BY <1>1, <1>2 DEF Next

\* Of the requests of c, what the ledger sees: r is one of three.
LEMMA AskIs ==
  ASSUME NEW r \in Asks
  PROVE  /\ r[1] \in Calls /\ r[2] \in {"session", "out", "again"}
         /\ r = <<r[1], r[2]>>
  BY DEF Asks

\* Nothing changes for the requests of other calls.
LEMMA OthersSame ==
  ASSUME NEW c \in Calls, Frame(c), NEW r \in Asks, r[1] # c
  PROVE  /\ Looked(r)' = Looked(r) /\ Found(r)' = Found(r) /\ Given(r)' = Given(r)
         /\ (r[1] \in rows' <=> r[1] \in rows) => Lives(r)' = Lives(r)
  BY AskIs DEF Frame, Looked, Found, Given, Lives, Again, Session

\* A step of c that the ledger does not notice.
LEMMA LedgerStutter ==
  ASSUME NEW c \in Calls, Frame(c), rows' = rows,
         \A k \in {"session", "out", "again"} :
            /\ Looked(<<c, k>>)' = Looked(<<c, k>>) /\ Found(<<c, k>>)' = Found(<<c, k>>)
            /\ Given(<<c, k>>)' = Given(<<c, k>>) /\ Lives(<<c, k>>)' = Lives(<<c, k>>)
  PROVE  UNCHANGED Ledger!vars
<1>1. ASSUME NEW r \in Asks
      PROVE  /\ Looked(r)' = Looked(r) /\ Found(r)' = Found(r)
             /\ Given(r)' = Given(r) /\ Lives(r)' = Lives(r)
  <2>1. CASE r[1] # c
    BY <2>1, OthersSame
  <2>2. CASE r[1] = c
    <3>1. r[2] \in {"session", "out", "again"} /\ r = <<c, r[2]>>
      BY <2>2, AskIs
    <3> DEFINE k == r[2]
    <3>2. k \in {"session", "out", "again"} /\ r = <<c, k>>
      BY <3>1
    <3> HIDE DEF k
    <3> QED
      BY <3>2
  <2> QED
    BY <2>1, <2>2
<1>2. \A r \in Asks : /\ Looked(r)' = Looked(r) /\ Found(r)' = Found(r)
                      /\ Given(r)' = Given(r) /\ Lives(r)' = Lives(r)
  BY <1>1
<1> QED
  BY <1>2 DEF Ledger!vars

\* A step of c in which the service looks at its request q for the first time.
LEMMA LedgerArrives ==
  ASSUME NEW c \in Calls, Frame(c), NEW kind \in {"session", "out", "again"},
         ~Looked(<<c, kind>>), Looked(<<c, kind>>)',
         \A k \in {"session", "out", "again"} :
            /\ k # kind => Looked(<<c, k>>)' = Looked(<<c, k>>)
            /\ Given(<<c, k>>)' = Given(<<c, k>>)
  PROVE  Ledger!Arrives(<<c, kind>>)
<1> DEFINE q == <<c, kind>>
<1>1. q \in Asks
  BY DEF Asks
<1>2. ASSUME NEW r \in Asks PROVE (Looked(r)' <=> Looked(r) \/ r = q) /\ (Given(r)' <=> Given(r))
  <2>1. CASE r[1] # c
    BY <2>1, OthersSame
  <2>2. CASE r[1] = c
    <3>1. r[2] \in {"session", "out", "again"} /\ r = <<c, r[2]>>
      BY <2>2, AskIs
    <3> QED
      BY <3>1
  <2> QED
    BY <2>1, <2>2
<1>3. {r \in Asks : Looked(r)}' = {r \in Asks : Looked(r)} \union {q}
  BY <1>1, <1>2
<1>4. {r \in Asks : Given(r)}' = {r \in Asks : Given(r)}
  BY <1>2
<1> QED
  BY <1>1, <1>3, <1>4 DEF Ledger!Arrives

LEMMA LedgerInit == Init => Ledger!Init
<1> SUFFICES ASSUME Init PROVE Ledger!Init
  OBVIOUS
<1>1. ASSUME NEW r \in Asks
      PROVE  ~Looked(r) /\ Found(r) = Session(None) /\ ~Lives(r) /\ ~Given(r)
  BY AskIs, BrowserSessionAssumption
     DEF Init, Looked, Found, Lives, Given, Again, BrowserSessionAssumption
<1> QED
  BY <1>1 DEF Ledger!Init

\* The browser's own steps, except for signing in, and those of the gateway and
\* the user-service.
LEMMA QuietSteps ==
  ASSUME LInv, NEW c \in Calls,
         \/ Write(c) \/ SignOut(c) \/ SignOutWithoutToken(c) \/ Browser(c) \/ GivesUp(c)
         \/ GatewayAdmits(c) \/ GatewayDenies(c) \/ Acts(c) \/ Replies(c) \/ ReadsGroups(c)
         \/ service[c] \in {"gateway", "act", "acted"} /\ ServiceFails(c)
  PROVE  UNCHANGED Ledger!vars
<1> USE DEF LInv, IInv, TypeOK, Start, Send, End, Becomes
<1>0. Frame(c)
  BY FrameHolds DEF Starts, Serves
<1>1. /\ (pc[c] \in {"idle", "calling", "refreshing"} \/ service[c] \in AtAuth) => ~Again(c)
      /\ pc[c] = "idle" => presented[c] = None /\ op[c] = "none" /\ service[c] = "none"
  BY BrowserSessionAssumption DEF Tokens, Token, Phases, Again, BrowserSessionAssumption
<1> DEFINE Same(k) ==
             /\ Looked(<<c, k>>)' = Looked(<<c, k>>) /\ Found(<<c, k>>)' = Found(<<c, k>>)
             /\ Given(<<c, k>>)' = Given(<<c, k>>) /\ Lives(<<c, k>>)' = Lives(<<c, k>>)
           SameAll == rows' = rows /\ \A k \in {"session", "out", "again"} : Same(k)
<1> USE DEF Looked, Found, Given, Lives, Again
<1>2. ASSUME Write(c) \/ SignOut(c) \/ SignOutWithoutToken(c) PROVE SameAll
  <2>1. pc[c] = "idle"
    BY <1>2 DEF Write, SignOut, SignOutWithoutToken
  <2>2. access # c
    BY <2>1, BrowserSessionAssumption DEF Tokens, Token, BrowserSessionAssumption
  <2> QED
    BY <1>1, <1>2, <2>1, <2>2 DEF Write, SignOut, SignOutWithoutToken, Route, claims, history
<1>3. ASSUME SignedIn(c) \/ Answered(c) \/ Unrefreshable(c) \/ RefreshFails(c) \/ GivesUp(c)
      PROVE  SameAll
  BY <1>3 DEF SignedIn, Answered, Finish, Unrefreshable, RefreshFails, GivesUp
<1>4. ASSUME Refresh(c) PROVE SameAll
  BY <1>1, <1>4 DEF Refresh, Denied, Phases
<1>5. ASSUME Refreshed(c) PROVE SameAll
  BY <1>1, <1>5 DEF Refreshed, Route, Phases
<1>6. ASSUME GatewayAdmits(c) \/ GatewayDenies(c) \/ Acts(c) \/ Replies(c)
      PROVE  SameAll
  BY <1>1, <1>6 DEF GatewayAdmits, GatewayDenies, Acts, Replies, Contacts, AtGateway
<1>7. ASSUME ReadsGroups(c) PROVE SameAll
  BY <1>1, <1>7 DEF ReadsGroups
<1>8. ASSUME service[c] \in {"gateway", "act", "acted"}, ServiceFails(c) PROVE SameAll
  BY <1>1, <1>8 DEF ServiceFails
<1> HIDE DEF LInv, IInv, TypeOK, Start, Send, End, Becomes, Looked, Found, Given, Lives, Again
<1> QED
  BY <1>0, <1>2, <1>3, <1>4, <1>5, <1>6, <1>7, <1>8, LedgerStutter DEF Browser

\* What request q has found becomes x, and what the others have stays.
Finding(q, x) == [r \in Asks |-> Found(r)]' = [[r \in Asks |-> Found(r)] EXCEPT ![q] = x]

LEMMA FoundBecomes ==
  ASSUME NEW c \in Calls, Frame(c), NEW kind \in {"session", "out", "again"}, NEW x,
         Found(<<c, kind>>)' = x,
         \A k \in {"session", "out", "again"} \ {kind} : Found(<<c, k>>)' = Found(<<c, k>>)
  PROVE  Finding(<<c, kind>>, x)
<1>1. ASSUME NEW r \in Asks PROVE Found(r)' = IF r = <<c, kind>> THEN x ELSE Found(r)
  <2>1. CASE r[1] # c
    BY <2>1, OthersSame
  <2>2. CASE r[1] = c
    BY <2>2, AskIs
  <2> QED
    BY <2>1, <2>2
<1>2. <<c, kind>> \in Asks
  BY DEF Asks
<1> QED
  BY <1>1, <1>2 DEF Finding

\* The same for the sessions there are.
LEMMA LivesBecome ==
  ASSUME NEW c \in Calls, Frame(c), \A d \in Calls \ {c} : d \in rows' <=> d \in rows
  PROVE  /\ Lives(Session(c))' => {r \in Asks : Lives(r)}' = {r \in Asks : Lives(r)} \union {Session(c)}
         /\ ~Lives(Session(c))' => {r \in Asks : Lives(r)}' = {r \in Asks : Lives(r)} \ {Session(c)}
<1>1. ASSUME NEW r \in Asks, r # Session(c) PROVE Lives(r)' = Lives(r)
  <2>1. CASE r[1] # c
    BY <2>1, OthersSame, AskIs
  <2>2. CASE r[1] = c
    <3>1. r[2] # "session"
      BY <1>1, <2>2, AskIs DEF Session
    <3> QED
      BY <3>1 DEF Lives
  <2> QED
    BY <2>1, <2>2
<1>2. Session(c) \in Asks
  BY DEF Asks, Session
<1> QED
  BY <1>1, <1>2

\* The facts about a request that every step below needs.
LEMMA Contact ==
  ASSUME LInv, NEW c \in Calls
  PROVE  /\ (pc[c] \in {"idle", "calling", "refreshing"} \/ service[c] \in AtAuth) => ~Again(c)
         /\ pc[c] = "idle" => presented[c] = None /\ op[c] = "none" /\ service[c] = "none"
         /\ c \in rows => Given(Session(c))
         /\ service[c] \in {"find", "rotate"} =>
              /\ op[c] # "signIn" /\ presented[c] \in Calls /\ presented[c] # c
              /\ Given(Session(presented[c])) /\ service[presented[c]] \notin AtAuth
         /\ service[c] \in {"revoke", "delete"} =>
              /\ op[c] = "signOut" /\ body[c] \in Calls
              /\ Given(Session(body[c])) /\ service[body[c]] \notin AtAuth
              /\ presented[c] # None <=> Again(c)
<1> USE DEF LInv, IInv
<1>1. /\ (pc[c] \in {"idle", "calling", "refreshing"} \/ service[c] \in AtAuth) => ~Again(c)
      /\ pc[c] = "idle" => presented[c] = None /\ op[c] = "none" /\ service[c] = "none"
  BY BrowserSessionAssumption DEF Tokens, Token, Phases, Again, BrowserSessionAssumption
<1>2. c \in rows => Given(Session(c))
  BY DEF HeldWasGiven
<1>3. ASSUME service[c] \in {"find", "rotate"}
      PROVE  /\ op[c] # "signIn" /\ presented[c] \in Calls /\ presented[c] # c
             /\ Given(Session(presented[c])) /\ service[presented[c]] \notin AtAuth
  <2>1. presented[c] # None
    BY <1>3 DEF Phases
  <2>2. Token(presented[c]) /\ Given(Session(presented[c]))
    BY <2>1 DEF Tokens, HeldWasGiven
  <2> QED
    BY <1>3, <2>2 DEF Token, AtAuth, Contacts
<1>4. ASSUME service[c] \in {"revoke", "delete"}
      PROVE  /\ op[c] = "signOut" /\ body[c] \in Calls
             /\ Given(Session(body[c])) /\ service[body[c]] \notin AtAuth
             /\ presented[c] # None <=> Again(c)
  <2>1. body[c] # None
    BY <1>4 DEF Phases
  <2>2. Token(body[c]) /\ Given(Session(body[c]))
    BY <2>1 DEF Tokens, HeldWasGiven
  <2> QED
    BY <1>4, <2>1, <2>2 DEF Token, Contacts, Phases, AtGateway
<1> QED
  BY <1>1, <1>2, <1>3, <1>4

LEMMA LedgerOpen == ASSUME LInv, NEW c \in Calls, SignIn(c) PROVE Ledger!Open(Session(c))
<1> USE DEF SignIn, Start, Send, world, storage, history
<1>0. Frame(c) /\ rows' = rows
  BY FrameHolds DEF Starts, LInv, IInv
<1>1. /\ pc[c] = "idle" /\ ~Again(c) /\ service[c] = "none" /\ presented[c] = None
      /\ op[c] = "none" /\ c \notin rows
  BY Contact DEF Given, Session
<1>2. /\ service'[c] = "groups" /\ op'[c] = "signIn" /\ presented'[c] = None /\ ~Again(c)'
  BY <1>1 DEF LInv, IInv, TypeOK, Again
<1>3. Ledger!Arrives(Session(c))
  BY <1>0, <1>1, <1>2, LedgerArrives DEF Looked, Given, Session
<1>4. {r \in Asks : Lives(r)}' = {r \in Asks : Lives(r)} \union {Session(c)}
  BY <1>0, <1>2, LivesBecome DEF Lives, Session
<1>5. [r \in Asks |-> Found(r)]' = [r \in Asks |-> Found(r)]
  <2>1. ASSUME NEW r \in Asks PROVE Found(r)' = Found(r)
    <3>1. CASE r[1] # c
      BY <1>0, <3>1, OthersSame
    <3>2. CASE r[1] = c
      BY <1>1, <1>2, <3>2, AskIs DEF Found, Session
    <3> QED
      BY <3>1, <3>2
  <2> QED
    BY <2>1
<1> QED
  BY <1>3, <1>4, <1>5 DEF Ledger!Open

\* The request of c has found session x.
LEMMA FoundBegins ==
  ASSUME NEW c \in Calls, Frame(c), UNCHANGED <<bearer, body, presented>>,
         NEW kind \in {"session", "out", "again"}, NEW x \in Calls,
         service[c] \in {"find", "revoke"},
         \/ service'[c] = "rotate" /\ kind = "session" /\ x = presented[c]
         \/ service'[c] = "delete" /\ kind = "again" /\ Again(c) /\ x = body[c]
         \/ service'[c] = "delete" /\ kind = "out" /\ ~Again(c) /\ x = body[c]
  PROVE  Finding(<<c, kind>>, Session(x))
<1> DEFINE y == Session(x)
<1>1. Found(<<c, kind>>)' = y
  BY DEF Found, Again
<1>2. ASSUME NEW k \in {"session", "out", "again"} \ {kind}
      PROVE  Found(<<c, k>>)' = Found(<<c, k>>)
  BY DEF Found, Again
<1> HIDE DEF y
<1>3. Finding(<<c, kind>>, y)
  BY <1>1, <1>2, FoundBecomes
<1> QED
  BY <1>3 DEF y

\* The service reads the table for c: the request of the given kind is let near
\* session x, or refused.
LEMMA LedgerReads ==
  ASSUME LInv, NEW c \in Calls, Frame(c), NEW kind \in {"session", "out", "again"},
         NEW x \in Calls,
         service[c] \in {"find", "revoke"}, service'[c] \in {"rotate", "delete", "401", "500"},
         service[c] = "find" => kind = "session" /\ service'[c] # "delete",
         service[c] = "revoke" => /\ kind = IF Again(c) THEN "again" ELSE "out"
                                  /\ service'[c] # "rotate",
         x = IF kind = "session" THEN presented[c] ELSE body[c],
         service'[c] \in {"rotate", "delete"} => x \in rows,
         UNCHANGED <<rows, op, bearer, body, presented>>
  PROVE  Ledger!Refuse(<<c, kind>>) \/ Ledger!Admit(<<c, kind>>, Session(x))
<1>1. /\ service[c] = "find" => /\ ~Again(c) /\ op[c] # "signIn" /\ presented[c] # None
      /\ service[c] = "revoke" => op[c] = "signOut" /\ (presented[c] # None <=> Again(c))
  BY Contact, BrowserSessionAssumption DEF BrowserSessionAssumption, AtAuth
<1>2. Given(Session(x))
  BY Contact
<1>3. Again(c)' = Again(c)
  BY DEF Again
<1>4. Ledger!Arrives(<<c, kind>>)
  <2>1. ~Looked(<<c, kind>>) /\ Looked(<<c, kind>>)'
    BY <1>1, <1>3 DEF Looked
  <2>2. ASSUME NEW k \in {"session", "out", "again"}
        PROVE  /\ k # kind => Looked(<<c, k>>)' = Looked(<<c, k>>)
               /\ Given(<<c, k>>)' = Given(<<c, k>>)
    BY <1>1, <1>3 DEF Looked, Given
  <2> QED
    BY <2>1, <2>2, LedgerArrives
<1>5. {r \in Asks : Lives(r)}' = {r \in Asks : Lives(r)}
  <2>1. ASSUME NEW r \in Asks PROVE Lives(r)' = Lives(r)
    <3>1. CASE r[1] # c
      BY <3>1, OthersSame
    <3>2. CASE r[1] = c
      BY <3>2 DEF Lives
    <3> QED
      BY <3>1, <3>2
  <2> QED
    BY <2>1
<1>6. <<c, kind>> \in Asks /\ Session(x) \in Asks
  BY DEF Asks, Session
<1>7. CASE service'[c] \in {"401", "500"}
  <2>1. ASSUME NEW r \in Asks PROVE Found(r)' = Found(r)
    <3>1. CASE r[1] # c
      BY <3>1, OthersSame
    <3>2. CASE r[1] = c
      BY <1>7, <3>2 DEF Found
    <3> QED
      BY <3>1, <3>2
  <2>2. [r \in Asks |-> Found(r)]' = [r \in Asks |-> Found(r)]
    BY <2>1
  <2> QED
    BY <1>4, <1>5, <2>2 DEF Ledger!Refuse
<1>8. CASE service'[c] \in {"rotate", "delete"}
  <2>3. Finding(<<c, kind>>, Session(x))
    <3>1. \/ service'[c] = "rotate" /\ kind = "session" /\ x = presented[c]
          \/ service'[c] = "delete" /\ kind = "again" /\ Again(c) /\ x = body[c]
          \/ service'[c] = "delete" /\ kind = "out" /\ ~Again(c) /\ x = body[c]
      BY <1>8
    <3> QED
      BY <3>1, FoundBegins
  <2>4. Session(x) \in {r \in Asks : Lives(r)} \intersect {r \in Asks : Given(r)}
    BY <1>2, <1>6, <1>8 DEF Lives, Session
  <2> QED
    BY <1>4, <1>5, <1>6, <2>3, <2>4 DEF Ledger!Admit, Finding
<1> QED
  BY <1>7, <1>8

\* The request of c that had found something has it no more.
LEMMA FoundEnds ==
  ASSUME NEW c \in Calls, Frame(c), UNCHANGED <<bearer, body, presented>>,
         NEW kind \in {"session", "out", "again"},
         service[c] = "rotate" => kind = "session",
         service[c] = "delete" => kind = IF Again(c) THEN "again" ELSE "out",
         service[c] \in {"rotate", "delete", "groups", "sign"},
         service'[c] \in {"groups", "200", "500"}
  PROVE  Finding(<<c, kind>>, Session(None))
<1> DEFINE y == Session(None)
<1>1. Found(<<c, kind>>)' = y
  BY DEF Found
<1>2. ASSUME NEW k \in {"session", "out", "again"} \ {kind}
      PROVE  Found(<<c, k>>)' = Found(<<c, k>>)
  BY DEF Found
<1> HIDE DEF y
<1>3. Finding(<<c, kind>>, y)
  BY <1>1, <1>2, FoundBecomes
<1> QED
  BY <1>3 DEF y

\* Nothing arrives, and nothing is settled.
LEMMA OldRequest ==
  ASSUME NEW c \in Calls, Frame(c), UNCHANGED <<op, bearer, presented>>,
         service[c] \in {"rotate", "delete", "groups", "sign"},
         service'[c] \in {"groups", "500"} \/ (service[c] = "delete" /\ service'[c] = "200"),
         service[c] = "delete" => op[c] = "signOut" /\ (presented[c] # None <=> Again(c))
  PROVE  /\ {r \in Asks : Looked(r)}' = {r \in Asks : Looked(r)}
         /\ {r \in Asks : Given(r)}' = {r \in Asks : Given(r)}
<1>1. ASSUME NEW r \in Asks PROVE Looked(r)' = Looked(r) /\ Given(r)' = Given(r)
  <2>1. CASE r[1] # c
    BY <2>1, OthersSame
  <2>2. CASE r[1] = c
    BY <2>2 DEF Looked, Given, Again
  <2> QED
    BY <2>1, <2>2
<1> QED
  BY <1>1

\* The delete of the row of x for c is the moment session x changes hands, or ends.
LEMMA LedgerDelete ==
  ASSUME LInv, NEW c \in Calls, Frame(c), UNCHANGED <<op, bearer, body, presented>>,
         NEW kind \in {"session", "out", "again"}, NEW x \in Calls,
         service[c] = "rotate" => /\ kind = "session" /\ x = presented[c]
                                  /\ service'[c] = "groups",
         service[c] = "delete" => /\ kind = (IF Again(c) THEN "again" ELSE "out") /\ x = body[c]
                                  /\ service'[c] = "200",
         service[c] \in {"rotate", "delete"},
         rows' = rows \ {x}
  PROVE  LET q == <<c, kind>> IN q \in Asks /\ (Ledger!Move(q) \/ Ledger!Fork(q) \/ Ledger!End(q))
<1> DEFINE q == <<c, kind>>
           lives == {r \in Asks : Lives(r)}
<1>2. /\ service[x] \notin {"groups", "sign"}
      /\ service[c] = "rotate" => x # c
      /\ service[c] = "delete" => op[c] = "signOut" /\ (presented[c] # None <=> Again(c))
  BY Contact DEF AtAuth
<1>3. /\ q \in Asks /\ Session(c) \in Asks /\ Session(x) \in Asks /\ Session(x) # Session(None)
      /\ Found(q) = Session(x)
  BY BrowserSessionAssumption DEF Asks, Session, Found, BrowserSessionAssumption
<1>4. Ledger!Acts(q)
  <2>1. Finding(q, Session(None))
    BY FoundEnds
  <2>2. /\ {r \in Asks : Looked(r)}' = {r \in Asks : Looked(r)}
        /\ {r \in Asks : Given(r)}' = {r \in Asks : Given(r)}
    BY <1>2, OldRequest
  <2> QED
    BY <1>3, <2>1, <2>2 DEF Ledger!Acts, Finding
<1>5. Lives(Session(x)) <=> x \in rows
  BY <1>2 DEF Lives, Session
<1>6. ASSUME NEW r \in Asks, r # Session(c), r # Session(x) PROVE Lives(r)' = Lives(r)
  BY <1>6, AskIs DEF Frame, Lives, Session
<1>7. ~Lives(Session(x))'
  BY <1>2 DEF Frame, Lives, Session
<1>8. CASE service[c] = "rotate"
  <2>1. Lives(Session(c))' /\ q = Session(c)
    BY <1>8 DEF Lives, Session
  <2>2. lives' = (lives \ {Session(x)}) \union {q}
    BY <1>3, <1>6, <1>7, <2>1
  <2>3. CASE x \in rows
    BY <1>3, <1>4, <1>5, <2>2, <2>3 DEF Ledger!Move
  <2>4. CASE x \notin rows
    BY <1>3, <1>4, <1>5, <2>2, <2>4 DEF Ledger!Fork
  <2> QED
    BY <1>3, <2>3, <2>4
<1>9. CASE service[c] = "delete"
  <2>1. x # c => Lives(Session(c))' = Lives(Session(c))
    BY <1>9 DEF Lives, Session
  <2>2. lives' = lives \ {Session(x)}
    BY <1>3, <1>6, <1>7, <2>1
  <2>3. Ledger!End(q)
    BY <1>3, <1>4, <2>2 DEF Ledger!End
  <2> QED
    BY <1>3, <2>3
<1> QED
  BY <1>8, <1>9

\* The service fails under c: only the session it was making is lost, which no
\* browser has been told of.
LEMMA LedgerFail ==
  ASSUME LInv, NEW c \in Calls, Frame(c), UNCHANGED <<rows, op, bearer, body, presented>>,
         NEW kind \in {"session", "out", "again"},
         \/ service[c] \in {"rotate", "groups", "sign"} /\ kind = "session"
         \/ service[c] = "delete" /\ kind = "again" /\ Again(c)
         \/ service[c] = "delete" /\ kind = "out" /\ ~Again(c),
         service'[c] = "500"
  PROVE  Ledger!Fail({<<c, kind>>})
<1> DEFINE q == <<c, kind>>
<1>1. /\ service[c] \in {"rotate", "groups", "sign"} => ~Again(c)
      /\ c \in rows => Given(Session(c))
      /\ service[c] = "delete" => op[c] = "signOut" /\ (presented[c] # None <=> Again(c))
      /\ Again(c)' = Again(c)
  BY Contact DEF AtAuth, Again
<1>2. q \in Asks /\ ~Given(q)
  BY <1>1 DEF Asks, Given
<1>3. /\ {r \in Asks : Looked(r)}' = {r \in Asks : Looked(r)}
      /\ {r \in Asks : Given(r)}' = {r \in Asks : Given(r)}
  BY <1>1, OldRequest
<1>4. ASSUME NEW r \in Asks
      PROVE  /\ Found(r)' = IF r = q THEN Session(None) ELSE Found(r)
             /\ Lives(r)' <=> Lives(r) /\ r # q
  <2>1. CASE r[1] # c
    BY <2>1, OthersSame
  <2>2. CASE r[1] = c
    <3>1. kind = "session" => c \notin rows
      BY <1>1, <1>2 DEF Session
    <3>2. r[2] \in {"session", "out", "again"} /\ r = <<c, r[2]>>
      BY <2>2, AskIs
    <3>3. Found(r)' = IF r = q THEN Session(None) ELSE Found(r)
      BY <1>1, <2>2, <3>2 DEF Found
    <3>4. Lives(r)' <=> Lives(r) /\ r # q
      BY <2>2, <3>1, <3>2 DEF Lives
    <3> QED
      BY <3>3, <3>4
  <2> QED
    BY <2>1, <2>2
<1>5. {r \in Asks : Lives(r)}' = {r \in Asks : Lives(r)} \ {q}
  BY <1>4
<1>6. [r \in Asks |-> Found(r)]' =
        [r \in Asks |-> IF r \in {q} THEN Session(None) ELSE [p \in Asks |-> Found(p)][r]]
  BY <1>4
<1> QED
  BY <1>2, <1>3, <1>5, <1>6 DEF Ledger!Fail

\* The row is stored and the pair given out.
LEMMA LedgerSettle == ASSUME LInv, NEW c \in Calls, Signs(c) PROVE Ledger!Settle(Session(c))
<1> USE DEF Signs, Becomes
<1>1. /\ Frame(c) /\ UNCHANGED <<op, bearer, body, presented>>
      /\ service[c] = "sign" /\ service'[c] = "200" /\ rows' = rows \union {c}
  BY FrameHolds DEF Serves, LInv, IInv, TypeOK
<1>2. /\ ~Again(c) /\ Again(c)' = Again(c)
      /\ op[c] = "signIn" \/ presented[c] # None
  BY <1>1, Contact DEF AtAuth, Again, LInv, Contacts
<1>3. ASSUME NEW r \in Asks
      PROVE  /\ Looked(r)' = Looked(r) /\ Found(r)' = Found(r) /\ Lives(r)' = Lives(r)
             /\ Given(r)' <=> Given(r) \/ r = Session(c)
  <2>1. CASE r[1] # c
    <3>1. r[1] \in rows' <=> r[1] \in rows
      BY <1>1, <2>1
    <3>2. r # Session(c)
      BY <2>1 DEF Session
    <3> QED
      BY <1>1, <2>1, <3>1, <3>2, OthersSame
  <2>2. CASE r[1] = c
    <3>1. r[2] \in {"session", "out", "again"} /\ r = <<c, r[2]>>
      BY <2>2, AskIs
    <3> QED
      BY <1>1, <1>2, <2>2, <3>1 DEF Looked, Found, Lives, Given, Session
  <2> QED
    BY <2>1, <2>2
<1>4. Session(c) \in Asks /\ Lives(Session(c)) /\ ~Given(Session(c))
  BY <1>1, <1>2 DEF Asks, Session, Lives, Given
<1>5. {r \in Asks : Given(r)}' = {r \in Asks : Given(r)} \union {Session(c)}
  BY <1>3, <1>4
<1>6. /\ [r \in Asks |-> Found(r)]' = [r \in Asks |-> Found(r)]
      /\ {r \in Asks : Looked(r)}' = {r \in Asks : Looked(r)}
      /\ {r \in Asks : Lives(r)}' = {r \in Asks : Lives(r)}
  BY <1>3
<1> QED
  BY <1>4, <1>5, <1>6 DEF Ledger!Settle

LEMMA LedgerStep == LInv /\ [Next]_vars => [Ledger!Next]_(Ledger!vars)
<1> SUFFICES ASSUME LInv, [Next]_vars PROVE [Ledger!Next]_(Ledger!vars)
  OBVIOUS
<1>0. TypeOK
  BY DEF LInv, IInv
<1>1. ASSUME NEW c \in Calls, SignIn(c) PROVE Ledger!Next
  <2>1. Session(c) \in Asks /\ Ledger!Open(Session(c))
    BY <1>1, LedgerOpen DEF Asks, Session
  <2> QED
    BY <2>1 DEF Ledger!Next
<1>2. ASSUME NEW c \in Calls, service[c] \in {"find", "revoke"},
             Finds(c) \/ FindsToRevoke(c) \/ ServiceFails(c)
      PROVE  Ledger!Next
  <2>1. PICK kind \in {"session", "out", "again"} :
          /\ service[c] = "find" => kind = "session"
          /\ service[c] = "revoke" => kind = IF Again(c) THEN "again" ELSE "out"
    BY <1>2
  <2>2. PICK x : x = IF kind = "session" THEN presented[c] ELSE body[c]
    OBVIOUS
  <2>3. x \in Calls
    BY <1>2, <2>1, <2>2, Contact
  <2>4. Frame(c) /\ UNCHANGED <<rows, op, bearer, body, presented>>
    BY <1>0, <1>2, FrameHolds DEF Serves, Finds, FindsToRevoke, ServiceFails, Becomes
  <2>5. /\ service'[c] \in {"rotate", "delete", "401", "500"}
        /\ service[c] = "find" => service'[c] # "delete"
        /\ service[c] = "revoke" => service'[c] # "rotate"
        /\ service'[c] \in {"rotate", "delete"} => x \in rows
    BY <1>0, <1>2, <2>1, <2>2 DEF TypeOK, Finds, FindsToRevoke, ServiceFails, Becomes
  <2>6. Ledger!Refuse(<<c, kind>>) \/ Ledger!Admit(<<c, kind>>, Session(x))
    BY <1>2, <2>1, <2>2, <2>3, <2>4, <2>5, LedgerReads
  <2>7. <<c, kind>> \in Asks /\ Session(x) \in Asks
    BY <2>3 DEF Asks, Session
  <2> QED
    BY <2>6, <2>7 DEF Ledger!Next
<1>3. ASSUME NEW c \in Calls, Rotates(c) \/ Revokes(c) PROVE Ledger!Next
  <2>1. service[c] \in {"rotate", "delete"}
    BY <1>3 DEF Rotates, Revokes
  <2>2. PICK kind \in {"session", "out", "again"} :
          /\ service[c] = "rotate" => kind = "session"
          /\ service[c] = "delete" => kind = IF Again(c) THEN "again" ELSE "out"
    BY <2>1
  <2>3. PICK x : x = IF service[c] = "rotate" THEN presented[c] ELSE body[c]
    OBVIOUS
  <2>4. x \in Calls
    BY <2>1, <2>3, Contact
  <2>5. Frame(c) /\ UNCHANGED <<op, bearer, body, presented>>
    BY <1>0, <1>3, FrameHolds DEF Serves, Rotates, Revokes, Becomes
  <2>6. /\ rows' = rows \ {x}
        /\ service[c] = "rotate" => service'[c] = "groups"
        /\ service[c] = "delete" => service'[c] = "200"
    BY <1>0, <1>3, <2>3 DEF TypeOK, Rotates, Revokes, Becomes
  <2>7. LET q == <<c, kind>> IN q \in Asks /\ (Ledger!Move(q) \/ Ledger!Fork(q) \/ Ledger!End(q))
    BY <2>1, <2>2, <2>3, <2>4, <2>5, <2>6, LedgerDelete
  <2> QED
    BY <2>7 DEF Ledger!Next
<1>4. ASSUME NEW c \in Calls, Signs(c) PROVE Ledger!Next
  <2>1. Session(c) \in Asks /\ Ledger!Settle(Session(c))
    BY <1>4, LedgerSettle DEF Asks, Session
  <2> QED
    BY <2>1 DEF Ledger!Next
<1>5. ASSUME NEW c \in Calls, service[c] \in {"rotate", "groups", "sign", "delete"}, ServiceFails(c)
      PROVE  Ledger!Next
  <2>1. PICK kind \in {"session", "out", "again"} :
          \/ service[c] \in {"rotate", "groups", "sign"} /\ kind = "session"
          \/ service[c] = "delete" /\ kind = "again" /\ Again(c)
          \/ service[c] = "delete" /\ kind = "out" /\ ~Again(c)
    BY <1>5
  <2>2. Frame(c) /\ UNCHANGED <<rows, op, bearer, body, presented>> /\ service'[c] = "500"
    BY <1>0, <1>5, FrameHolds DEF TypeOK, ServiceFails, Becomes
  <2>3. Ledger!Fail({<<c, kind>>})
    BY <2>1, <2>2, LedgerFail
  <2>4. {<<c, kind>>} \in SUBSET Asks
    BY DEF Asks
  <2> QED
    BY <2>3, <2>4 DEF Ledger!Next
<1>6. ASSUME Render \/ Regroup \/ Tick \/ UNCHANGED vars PROVE UNCHANGED Ledger!vars
  <2>1. UNCHANGED <<rows, op, service, bearer, body, presented>>
    BY <1>6 DEF Render, Regroup, Tick, vars
  <2> QED
    BY <2>1 DEF Ledger!vars, Looked, Found, Lives, Given, Again
<1>7. ASSUME NEW c \in Calls, ServiceFails(c)
      PROVE  service[c] \in {"gateway", "act", "acted", "find", "rotate", "groups", "sign", "revoke",
                             "delete"}
  BY <1>0, <1>7 DEF ServiceFails, TypeOK
<1> QED
  BY <1>1, <1>2, <1>3, <1>4, <1>5, <1>6, <1>7, QuietSteps DEF Next, Starts, Serves, Finds, FindsToRevoke

\* Whatever the browser's tabs do together, whoever gives up and whatever fails:
\* what they ask of the auth-service are the steps of a ledger of sessions.
THEOREM LedgerRefinement == Spec => ImplementsLedger
  BY LedgerInit, LedgerStep, InitLInv, LInvStep, PTL DEF Spec, ImplementsLedger, Ledger!Spec
=============================================================================
