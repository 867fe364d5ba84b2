---------------------------- MODULE SessionLedger ----------------------------
(***************************************************************************)
(* What the sessions of the auth-service are to its clients, without       *)
(* tokens, clocks and tables.  A session is opened by a login and named by *)
(* the request whose client may use it next.  A refresh hands it on in one *)
(* step, a logout ends it.  A request admitted while the session was there *)
(* may come too late to take it; a refresh then forks the session.  Only   *)
(* what no client has been told of yet can be lost.                        *)
(***************************************************************************)
CONSTANTS Reqs, Users, NoRow

VARIABLES
    user,      \* user[r]: whose request r is
    known,     \* the requests that have arrived
    asked,     \* asked[r]: the session r was admitted to and has not acted on yet
    live,      \* the sessions there are, or are being made
    settled    \* the sessions that clients have been given

vars == <<user, known, asked, live, settled>>

Init ==
    /\ user \in [Reqs -> Users]
    /\ known = {}
    /\ asked = [r \in Reqs |-> NoRow]
    /\ live = {}
    /\ settled = {}

Arrives(r) ==
    /\ r \notin known
    /\ known' = known \union {r}
    /\ UNCHANGED <<user, settled>>

Refuse(r) == Arrives(r) /\ UNCHANGED <<asked, live>>

Open(r) ==
    /\ Arrives(r)
    /\ live' = live \union {r}
    /\ UNCHANGED asked

\* A request is let near an existing session of its own user only.
Admit(r, x) ==
    /\ Arrives(r)
    /\ x \in live \intersect settled
    /\ user[x] = user[r]
    /\ asked' = [asked EXCEPT ![r] = x]
    /\ UNCHANGED live

Acts(r) ==
    /\ asked[r] # NoRow
    /\ asked' = [asked EXCEPT ![r] = NoRow]
    /\ UNCHANGED <<user, known, settled>>

Move(r) ==
    /\ Acts(r)
    /\ asked[r] \in live
    /\ live' = (live \ {asked[r]}) \union {r}

\* Since r was admitted somebody else took the session.
Fork(r) ==
    /\ Acts(r)
    /\ asked[r] \notin live
    /\ live' = live \union {r}

End(r) ==
    /\ Acts(r)
    /\ live' = live \ {asked[r]}

\* The client of r has its answer.
Settle(r) ==
    /\ r \in live \ settled
    /\ settled' = settled \union {r}
    /\ UNCHANGED <<user, known, asked, live>>

\* Requests fail or die, with the sessions they were making.
Fail(lost) ==
    /\ lost \intersect settled = {}
    /\ live' = live \ lost
    /\ asked' = [r \in Reqs |-> IF r \in lost THEN NoRow ELSE asked[r]]
    /\ UNCHANGED <<user, known, settled>>

Next ==
    \/ \E r \in Reqs : Refuse(r) \/ Open(r) \/ Move(r) \/ Fork(r) \/ End(r) \/ Settle(r)
    \/ \E r, x \in Reqs : Admit(r, x)
    \/ \E lost \in SUBSET Reqs : Fail(lost)

Spec == Init /\ [][Next]_vars
=============================================================================
