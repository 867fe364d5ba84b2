---------------------------- MODULE Registration ----------------------------
(***************************************************************************)
(* What the onboarding handlers promise together: an organization appears  *)
(* at once with its first account and that account's membership, an        *)
(* account joins an existing organization at once with its membership, and *)
(* neither ever changes afterwards.                                        *)
(***************************************************************************)
CONSTANTS Emails, Slugs, NoOrg

VARIABLES
    orgs,     \* the organizations there are
    home,     \* home[e]: the organization of account e, NoOrg if there is none
    member    \* pairs <<e, o>>: account e is in the group that o owns

vars == <<orgs, home, member>>

Init ==
    /\ orgs = {}
    /\ home = [e \in Emails |-> NoOrg]
    /\ member = {}

\* The account e comes into being as a member of o.
Enter(e, o) ==
    /\ home[e] = NoOrg
    /\ home' = [home EXCEPT ![e] = o]
    /\ member' = member \union {<<e, o>>}

SignUp(e, o) ==
    /\ o \notin orgs
    /\ orgs' = orgs \union {o}
    /\ Enter(e, o)

Join(e, o) ==
    /\ o \in orgs
    /\ Enter(e, o)
    /\ UNCHANGED orgs

Next == \E e \in Emails, o \in Slugs : SignUp(e, o) \/ Join(e, o)

Spec == Init /\ [][Next]_vars
=============================================================================
