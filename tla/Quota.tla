-------------------------------- MODULE Quota --------------------------------
(***************************************************************************)
(* What the rate limiter does for its callers.  The requests of an         *)
(* organization come in periods: one ends when WINDOW_SECONDS pass without *)
(* a request, or when an outage makes the limiter forget it.  The first    *)
(* RATE_LIMIT requests of a period are granted and all the others refused, *)
(* by what has been asked when they ask, and are answered so later.  Only  *)
(* an outage lets requests pass without an answer: those that could not    *)
(* ask, and those that asked, granted or refused, and were not answered.   *)
(* No organization's requests have any effect on another's.                *)
(*                                                                         *)
(* That a period lasts for as long as requests keep coming is what the     *)
(* code does, which renews the counter's time to live on every request.    *)
(* The head of rate_limiter.py describes a fixed window instead, whose     *)
(* time to live is set only when the counter is created.                   *)
(***************************************************************************)
EXTENDS Naturals, FiniteSets

CONSTANTS Reqs, Orgs, RATE_LIMIT, WINDOW_SECONDS

VARIABLES
    clock,
    outage,    \* the limiter cannot be asked, and cannot answer
    period,    \* period[o]: the requests of the latest period of organization o
    ends,      \* ends[o]: when that period is over, if nobody asks before
    verdict    \* verdict[r]: what became of request r

vars == <<clock, outage, period, ends, verdict>>

Init ==
    /\ clock = 0
    /\ outage = FALSE
    /\ period = [o \in Orgs |-> {}]
    /\ ends = [o \in Orgs |-> 0]
    /\ verdict = [r \in Reqs |-> "none"]

\* The requests that count against a request made by o now.
Current(o) == IF clock < ends[o] THEN period[o] ELSE {}

Ask(r, o) ==
    /\ ~outage
    /\ verdict[r] = "none"
    /\ verdict' = [verdict EXCEPT ![r] =
                     IF Cardinality(Current(o)) < RATE_LIMIT THEN "granted" ELSE "refused"]
    /\ period' = [period EXCEPT ![o] = Current(o) \union {r}]
    /\ ends' = [ends EXCEPT ![o] = clock + WINDOW_SECONDS]
    /\ UNCHANGED <<clock, outage>>

\* Request r is let pass, or sent back, as it was decided.
Answer(r) ==
    /\ \/ verdict[r] = "granted" /\ verdict' = [verdict EXCEPT ![r] = "passed"]
       \/ verdict[r] = "refused" /\ verdict' = [verdict EXCEPT ![r] = "stopped"]
    /\ UNCHANGED <<clock, outage, period, ends>>

\* Request r is let pass because there is an outage, whatever was decided.
Waive(r) ==
    /\ outage
    /\ verdict[r] \in {"none", "granted", "refused"}
    /\ verdict' = [verdict EXCEPT ![r] = "waived"]
    /\ UNCHANGED <<clock, outage, period, ends>>

OutageBegins ==
    /\ ~outage
    /\ outage' = TRUE
    /\ UNCHANGED <<clock, period, ends, verdict>>

\* After an outage the periods of the organizations in lost are forgotten.
OutageEnds(lost) ==
    /\ outage
    /\ outage' = FALSE
    /\ period' = [o \in Orgs |-> IF o \in lost THEN {} ELSE period[o]]
    /\ UNCHANGED <<clock, ends, verdict>>

Tick ==
    /\ clock' = clock + 1
    /\ UNCHANGED <<outage, period, ends, verdict>>

Next ==
    \/ \E r \in Reqs, o \in Orgs : Ask(r, o)
    \/ \E r \in Reqs : Answer(r) \/ Waive(r)
    \/ OutageBegins
    \/ \E lost \in SUBSET Orgs : OutageEnds(lost)
    \/ Tick

Spec == Init /\ [][Next]_vars
=============================================================================
