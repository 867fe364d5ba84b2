----------------------- MODULE SolutionRouting_proofs -----------------------
(***************************************************************************)
(* Proofs about SolutionRouting, for any solutions, requests and hosts,    *)
(* and any number of failures.                                             *)
(***************************************************************************)
EXTENDS SolutionRouting, TLAPS

-----------------------------------------------------------------------------
(* The inductive invariant *)

\* A request is about what its route takes, once it was sent.
Sent ==
    \A r \in Reqs :
        /\ op[r] = "none" <=> calls[r] = "idle"
        /\ op[r] # "none" => arg[r] \in Args
        /\ calls[r] = "idle" => served[r] = "none" /\ target[r] = None
        /\ op[r] = "deregister" => arg[r].id \in Reqs

\* The two sides of a call: the service has it once it was delivered, which
\* only happens while the gateway waits for the answer.
Sides ==
    \A r \in Reqs :
        /\ runs[r] = IF served[r] = "none" THEN 0 ELSE 1
        /\ calls[r] \in {"idle", "lookup"} => served[r] = "none"
        /\ calls[r] \in {"404", "503"} => served[r] \in {"none", calls[r]}
        /\ calls[r] \in {"200", "403", "409"} => served[r] = calls[r]
        /\ served[r] \in {"503", "504"} => op[r] = "chat"
        /\ served[r] \in {"checked", "stored"} => op[r] = "register"
        /\ served[r] = "found" => op[r] = "deregister"

\* Rows come from registrations that have committed, and a row that was removed
\* does not come back.
Rows ==
    /\ rows \intersect removed = {}
    /\ \A q \in rows \union removed :
         op[q] = "register" /\ served[q] \in {"stored", "200", "500", "lost"}
    /\ \A q \in Reqs : op[q] = "register" /\ served[q] \in {"stored", "200"}
                      => q \in rows \union removed
    /\ \A d \in Reqs : op[d] = "deregister" =>
         /\ served[d] = "found" => arg[d].id \in rows \union removed
         /\ served[d] = "200" => arg[d].id \in removed

\* What a chat call has found is a row, now or before, of the name it asks for.
Targets ==
    \A r \in Reqs : target[r] # None =>
        /\ calls[r] # "lookup"
        /\ target[r] \in rows \union removed
        /\ arg[target[r]].name = arg[r].name

\* The changes that had been answered when r was sent.
Befores == \A r \in Reqs : \A d \in before[r] : calls[d] = "200" /\ op[d] # "chat"

NoFaults == faults = 0 => up = Hosts

IInv ==
    /\ TypeOK
    /\ Sent
    /\ Sides
    /\ Rows
    /\ Targets
    /\ Befores
    /\ NoFaults
    /\ NoCallAfterDeregistration
    /\ RegistrationRefusedForCause

-----------------------------------------------------------------------------
LEMMA InitIInv == Init => IInv
<1> SUFFICES ASSUME Init PROVE IInv
  OBVIOUS
<1>1. TypeOK
  BY SolutionRoutingAssumption DEF SolutionRoutingAssumption, Init, TypeOK
<1>2. Sent /\ Sides /\ Rows /\ Targets /\ Befores /\ NoFaults
  BY DEF Init, Sent, Sides, Rows, Targets, Befores, NoFaults
<1>3. NoCallAfterDeregistration /\ RegistrationRefusedForCause
  BY DEF Init, NoCallAfterDeregistration, RegistrationRefusedForCause
<1> QED
  BY <1>1, <1>2, <1>3 DEF IInv

-----------------------------------------------------------------------------
(* The gateway *)

\* The gateway answers r.
LEMMA AnswerKeeps ==
  ASSUME IInv, NEW r \in Reqs, NEW c \in Answers,
         calls[r] \in {"lookup", "forwarding"},
         Gateway(r, c), UNCHANGED <<served, target, runs>>,
         c \in {"404", "503"} => served[r] \in {"none", c},
         c \in {"200", "403", "409"} => served[r] = c
  PROVE  IInv'
<1> USE DEF Gateway, table, network
<1>1. TypeOK'
  BY DEF IInv, TypeOK
<1>2. Sent'
  BY DEF IInv, TypeOK, Sent, Answers
<1>3. Sides'
  BY DEF IInv, TypeOK, Sides, Answers
<1>4. Rows' /\ NoFaults' /\ RegistrationRefusedForCause'
  BY DEF IInv, Rows, NoFaults, RegistrationRefusedForCause
<1>5. Targets'
  BY DEF IInv, TypeOK, Targets, Answers
<1>6. Befores'
  BY DEF IInv, TypeOK, Befores
<1>7. NoCallAfterDeregistration'
  BY DEF IInv, NoCallAfterDeregistration
<1> QED
  BY <1>1, <1>2, <1>3, <1>4, <1>5, <1>6, <1>7 DEF IInv

\* The row that the lookup finds is none that an answered call has removed.
LEMMA LookupFoundKeeps ==
  ASSUME IInv, NEW r \in Reqs, NEW q \in Reqs, LookupFound(r, q)
  PROVE  IInv'
<1> USE DEF LookupFound, Gateway, table, network, Active
<1>1. TypeOK'
  BY DEF IInv, TypeOK
<1>2. Sent'
  BY DEF IInv, TypeOK, Sent
<1>3. Sides'
  BY DEF IInv, TypeOK, Sides
<1>4. Rows' /\ NoFaults' /\ RegistrationRefusedForCause'
  BY DEF IInv, Rows, NoFaults, RegistrationRefusedForCause
<1>5. Targets'
  BY DEF IInv, TypeOK, Targets
<1>6. Befores'
  BY DEF IInv, TypeOK, Befores
<1>7. NoCallAfterDeregistration'
  <2>1. \A d \in before[r] : op[d] = "deregister" => arg[d].id \notin rows
    BY DEF IInv, TypeOK, Befores, Sides, Rows
  <2>2. target' = [target EXCEPT ![r] = q] /\ q \in rows /\ arg[q].name = arg[r].name
    OBVIOUS
  <2> QED
    BY <2>1, <2>2 DEF IInv, TypeOK, NoCallAfterDeregistration
<1> QED
  BY <1>1, <1>2, <1>3, <1>4, <1>5, <1>6, <1>7 DEF IInv

LEMMA DeliverKeeps == ASSUME IInv, NEW r \in Reqs, Deliver(r) PROVE IInv'
<1> USE DEF Deliver, table, network
<1>1. TypeOK'
  BY DEF IInv, TypeOK, Working
<1>2. Sent'
  BY DEF IInv, TypeOK, Sent
<1>3. Sides'
  BY DEF IInv, TypeOK, Sides
<1>4. Rows'
  BY DEF IInv, TypeOK, Rows
<1>5. Targets' /\ Befores' /\ NoFaults' /\ NoCallAfterDeregistration'
  BY DEF IInv, Targets, Befores, NoFaults, NoCallAfterDeregistration
<1>6. RegistrationRefusedForCause'
  BY DEF IInv, TypeOK, RegistrationRefusedForCause
<1> QED
  BY <1>1, <1>2, <1>3, <1>4, <1>5, <1>6 DEF IInv

LEMMA GateKeeps == ASSUME IInv, NEW r \in Reqs, Gate(r) PROVE IInv'
<1>1. CASE \E q \in Reqs : LookupFound(r, q)
  BY <1>1, LookupFoundKeeps
<1>2. CASE LookupNotFound(r)
  BY <1>2, AnswerKeeps DEF LookupNotFound, Answers, IInv, Sides
<1>3. CASE LookupRaises(r)
  BY <1>3, AnswerKeeps DEF LookupRaises, Answers
<1>4. CASE Deliver(r)
  BY <1>4, DeliverKeeps
<1>5. CASE Unreachable(r)
  BY <1>5, AnswerKeeps DEF Unreachable, Answers
<1>6. CASE GiveUp(r)
  BY <1>6, AnswerKeeps DEF GiveUp, Answers
<1>7. CASE Broken(r)
  BY <1>7, AnswerKeeps DEF Broken, Answers
<1>8. CASE Reply(r)
  BY <1>8, AnswerKeeps DEF Reply, Answers, IInv, Sides
<1> QED
  BY <1>1, <1>2, <1>3, <1>4, <1>5, <1>6, <1>7, <1>8 DEF Gate

-----------------------------------------------------------------------------
(* The services *)

\* The service moves on with r, or answers it, and leaves the table alone.
LEMMA MoveKeeps ==
  ASSUME IInv, NEW r \in Reqs, NEW state \in {"checked", "found"} \union Answers,
         served[r] \in Working,
         Service(r, state), UNCHANGED <<rows, removed>>,
         served[r] = "stored" => state \in {"200", "500"},
         state \in {"503", "504"} => op[r] = "chat",
         state = "checked" => op[r] = "register",
         state = "found" => op[r] = "deregister" /\ arg[r].id \in rows,
         state = "200" => op[r] = "chat" \/ served[r] = "stored",
         op[r] = "register" /\ state = "409" => \E q \in rows \ {r} : arg[q].name = arg[r].name,
         op[r] = "register" /\ state = "500" /\ faults = 0 =>
             /\ r \notin rows
             /\ \/ r \in removed
                \/ \E q \in rows \ {r} : arg[q].name = arg[r].name \/ arg[q].prefix = arg[r].prefix
  PROVE  IInv'
<1> USE DEF Service, network
<1>1. TypeOK'
  BY DEF IInv, TypeOK, Working
<1>2. Sent'
  BY DEF IInv, TypeOK, Sent, Working
<1>3. Sides'
  BY DEF IInv, TypeOK, Sides, Working, Answers
<1>4. served[r] # "stored" => r \notin rows \union removed
  BY DEF IInv, Rows, Working
<1>5. Rows'
  <2>1. \A q \in rows \union removed :
          op[q] = "register" /\ served'[q] \in {"stored", "200", "500", "lost"}
    BY <1>4 DEF IInv, TypeOK, Rows
  <2>2. \A q \in Reqs : op[q] = "register" /\ served'[q] \in {"stored", "200"}
                       => q \in rows \union removed
    BY DEF IInv, TypeOK, Rows, Answers
  <2>3. \A d \in Reqs : op[d] = "deregister" =>
          /\ served'[d] = "found" => arg[d].id \in rows \union removed
          /\ served'[d] = "200" => arg[d].id \in removed
    BY DEF IInv, TypeOK, Rows, Sides, Answers
  <2> QED
    BY <2>1, <2>2, <2>3 DEF IInv, Rows
<1>6. Targets' /\ Befores' /\ NoFaults' /\ NoCallAfterDeregistration'
  BY DEF IInv, Targets, Befores, NoFaults, NoCallAfterDeregistration
<1>7. RegistrationRefusedForCause'
  <2>1. UNCHANGED <<rows, removed, op, arg, faults>>
        /\ \A x \in Reqs : served'[x] = IF x = r THEN state ELSE served[x]
    BY DEF IInv, TypeOK
  <2> QED
    BY <2>1 DEF IInv, RegistrationRefusedForCause
<1> QED
  BY <1>1, <1>2, <1>3, <1>5, <1>6, <1>7 DEF IInv

LEMMA CheckServiceKeeps == ASSUME IInv, NEW r \in Reqs, CheckService(r) PROVE IInv'
<1>1. CASE NameTaken(r)
  <2>1. Service(r, "409") /\ op[r] = "register" /\ served[r] = "arrived" /\ UNCHANGED <<rows, removed>>
    BY <1>1 DEF CheckService, Admin
  <2>2. r \notin rows
    BY <2>1 DEF IInv, Rows
  <2>3. \E q \in rows \ {r} : arg[q].name = arg[r].name
    BY <1>1, <2>2 DEF NameTaken
  <2> QED
    BY <2>1, <2>3, MoveKeeps DEF Answers, Working
<1>2. CASE ~NameTaken(r)
  <2>1. Service(r, "checked") /\ op[r] = "register" /\ served[r] = "arrived" /\ UNCHANGED <<rows, removed>>
    BY <1>2 DEF CheckService, Admin
  <2> QED
    BY <2>1, MoveKeeps DEF Working
<1> QED
  BY <1>1, <1>2

LEMMA InsertServiceKeeps == ASSUME IInv, NEW r \in Reqs, InsertService(r) PROVE IInv'
<1>1. op[r] = "register" /\ served[r] = "checked" /\ removed' = removed
  BY DEF InsertService, Admin
<1>2. CASE NameTaken(r) \/ PrefixTaken(r)
  <2>1. Service(r, "500") /\ UNCHANGED <<rows, removed>>
    BY <1>2 DEF InsertService
  <2>2. r \notin rows
    BY <1>1 DEF IInv, Rows
  <2>3. \E q \in rows \ {r} : arg[q].name = arg[r].name \/ arg[q].prefix = arg[r].prefix
    BY <1>2, <2>2 DEF NameTaken, PrefixTaken
  <2> QED
    BY <1>1, <2>1, <2>2, <2>3, MoveKeeps DEF Answers, Working
<1>3. CASE ~(NameTaken(r) \/ PrefixTaken(r))
  <2> USE DEF Service, network
  <2>1. Service(r, "stored") /\ rows' = rows \union {r}
    BY <1>3 DEF InsertService
  <2>2. r \notin rows \union removed
    BY <1>1 DEF IInv, Rows
  <2>3. TypeOK'
    BY <2>1, <1>1 DEF IInv, TypeOK, Working
  <2>4. Sent'
    BY <1>1, <2>1 DEF IInv, TypeOK, Sent
  <2>5. Sides'
    BY <1>1, <2>1 DEF IInv, TypeOK, Sides
  <2>6. Rows'
    BY <1>1, <2>1, <2>2 DEF IInv, TypeOK, Rows
  <2>7. Targets'
    BY <1>1, <2>1 DEF IInv, Targets
  <2>8. Befores' /\ NoFaults' /\ NoCallAfterDeregistration'
    BY <2>1 DEF IInv, Befores, NoFaults, NoCallAfterDeregistration
  <2>9. RegistrationRefusedForCause'
    BY <1>1, <2>1 DEF IInv, TypeOK, RegistrationRefusedForCause
  <2> QED
    BY <2>3, <2>4, <2>5, <2>6, <2>7, <2>8, <2>9 DEF IInv
<1> QED
  BY <1>2, <1>3

LEMMA RefreshServiceKeeps == ASSUME IInv, NEW r \in Reqs, RefreshService(r) PROVE IInv'
<1>1. op[r] = "register" /\ served[r] = "stored" /\ UNCHANGED <<rows, removed>>
  BY DEF RefreshService, Admin
<1>2. CASE r \in rows
  <2>1. Service(r, "200")
    BY <1>2 DEF RefreshService
  <2> QED
    BY <1>1, <2>1, MoveKeeps DEF Answers, Working
<1>3. CASE r \notin rows
  <2>1. Service(r, "500")
    BY <1>3 DEF RefreshService
  <2>2. r \in removed
    BY <1>1, <1>3 DEF IInv, Rows
  <2> QED
    BY <1>1, <1>3, <2>1, <2>2, MoveKeeps DEF Answers, Working
<1> QED
  BY <1>2, <1>3

LEMMA FindServiceKeeps == ASSUME IInv, NEW r \in Reqs, FindService(r) PROVE IInv'
<1>1. op[r] = "deregister" /\ served[r] = "arrived" /\ UNCHANGED <<rows, removed>>
  BY DEF FindService, Admin
<1>2. CASE arg[r].id \in rows
  BY <1>1, <1>2, MoveKeeps DEF FindService, Working
<1>3. CASE arg[r].id \notin rows
  <2>1. Service(r, "404")
    BY <1>3 DEF FindService
  <2> QED
    BY <1>1, <2>1, MoveKeeps DEF Answers, Working
<1> QED
  BY <1>2, <1>3

LEMMA DeleteServiceKeeps == ASSUME IInv, NEW r \in Reqs, DeleteService(r) PROVE IInv'
<1> USE DEF DeleteService, Admin, Service, network
<1>1. arg[r].id \in rows \union removed /\ arg[r].id \in Reqs
  BY DEF IInv, Rows, Sent
<1>2. rows' \union removed' = rows \union removed /\ removed \subseteq removed'
  BY <1>1
<1>3. r \notin rows \union removed
  BY DEF IInv, Rows
<1>4. TypeOK'
  BY <1>1 DEF IInv, TypeOK, Answers
<1>5. Sent'
  BY DEF IInv, TypeOK, Sent
<1>6. Sides'
  BY DEF IInv, TypeOK, Sides
<1>7. Rows'
  BY <1>1, <1>2, <1>3 DEF IInv, TypeOK, Rows
<1>8. Targets'
  BY <1>2 DEF IInv, Targets
<1>9. Befores' /\ NoFaults' /\ NoCallAfterDeregistration'
  BY DEF IInv, Befores, NoFaults, NoCallAfterDeregistration
<1>10. RegistrationRefusedForCause'
  BY <1>2 DEF IInv, TypeOK, RegistrationRefusedForCause
<1> QED
  BY <1>4, <1>5, <1>6, <1>7, <1>8, <1>9, <1>10 DEF IInv

LEMMA ServeKeeps == ASSUME IInv, NEW r \in Reqs, Serve(r) PROVE IInv'
<1>1. CASE Chat(r)
  BY <1>1, MoveKeeps DEF Chat, Answers, Working
<1>2. CASE Forbidden(r)
  BY <1>2, MoveKeeps DEF Forbidden, Answers, Working
<1>3. CASE CheckService(r)
  BY <1>3, CheckServiceKeeps
<1>4. CASE InsertService(r)
  BY <1>4, InsertServiceKeeps
<1>5. CASE FindService(r)
  BY <1>5, FindServiceKeeps
<1>6. CASE DeleteService(r)
  BY <1>6, DeleteServiceKeeps
<1>8. CASE RefreshService(r)
  BY <1>8, RefreshServiceKeeps
<1>7. CASE DatabaseError(r)
  <2>1. faults # 0
    BY <1>7 DEF DatabaseError, IInv, NoFaults, Hosts
  <2> QED
    BY <1>7, <2>1, MoveKeeps DEF DatabaseError, Answers
<1> QED
  BY <1>1, <1>2, <1>3, <1>4, <1>5, <1>6, <1>7, <1>8 DEF Serve

-----------------------------------------------------------------------------
(* Requests and failures *)

LEMMA SendKeeps ==
  ASSUME IInv, NEW r \in Reqs, NEW o \in {"register", "deregister", "chat"}, NEW a \in Args,
         o = "deregister" => a.id \in Reqs,
         Send(r, o, a)
  PROVE  IInv'
<1> USE DEF Send, table, network
<1>1. op[r] = "none" /\ served[r] = "none" /\ target[r] = None
  BY DEF IInv, Sent
<1>2. r \notin rows \union removed
  BY <1>1 DEF IInv, Rows
<1>3. TypeOK'
  BY DEF IInv, TypeOK
<1>4. Sent'
  BY <1>1 DEF IInv, TypeOK, Sent
<1>5. Sides'
  BY <1>1 DEF IInv, TypeOK, Sides
<1>6. Rows'
  BY <1>1, <1>2 DEF IInv, TypeOK, Rows
<1>7. Targets'
  BY <1>1, <1>2 DEF IInv, TypeOK, Targets
<1>8. Befores'
  BY <1>1 DEF IInv, TypeOK, Befores
<1>9. NoFaults'
  BY DEF IInv, NoFaults
<1>10. NoCallAfterDeregistration'
  <2> SUFFICES ASSUME NEW x \in Reqs, target'[x] # None
               PROVE  /\ arg'[target[x]].name = arg'[x].name
                      /\ \A d \in before'[x] : op'[d] = "deregister" => arg'[d].id # target[x]
    BY DEF NoCallAfterDeregistration
  <2>1. x # r /\ target[x] # r /\ target[x] \in Reqs
    BY <1>1, <1>2 DEF IInv, Targets, TypeOK
  <2>2. before'[x] = before[x] /\ r \notin before[x] /\ before[x] \subseteq Reqs
    BY <2>1 DEF IInv, TypeOK, Befores
  <2> QED
    BY <2>1, <2>2 DEF IInv, TypeOK, NoCallAfterDeregistration
<1>11. RegistrationRefusedForCause'
  BY <1>1, <1>2 DEF IInv, TypeOK, RegistrationRefusedForCause
<1> QED
  BY <1>3, <1>4, <1>5, <1>6, <1>7, <1>8, <1>9, <1>10, <1>11 DEF IInv

LEMMA RequestKeeps == ASSUME IInv, NEW r \in Reqs, Request(r) PROVE IInv'
<1> PICK g \in {"admin", "other"} :
        \/ \E n \in Names, p \in Prefixes, u \in Urls :
             Send(r, "register", [group |-> g, name |-> n, prefix |-> p, url |-> u,
                                  id |-> None])
        \/ \E n \in Names :
             Send(r, "chat", [group |-> g, name |-> n, prefix |-> None, url |-> None,
                              id |-> None])
        \/ \E q \in rows \union removed :
             Send(r, "deregister", [group |-> g, name |-> arg[q].name, prefix |-> None,
                                    url |-> None, id |-> q])
  BY DEF Request
<1>1. ASSUME NEW n \in Names, NEW p \in Prefixes, NEW u \in Urls,
             Send(r, "register", [group |-> g, name |-> n, prefix |-> p, url |-> u,
                                  id |-> None])
      PROVE  IInv'
  <2>1. [group |-> g, name |-> n, prefix |-> p, url |-> u, id |-> None] \in Args
    BY DEF Args
  <2> QED
    BY <1>1, <2>1, SendKeeps
<1>2. ASSUME NEW n \in Names,
             Send(r, "chat", [group |-> g, name |-> n, prefix |-> None, url |-> None,
                              id |-> None])
      PROVE  IInv'
  <2>1. [group |-> g, name |-> n, prefix |-> None, url |-> None, id |-> None] \in Args
    BY DEF Args
  <2> QED
    BY <1>2, <2>1, SendKeeps
<1>3. ASSUME NEW q \in rows \union removed,
             Send(r, "deregister", [group |-> g, name |-> arg[q].name, prefix |-> None,
                                    url |-> None, id |-> q])
      PROVE  IInv'
  <2>1. q \in Reqs /\ arg[q] \in Args
    BY DEF IInv, TypeOK, Rows, Sent
  <2>2. [group |-> g, name |-> arg[q].name, prefix |-> None, url |-> None, id |-> q] \in Args
    BY <2>1 DEF Args
  <2> QED
    BY <1>3, <2>1, <2>2, SendKeeps
<1> QED
  BY <1>1, <1>2, <1>3

LEMMA FailKeeps == ASSUME IInv, NEW h \in Hosts, Fail(h) PROVE IInv'
<1> USE DEF Fail, table
<1>1. \A r \in Reqs : \/ served'[r] = served[r]
                      \/ /\ served'[r] = "lost" /\ served[r] \in Working \union Answers
                         /\ calls[r] = "forwarding" \/ served[r] \in Working
  BY DEF IInv, TypeOK
<1>2. served' \in [Reqs -> {"none", "lost"} \union Working \union Answers]
  BY DEF IInv, TypeOK
<1>3. faults' \in 0..MaxFaults /\ faults' # 0
  BY SolutionRoutingAssumption DEF SolutionRoutingAssumption, IInv, TypeOK
<1>4. TypeOK'
  BY <1>2, <1>3 DEF IInv, TypeOK
<1>5. Sent'
  BY <1>1 DEF IInv, Sent, Working, Answers
<1>6. Sides'
  BY <1>1 DEF IInv, Sides, Working, Answers
<1>7. Rows'
  BY <1>1 DEF IInv, TypeOK, Rows
<1>8. Targets' /\ Befores' /\ NoCallAfterDeregistration'
  BY DEF IInv, Targets, Befores, NoCallAfterDeregistration
<1>9. NoFaults'
  BY <1>3 DEF NoFaults
<1>10. RegistrationRefusedForCause'
  BY <1>1, <1>3 DEF IInv, RegistrationRefusedForCause
<1> QED
  BY <1>4, <1>5, <1>6, <1>7, <1>8, <1>9, <1>10 DEF IInv

LEMMA EnvironmentKeeps ==
  ASSUME IInv,
         \/ \E h \in Hosts : Recover(h)
         \/ \E q \in Reqs : Switch(q)
         \/ UNCHANGED vars
  PROVE  IInv'
<1> USE DEF Recover, Switch, vars, table, network
<1>1. UNCHANGED <<rows, removed, op, arg, calls, served, target, runs, before>>
  OBVIOUS
<1>2. TypeOK'
  BY SolutionRoutingAssumption DEF SolutionRoutingAssumption, IInv, TypeOK
<1>3. NoFaults'
  BY SolutionRoutingAssumption DEF SolutionRoutingAssumption, IInv, TypeOK, NoFaults
<1>4. faults' = 0 => faults = 0
  BY SolutionRoutingAssumption DEF SolutionRoutingAssumption, IInv, TypeOK
<1>5. Sent' /\ Sides' /\ Rows' /\ Targets' /\ Befores'
  BY <1>1 DEF IInv, Sent, Sides, Rows, Targets, Befores
<1>6. NoCallAfterDeregistration' /\ RegistrationRefusedForCause'
  BY <1>1, <1>4 DEF IInv, NoCallAfterDeregistration, RegistrationRefusedForCause
<1> QED
  BY <1>2, <1>3, <1>5, <1>6 DEF IInv

-----------------------------------------------------------------------------
(* The theorems *)

LEMMA Invariance == Spec => []IInv
<1>1. ASSUME IInv, [Next]_vars PROVE IInv'
  BY <1>1, RequestKeeps, GateKeeps, ServeKeeps, FailKeeps, EnvironmentKeeps DEF Next
<1> QED
  BY InitIInv, <1>1, PTL DEF Spec

\* Every reachable state is well typed.
THEOREM TypeCorrect == Spec => []TypeOK
<1>1. IInv => TypeOK
  BY DEF IInv
<1> QED
  BY <1>1, Invariance, PTL

\* No call is delivered twice; an answer is the service's own, or a 404 or 503 of
\* a call that never is delivered, or a 500 or 504; and what an admin is told was
\* done has been done.
THEOREM OutcomeKnownHolds == Spec => []OutcomeKnown
<1>1. IInv => OutcomeKnown
  BY DEF IInv, TypeOK, Sides, Rows, Answers, Answered, OutcomeKnown
<1> QED
  BY <1>1, Invariance, PTL

\* No chat call that is sent after a deregistration was answered reaches the
\* solution that was removed.
THEOREM NoCallAfterDeregistrationHolds == Spec => []NoCallAfterDeregistration
<1>1. IInv => NoCallAfterDeregistration
  BY DEF IInv
<1> QED
  BY <1>1, Invariance, PTL

\* register_service refuses only over a name that is or was taken, and without
\* faults fails only over such a name or prefix or a row removed at once, and
\* leaves no row.
THEOREM RegistrationRefusedForCauseHolds == Spec => []RegistrationRefusedForCause
<1>1. IInv => RegistrationRefusedForCause
  BY DEF IInv
<1> QED
  BY <1>1, Invariance, PTL
=============================================================================
