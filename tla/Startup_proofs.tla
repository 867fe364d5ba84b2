--------------------------- MODULE Startup_proofs ---------------------------
(***************************************************************************)
(* Proofs about Startup, for any number of tables, of attempts and of      *)
(* crashes.                                                                *)
(***************************************************************************)
EXTENDS Startup, TLAPS

-----------------------------------------------------------------------------
(* The inductive invariant *)

\* init.sql has created all tables.
Complete == statement = TableCount + 1

\* What init.sql has created is there, and an empty volume is one that nobody
\* has looked at.  Unless it was interrupted, init.sql has run to its end
\* whenever Postgres is not at it.
ScriptRuns ==
    /\ empty => postgres = "down" /\ statement = 1
    /\ ~interrupted => \A t \in Tables : t < statement => shape[t] = "init"
    /\ ~interrupted /\ ~empty /\ postgres # "initializing" => Complete

\* The open transaction of the auth-service, of which nobody else has any: it
\* has created the tables that were missing among those it has come to.
MigrationRuns ==
    /\ status["user"] # "migrating"
    /\ status["auth"] = "migrating" => postgres = "up" /\ ~version
    /\ status["auth"] # "migrating" => migrated = 0 /\ created = {}
    /\ \A t \in created : shape[t] = "none"
    /\ \A t \in 1..migrated : shape[t] # "none" \/ t \in created

\* The version is recorded once all tables are there, and the auth-service
\* serves once it is.  No service got so far before the server was up.
VersionRecorded ==
    /\ version => \A t \in Tables : shape[t] # "none"
    /\ status["auth"] = "serving" => version
    /\ (\E s \in Services : status[s] = "serving") => ~empty
    /\ ~interrupted /\ (\E s \in Services : status[s] = "serving") => Complete

\* A service that still waits has attempts left.
AttemptsLeft == \A s \in Services : status[s] = "waiting" => attempts[s] < Retries

IInv ==
    /\ TypeOK
    /\ AttemptsLeft
    /\ ScriptRuns
    /\ MigrationRuns
    /\ VersionRecorded
    /\ MigratedWhole

-----------------------------------------------------------------------------
LEMMA Bounds ==
    1 \in 1..(TableCount + 1) /\ 0 \in 0..TableCount /\ 0 \in 0..Retries /\ 0 \in 0..MaxCrashes
  BY StartupAssumption DEF StartupAssumption

LEMMA InitIInv == Init => IInv
<1> SUFFICES ASSUME Init PROVE IInv
  OBVIOUS
<1> USE StartupAssumption DEF Init, StartupAssumption
<1>1. TypeOK
  BY Bounds DEF TypeOK
<1>2. AttemptsLeft /\ MigratedWhole
  BY DEF AttemptsLeft, MigratedWhole
<1>3. ScriptRuns
  BY DEF ScriptRuns, Tables
<1>4. MigrationRuns
  BY DEF MigrationRuns, Services
<1>5. VersionRecorded
  BY DEF VersionRecorded, Services
<1> QED
  BY <1>1, <1>2, <1>3, <1>4, <1>5 DEF IInv

-----------------------------------------------------------------------------
(* Every step preserves it: Postgres *)

LEMMA PostgresStartsKeeps == ASSUME IInv, PostgresStarts PROVE IInv'
  BY StartupAssumption DEF PostgresStarts, services, AttemptsLeft, StartupAssumption, IInv, TypeOK, ScriptRuns,
     MigrationRuns, VersionRecorded, MigratedWhole, Complete, Tables, Services

LEMMA InitCreatesKeeps == ASSUME IInv, InitCreates PROVE IInv'
<1> USE DEF InitCreates, services
<1>1. TypeOK'
  BY StartupAssumption DEF StartupAssumption, IInv, TypeOK, Tables
<1>2. ScriptRuns'
  BY StartupAssumption DEF StartupAssumption, IInv, TypeOK, ScriptRuns, Complete, Tables
<1>3. MigrationRuns'
  BY DEF IInv, MigrationRuns, Services, TypeOK
<1>4. VersionRecorded'
  <2>1. ~Complete
    BY StartupAssumption DEF StartupAssumption, Complete, Tables
  <2>2. \A t \in Tables : shape'[t] \in {shape[t], "init"}
    BY DEF IInv, TypeOK
  <2> QED
    BY <2>1, <2>2 DEF IInv, VersionRecorded
<1>5. MigratedWhole' /\ AttemptsLeft'
  BY DEF IInv, MigratedWhole, AttemptsLeft, TypeOK
<1> QED
  BY <1>1, <1>2, <1>3, <1>4, <1>5 DEF IInv

LEMMA InitEndsKeeps == ASSUME IInv, InitEnds PROVE IInv'
  BY StartupAssumption DEF InitEnds, services, AttemptsLeft, StartupAssumption, IInv, TypeOK, ScriptRuns,
     MigrationRuns, VersionRecorded, MigratedWhole, Complete, Tables, Services

LEMMA PostgresDiesKeeps == ASSUME IInv, PostgresDies PROVE IInv'
<1> USE DEF PostgresDies, Crash, Rollback
<1>1. TypeOK'
  BY StartupAssumption DEF StartupAssumption, IInv, TypeOK, Services
<1>2. ScriptRuns'
  <2>1. ~empty
    BY DEF IInv, ScriptRuns
  <2>2. ~interrupted' => Complete
    <3>1. CASE postgres = "initializing"
      <4>1. statement \in 1..(TableCount + 1)
        BY DEF IInv, TypeOK
      <4>2. ~interrupted' => statement \notin 1..TableCount
        BY <3>1 DEF Tables
      <4> QED
        BY <4>1, <4>2, StartupAssumption DEF StartupAssumption, Complete
    <3>2. CASE postgres # "initializing"
      BY <2>1, <3>2 DEF IInv, ScriptRuns
    <3> QED
      BY <3>1, <3>2
  <2>3. ~interrupted' => ~interrupted
    OBVIOUS
  <2> QED
    BY <2>1, <2>2, <2>3 DEF IInv, ScriptRuns, Complete
<1>3. MigrationRuns'
  BY DEF IInv, MigrationRuns, Services, TypeOK
<1>4. VersionRecorded'
  BY DEF IInv, VersionRecorded, TypeOK, Complete, Services
<1>5. MigratedWhole' /\ AttemptsLeft'
  BY DEF IInv, MigratedWhole, AttemptsLeft, TypeOK
<1> QED
  BY <1>1, <1>2, <1>3, <1>4, <1>5 DEF IInv

LEMMA WipeKeeps == ASSUME IInv, Wipe PROVE IInv'
<1> USE StartupAssumption DEF Wipe, Blank, StartupAssumption
<1>1. TypeOK'
  <2>1. crashes' \in 0..MaxCrashes
    BY DEF Crash, IInv, TypeOK
  <2> QED
    BY <2>1, Bounds DEF IInv, TypeOK
<1>2. AttemptsLeft' /\ MigratedWhole'
  BY DEF AttemptsLeft, MigratedWhole
<1>3. ScriptRuns'
  BY DEF ScriptRuns, Tables
<1>4. MigrationRuns'
  BY DEF MigrationRuns, Services
<1>5. VersionRecorded'
  BY DEF VersionRecorded, Services
<1> QED
  BY <1>1, <1>2, <1>3, <1>4, <1>5 DEF IInv

-----------------------------------------------------------------------------
(* The services *)

LEMMA StartKeeps == ASSUME IInv, NEW s \in Services, Start(s) PROVE IInv'
<1> USE DEF Start, Become, database, Transaction
<1>1. TypeOK'
  BY StartupAssumption DEF StartupAssumption, IInv, TypeOK, Services
<1>2. status'["auth"] # "migrating" => status["auth"] # "migrating"
  BY DEF IInv, TypeOK, Services
<1>3. \A x \in Services : status'[x] \in {"serving", "migrating"} => status'[x] = status[x]
  BY DEF IInv, TypeOK
<1>4. AttemptsLeft'
  BY StartupAssumption DEF StartupAssumption, IInv, AttemptsLeft, TypeOK
<1> QED
  BY <1>1, <1>2, <1>3, <1>4 DEF IInv, ScriptRuns, MigrationRuns, VersionRecorded, MigratedWhole,
     Complete, Services

LEMMA ServiceDiesKeeps == ASSUME IInv, NEW s \in Services, ServiceDies(s) PROVE IInv'
<1> USE DEF ServiceDies, Become, Crash, Rollback, Transaction
<1>1. TypeOK'
  BY StartupAssumption DEF StartupAssumption, IInv, TypeOK, Services
<1>2. \A x \in Services : status'[x] \in {"serving", "migrating"} => status'[x] = status[x]
  BY DEF IInv, TypeOK
<1>3. shape' = shape
  OBVIOUS
<1>4. ScriptRuns'
  BY <1>3 DEF IInv, ScriptRuns, Complete
<1>5. MigrationRuns'
  <2>1. CASE s = "auth" /\ status["auth"] = "migrating"
    BY <2>1, <1>2, <1>3 DEF IInv, MigrationRuns, Services, TypeOK
  <2>2. CASE ~(s = "auth" /\ status["auth"] = "migrating")
    <3>1. status[s] # "migrating" /\ UNCHANGED <<migrated, created>>
      BY <2>2 DEF IInv, MigrationRuns, Services
    <3>2. (status["auth"] = "migrating")' <=> status["auth"] = "migrating"
      BY <2>2, <1>2 DEF IInv, TypeOK, Services
    <3> QED
      BY <1>2, <1>3, <3>1, <3>2 DEF IInv, MigrationRuns, Services
  <2> QED
    BY <2>1, <2>2
<1>6. VersionRecorded'
  BY <1>2, <1>3 DEF IInv, VersionRecorded, Complete, Services
<1>7. MigratedWhole' /\ AttemptsLeft'
  BY <1>3 DEF IInv, MigratedWhole, AttemptsLeft, TypeOK
<1> QED
  BY <1>1, <1>4, <1>5, <1>6, <1>7 DEF IInv

LEMMA AvailableKeeps == ASSUME IInv, NEW s \in Services, Available(s) PROVE IInv'
<1> USE DEF Available, Become, database, Transaction, Reachable
<1>1. TypeOK'
  BY DEF IInv, TypeOK, Services
<1>2. \A x \in Services \ {s} : status'[x] = status[x]
  BY DEF IInv, TypeOK
<1>3. status'[s] = IF s = "auth" /\ ~version THEN "migrating" ELSE "serving"
  BY DEF IInv, TypeOK
<1>4. ScriptRuns'
  BY DEF IInv, ScriptRuns, Complete
<1>5. MigrationRuns'
  BY <1>2, <1>3 DEF IInv, MigrationRuns, Services, TypeOK
<1>6. VersionRecorded'
  BY <1>2, <1>3 DEF IInv, VersionRecorded, ScriptRuns, Complete, Services
<1>7. MigratedWhole' /\ AttemptsLeft'
  BY <1>2, <1>3 DEF IInv, MigratedWhole, AttemptsLeft
<1> QED
  BY <1>1, <1>4, <1>5, <1>6, <1>7 DEF IInv

LEMMA NotReadyKeeps == ASSUME IInv, NEW s \in Services, NotReady(s) PROVE IInv'
<1> USE DEF NotReady, Become, database, Transaction
<1>1. attempts[s] < Retries
  BY DEF IInv, AttemptsLeft
<1>2. TypeOK'
  <2>1. attempts' \in [Services -> 0..Retries]
    BY <1>1, StartupAssumption DEF StartupAssumption, IInv, TypeOK
  <2> QED
    BY <2>1 DEF IInv, TypeOK
<1>3. \A x \in Services : status'[x] \in {"serving", "migrating"} <=> status[x] \in {"serving", "migrating"}
  BY DEF IInv, TypeOK
<1>4. AttemptsLeft'
  BY <1>1, StartupAssumption DEF StartupAssumption, IInv, AttemptsLeft, TypeOK
<1> QED
  BY <1>2, <1>3, <1>4 DEF IInv, ScriptRuns, MigrationRuns, VersionRecorded, MigratedWhole,
     Complete, Services

-----------------------------------------------------------------------------
(* The migration *)

LEMMA MigrationCreatesKeeps == ASSUME IInv, MigrationCreates PROVE IInv'
<1> USE DEF MigrationCreates, database, Missing
<1>1. TypeOK'
  <2>1. migrated + 1 \in 0..TableCount /\ migrated + 1 \in Tables
    BY StartupAssumption DEF StartupAssumption, IInv, TypeOK, Tables
  <2>2. created' \subseteq Tables
    BY <2>1 DEF IInv, TypeOK
  <2> QED
    BY <2>1, <2>2 DEF IInv, TypeOK
<1>2. ScriptRuns'
  BY DEF IInv, ScriptRuns, Complete
<1>3. MigrationRuns'
  BY DEF IInv, MigrationRuns, TypeOK
<1>4. VersionRecorded'
  BY DEF IInv, VersionRecorded, Complete
<1>5. MigratedWhole' /\ AttemptsLeft'
  BY DEF IInv, MigratedWhole, AttemptsLeft
<1> QED
  BY <1>1, <1>2, <1>3, <1>4, <1>5 DEF IInv

LEMMA MigrationEndsKeeps == ASSUME IInv, MigrationEnds PROVE IInv'
<1> USE DEF MigrationEnds, Become
<1>1. TypeOK'
  BY StartupAssumption DEF StartupAssumption, IInv, TypeOK, Services
<1>2. ~interrupted => Complete /\ \A t \in Tables : shape[t] = "init"
  BY StartupAssumption DEF StartupAssumption, IInv, TypeOK, ScriptRuns, MigrationRuns, Complete,
     Tables
<1>3. ~interrupted => shape' = shape
  <2> SUFFICES ASSUME ~interrupted PROVE shape' = shape
    OBVIOUS
  <2>1. created = {}
    BY <1>2 DEF IInv, MigrationRuns, TypeOK
  <2> QED
    BY <2>1 DEF IInv, TypeOK
<1>4. ScriptRuns'
  BY <1>2, <1>3 DEF IInv, ScriptRuns, Complete
<1>5. MigrationRuns'
  BY DEF IInv, MigrationRuns, TypeOK, Services
<1>6. VersionRecorded'
  BY <1>2, StartupAssumption DEF StartupAssumption, IInv, VersionRecorded, MigrationRuns,
     ScriptRuns, TypeOK, Complete, Services, Tables
<1>7. MigratedWhole' /\ AttemptsLeft'
  BY DEF MigratedWhole, IInv, AttemptsLeft, TypeOK
<1> QED
  BY <1>1, <1>4, <1>5, <1>6, <1>7 DEF IInv

-----------------------------------------------------------------------------
(* The theorems *)

LEMMA NextKeeps == ASSUME IInv, [Next]_vars PROVE IInv'
<1>1. CASE PostgresStarts
  BY <1>1, PostgresStartsKeeps
<1>2. CASE InitCreates
  BY <1>2, InitCreatesKeeps
<1>3. CASE InitEnds
  BY <1>3, InitEndsKeeps
<1>4. CASE PostgresDies
  BY <1>4, PostgresDiesKeeps
<1>5. CASE Wipe
  BY <1>5, WipeKeeps
<1>6. CASE \E s \in Services : Start(s)
  BY <1>6, StartKeeps
<1>7. CASE \E s \in Services : ServiceDies(s)
  BY <1>7, ServiceDiesKeeps
<1>8. CASE \E s \in Services : Waits(s)
  BY <1>8, AvailableKeeps, NotReadyKeeps DEF Waits
<1>9. CASE Migrates
  BY <1>9, MigrationCreatesKeeps, MigrationEndsKeeps DEF Migrates
<1>10. CASE UNCHANGED vars
  BY <1>10 DEF vars, database, services, IInv, TypeOK, ScriptRuns, MigrationRuns,
     VersionRecorded, MigratedWhole, AttemptsLeft, Complete
<1> QED
  BY <1>1, <1>2, <1>3, <1>4, <1>5, <1>6, <1>7, <1>8, <1>9, <1>10 DEF Next

LEMMA Invariance == Spec => []IInv
  BY InitIInv, NextKeeps, PTL DEF Spec

\* Every reachable state is well typed: in particular no start makes more
\* attempts than Retries.
THEOREM TypeCorrect == Spec => []TypeOK
<1>1. IInv => TypeOK
  BY DEF IInv
<1> QED
  BY <1>1, Invariance, PTL

\* However often init.sql and the migration were cut off, and wherever: an
\* auth-service that serves has all the tables.
THEOREM SchemaWhenServingHolds == Spec => []SchemaWhenServing
<1>1. IInv => SchemaWhenServing
  BY DEF IInv, VersionRecorded, SchemaWhenServing
<1> QED
  BY <1>1, Invariance, PTL

\* A migration leaves all of its tables, and the version, or nothing.
THEOREM MigratedWholeHolds == Spec => []MigratedWhole
<1>1. IInv => MigratedWhole
  BY DEF IInv
<1> QED
  BY <1>1, Invariance, PTL

\* Unless init.sql was interrupted, services serve the tables it made.
THEOREM UsableUnlessInterruptedHolds == Spec => []UsableUnlessInterrupted
<1>1. IInv => UsableUnlessInterrupted
  BY StartupAssumption
     DEF StartupAssumption, IInv, ScriptRuns, VersionRecorded, Complete, Tables,
         UsableUnlessInterrupted
<1> QED
  BY <1>1, Invariance, PTL
-----------------------------------------------------------------------------
(***************************************************************************)
(* Every start ends: that is a matter of fairness and left to TLC          *)
(* (EveryStartEnds).  What makes it so is proved here: a measure of what a *)
(* start has before it, which its own steps lower and no step raises, for  *)
(* any number of tables and attempts, whatever Postgres does meanwhile.    *)
(***************************************************************************)

\* How many steps the start of s has before it at most; 0 when it has ended.
Left(s) ==
    CASE status[s] = "waiting"   -> (Retries - attempts[s]) + TableCount + 2
      [] status[s] = "migrating" -> (TableCount - migrated) + 1
      [] OTHER -> 0

StartsAdvance ==
    [][\A s \in Services : status[s] \in {"waiting", "migrating"} =>
         /\ Left(s)' <= Left(s)
         /\ Waits(s) \/ (s = "auth" /\ Migrates) => Left(s)' < Left(s)]_vars

LEMMA LeftStep ==
  ASSUME IInv, [Next]_vars, NEW s \in Services, status[s] \in {"waiting", "migrating"}
  PROVE  /\ Left(s)' <= Left(s)
         /\ Waits(s) \/ (s = "auth" /\ Migrates) => Left(s)' < Left(s)
<1> USE StartupAssumption DEF IInv, TypeOK
<1>0. /\ status[s] = "migrating" => s = "auth"
      /\ s \in {"auth", "user"}
  BY DEF MigrationRuns, Services
<1>1. Left(s) \in Nat /\ Left(s) > 0
  BY DEF Left
<1>2. ASSUME Waits(s) PROVE Left(s)' < Left(s) /\ Left(s)' <= Left(s)
  BY <1>2 DEF Waits, Available, NotReady, Become, Left, Transaction, services
<1>3. ASSUME Migrates, s = "auth" PROVE Left(s)' < Left(s) /\ Left(s)' <= Left(s)
  BY <1>3 DEF Migrates, MigrationCreates, MigrationEnds, Become, Left, Services
<1>4. ASSUME Migrates, s # "auth" PROVE Left(s)' = Left(s)
  BY <1>0, <1>4 DEF Migrates, MigrationCreates, MigrationEnds, Become, Left, Services
<1>5. ASSUME UNCHANGED services PROVE Left(s)' = Left(s)
  BY <1>5 DEF services, Left
<1>6. ASSUME PostgresStarts \/ InitCreates \/ InitEnds \/ UNCHANGED vars PROVE Left(s)' = Left(s)
  BY <1>5, <1>6 DEF PostgresStarts, InitCreates, InitEnds, vars
<1>7. ASSUME PostgresDies \/ Wipe PROVE Left(s)' <= Left(s)
  BY <1>1, <1>7 DEF PostgresDies, Wipe, Left
<1>8. ASSUME NEW q \in Services, Start(q) \/ ServiceDies(q) PROVE Left(s)' <= Left(s)
  <2>1. CASE q = s
    BY <1>1, <1>8, <2>1 DEF Start, ServiceDies, Become, Left
  <2>2. CASE q # s
    <3>1. status'[s] = status[s] /\ attempts'[s] = attempts[s]
      BY <1>8, <2>2 DEF Start, ServiceDies, Become
    <3>2. status[s] = "migrating" => migrated' = migrated
      BY <1>0, <1>8, <2>2 DEF Start, ServiceDies, Transaction, MigrationRuns, Services
    <3> QED
      BY <3>1, <3>2 DEF Left
  <2> QED
    BY <2>1, <2>2
<1>9. ASSUME NEW q \in Services, q # s, Waits(q) PROVE Left(s)' = Left(s)
  BY <1>9 DEF Waits, Available, NotReady, Become, Left, Transaction
<1>10. Left(s)' <= Left(s)
  <2>1. \/ PostgresStarts \/ InitCreates \/ InitEnds \/ UNCHANGED vars
        \/ PostgresDies \/ Wipe
        \/ \E q \in Services : Start(q) \/ ServiceDies(q) \/ Waits(q)
        \/ Migrates
    BY DEF Next
  <2>2. Left(s)' = Left(s) => Left(s)' <= Left(s)
    <3> HIDE DEF Left
    <3> QED
      BY <1>1
  <2> QED
    BY <2>1, <2>2, <1>2, <1>3, <1>4, <1>6, <1>7, <1>8, <1>9
<1> QED
  BY <1>2, <1>3, <1>10

\* A start comes to its end in at most Left steps of its own: attempts are
\* counted, statements are not repeated, and nothing sets it back.
THEOREM StartsAdvanceHolds == Spec => StartsAdvance
<1>1. IInv /\ [Next]_vars =>
        [\A s \in Services : status[s] \in {"waiting", "migrating"} =>
           /\ Left(s)' <= Left(s)
           /\ Waits(s) \/ (s = "auth" /\ Migrates) => Left(s)' < Left(s)]_vars
  BY LeftStep
<1> QED
  BY <1>1, Invariance, PTL DEF Spec, StartsAdvance
=============================================================================
