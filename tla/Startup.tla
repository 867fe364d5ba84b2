------------------------------- MODULE Startup -------------------------------
(***************************************************************************)
(* The schema and the starts of the services: init.sql, which the          *)
(* entrypoint of the Postgres image runs on an empty volume, wait_for_db   *)
(* of the auth- and the user-service, and the migration that the           *)
(* auth-service applies before it serves.                                  *)
(*                                                                         *)
(*   postgres:  down -> initializing -> up      (empty volume)             *)
(*              down ------------------> up      (any other)                *)
(*   service:   down -> waiting [-> migrating, the auth-service] -> serving *)
(*                            \______________\-> failed                    *)
(*                                                                         *)
(* init.sql commits each statement; the migration is one transaction.      *)
(* Both make the same tables in the same order, in different shapes.       *)
(* Postgres and the services may die anywhere; Postgres alone is restarted *)
(* by Docker, everything else by an operator.                              *)
(***************************************************************************)
EXTENDS Naturals

CONSTANTS
    TableCount,    \* tables that init.sql and revision 0001 create, 10
    Retries,       \* attempts of wait_for_db, 10
    MaxCrashes     \* bound: deaths and wipes

ASSUME StartupAssumption ==
    /\ TableCount \in Nat \ {0}
    /\ Retries \in Nat \ {0}
    /\ MaxCrashes \in Nat

Tables   == 1..TableCount
Services == {"auth", "user"}

VARIABLES
    postgres,
    empty,        \* the pgdata volume is empty
    statement,    \* the table init.sql creates next
    shape,        \* shape[t]: who made table t, if it is there
    version,      \* alembic_version records revision 0001
    status,       \* status[s] of service s
    attempts,     \* attempts[s] that failed since s was started
    migrated,     \* statements of the migration executed
    created,      \* tables its open transaction has created
    interrupted,  \* (history) Postgres died on this volume within init.sql
    crashes

database == <<postgres, empty, statement, shape, version>>
services == <<status, attempts, migrated, created>>
vars     == <<database, services, interrupted, crashes>>

TypeOK ==
    /\ postgres \in {"down", "initializing", "up"}
    /\ empty \in BOOLEAN /\ version \in BOOLEAN /\ interrupted \in BOOLEAN
    /\ statement \in 1..(TableCount + 1)
    /\ shape \in [Tables -> {"none", "init", "migration"}]
    /\ status \in [Services -> {"down", "waiting", "migrating", "serving", "failed"}]
    /\ attempts \in [Services -> 0..Retries]
    /\ migrated \in 0..TableCount
    /\ created \subseteq Tables
    /\ crashes \in 0..MaxCrashes

\* A volume as docker creates it.
Blank == shape' = [t \in Tables |-> "none"] /\ version' = FALSE
         /\ empty' = TRUE /\ statement' = 1 /\ interrupted' = FALSE

Init ==
    /\ postgres = "down" /\ empty = TRUE /\ statement = 1
    /\ shape = [t \in Tables |-> "none"] /\ version = FALSE
    /\ status = [s \in Services |-> "down"]
    /\ attempts = [s \in Services |-> 0]
    /\ migrated = 0 /\ created = {}
    /\ interrupted = FALSE /\ crashes = 0

-----------------------------------------------------------------------------
(* Postgres *)

\* restart: always, or docker compose up.
PostgresStarts ==
    /\ postgres = "down"
    /\ postgres' = IF empty THEN "initializing" ELSE "up"
    /\ empty' = FALSE
    /\ UNCHANGED <<statement, shape, version, services, interrupted, crashes>>

\* A statement of init.sql, committed on its own.
InitCreates ==
    /\ postgres = "initializing" /\ statement \in Tables
    /\ shape' = [shape EXCEPT ![statement] = "init"]
    /\ statement' = statement + 1
    /\ UNCHANGED <<postgres, empty, version, services, interrupted, crashes>>

\* Only the server that is started after the script listens on TCP.
InitEnds ==
    /\ postgres = "initializing" /\ statement \notin Tables
    /\ postgres' = "up"
    /\ UNCHANGED <<empty, statement, shape, version, services, interrupted, crashes>>

Crash == crashes < MaxCrashes /\ crashes' = crashes + 1

\* Mutant of Rollback: what the open transaction created stays.
RollbackKeeps ==
    /\ shape' = [t \in Tables |-> IF t \in created THEN "migration" ELSE shape[t]]
    /\ migrated' = 0 /\ created' = {}

\* The open transaction of the migration, if any, is rolled back.
Rollback == migrated' = 0 /\ created' = {} /\ UNCHANGED shape

\* The connection of a migration breaks with the server, which fails the start.
PostgresDies ==
    /\ postgres # "down"
    /\ Crash
    /\ postgres' = "down"
    /\ interrupted' = (interrupted \/ (postgres = "initializing" /\ statement \in Tables))
    /\ Rollback
    /\ status' = [s \in Services |-> IF status[s] = "migrating" THEN "failed" ELSE status[s]]
    /\ UNCHANGED <<empty, statement, version, attempts>>

\* docker compose down -v
Wipe ==
    /\ Crash
    /\ postgres' = "down"
    /\ Blank
    /\ status' = [s \in Services |-> "down"]
    /\ migrated' = 0 /\ created' = {}
    /\ UNCHANGED attempts

-----------------------------------------------------------------------------
(* The services *)

Become(s, state) == status' = [status EXCEPT ![s] = state]

Transaction == <<migrated, created>>

\* An operator starts a service that does not run.
Start(s) ==
    /\ status[s] \in {"down", "failed"}
    /\ Become(s, "waiting")
    /\ attempts' = [attempts EXCEPT ![s] = 0]
    /\ UNCHANGED <<database, Transaction, interrupted, crashes>>

ServiceDies(s) ==
    /\ status[s] # "down"
    /\ Crash
    /\ Become(s, "down")
    /\ IF status[s] = "migrating" THEN Rollback ELSE UNCHANGED <<shape, Transaction>>
    /\ UNCHANGED <<postgres, empty, statement, version, attempts, interrupted>>

\* Mutant of Reachable: the server that runs the script is taken for the real one.
ReachableEarly == postgres # "down"

\* SELECT 1 is answered.
Reachable == postgres = "up"

\* on_startup when wait_for_db returned: alembic compares the version first.
Available(s) ==
    /\ status[s] = "waiting" /\ Reachable
    /\ Become(s, IF s = "auth" /\ ~version THEN "migrating" ELSE "serving")
    /\ UNCHANGED <<database, attempts, Transaction, interrupted, crashes>>

\* Mutants of NotReady: one attempt too many; the attempts are not counted.
NotReadyOnceMore(s) ==
    /\ status[s] = "waiting" /\ ~Reachable
    /\ attempts' = [attempts EXCEPT ![s] = @ + 1]
    /\ Become(s, IF attempts[s] = Retries THEN "failed" ELSE "waiting")
    /\ UNCHANGED <<database, Transaction, interrupted, crashes>>
NotReadyUncounted(s) ==
    /\ status[s] = "waiting" /\ ~Reachable
    /\ UNCHANGED vars

\* An attempt fails and is slept on; after the last, RuntimeError.
NotReady(s) ==
    /\ status[s] = "waiting" /\ ~Reachable
    /\ attempts' = [attempts EXCEPT ![s] = @ + 1]
    /\ Become(s, IF attempts'[s] = Retries THEN "failed" ELSE "waiting")
    /\ UNCHANGED <<database, Transaction, interrupted, crashes>>

\* CREATE TABLE IF NOT EXISTS finds no table t.
Missing(t) == shape[t] = "none"

\* A statement of revision 0001.
MigrationCreates ==
    /\ status["auth"] = "migrating" /\ migrated < TableCount
    /\ migrated' = migrated + 1
    /\ created' = created \union {t \in {migrated + 1} : Missing(t)}
    /\ UNCHANGED <<database, status, attempts, interrupted, crashes>>

\* Mutant of MigrationEnds: the version is recorded, the transaction not committed.
MigrationEndsUncommitted ==
    /\ status["auth"] = "migrating" /\ migrated = TableCount
    /\ version' = TRUE
    /\ Rollback
    /\ Become("auth", "serving")
    /\ UNCHANGED <<postgres, empty, statement, attempts, interrupted, crashes>>

\* The version row is inserted and all is committed; the service serves.
MigrationEnds ==
    /\ status["auth"] = "migrating" /\ migrated = TableCount
    /\ shape' = [t \in Tables |-> IF t \in created THEN "migration" ELSE shape[t]]
    /\ version' = TRUE
    /\ migrated' = 0 /\ created' = {}
    /\ Become("auth", "serving")
    /\ UNCHANGED <<postgres, empty, statement, attempts, interrupted, crashes>>

-----------------------------------------------------------------------------
(* The specification *)

Waits(s) == Available(s) \/ NotReady(s)
Migrates == MigrationCreates \/ MigrationEnds

Next ==
    \/ PostgresStarts \/ InitCreates \/ InitEnds \/ PostgresDies \/ Wipe
    \/ \E s \in Services : Start(s) \/ ServiceDies(s) \/ Waits(s)
    \/ Migrates

\* A service that was started runs.  Postgres may stay down, or take for ever
\* over its script, and nobody has to start a service.
Fairness ==
    /\ \A s \in Services : WF_vars(Waits(s))
    /\ WF_vars(Migrates)

Spec == Init /\ [][Next]_vars /\ Fairness

-----------------------------------------------------------------------------
(* Properties *)

\* However often Postgres and the auth-service died before, an auth-service
\* that serves has all the tables, and the version tells the next start so.
SchemaWhenServing ==
    status["auth"] = "serving" => version /\ \A t \in Tables : shape[t] # "none"

\* A migration that did not end leaves nothing: a table of its shape is there
\* only together with the version.
MigratedWhole == (\E t \in Tables : shape[t] = "migration") => version

\* As long as init.sql was not interrupted, no service serves before all
\* tables are there in the shape that the models are written for, and no
\* start after that changes one.
UsableUnlessInterrupted ==
    ~interrupted /\ (\E s \in Services : status[s] = "serving")
        => \A t \in Tables : shape[t] = "init"

\* No start hangs: it ends with a service that serves or in a failure that an
\* operator sees, also while Postgres stays down.
EveryStartEnds == \A s \in Services :
    status[s] \in {"waiting", "migrating"} ~> status[s] \notin {"waiting", "migrating"}

\* README.md:318: "Alembic and init.sql are kept in sync", so the auth-service
\* serves from the tables its models describe, whoever created them.
KeptInSync == status["auth"] = "serving" => \A t \in Tables : shape[t] = "init"
=============================================================================
